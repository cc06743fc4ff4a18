------------------------------- MODULE Kernel -------------------------------
(***************************************************************************)
(* The NEOX kernel at the granularity of preemption.                       *)
(*                                                                         *)
(* One CPU runs the process active_pid.  pc[p] is the point a process has  *)
(* reached inside the kernel (or "user").  Every label is a place where    *)
(* IRQs are enabled, so the timer may take the CPU away there; a stretch   *)
(* of code that runs with IRQs masked, or that no other actor can observe  *)
(* half done, is one action.  Every action that ends in sched_yield,       *)
(* sched_block_current or sched_context_switch contains the whole          *)
(* scheduler pass (Dispatch): console focus, timers, signals, selection.   *)
(***************************************************************************)
EXTENDS ProcessTable

CONSTANTS
    MaxContexts,    \* MAX_CONTEXTS; context 0 is reserved for PID 0
    BootTasks,      \* PIDs created by tasks_init, children of PID 0
    BootCatch,      \* those created with PROC_FLAG_SIGINT_INTERRUPT
    SpawnCatch,     \* values of that flag a spawn may ask for
    Syscalls,       \* system calls the processes make
    SentSignals,    \* signals ksys_signal is called with
    SelfKill,       \* BOOLEAN: a process may send KILL to itself
    Breaks,         \* BOOLEAN: the RP may raise console-break IRQs
    Routes          \* PIDs the RP may route its console to

AllSyscalls == {"yield", "sleep", "file", "console", "exit", "waitpid", "signal", "spawn"}

ASSUME KernelAssumption ==
    /\ MaxContexts \in Nat /\ MaxContexts >= 2
    /\ BootTasks \subseteq Task \cap (1 .. (MaxContexts - 1)) /\ BootCatch \subseteq BootTasks
    /\ SpawnCatch \subseteq BOOLEAN
    /\ Syscalls \subseteq AllSyscalls /\ SentSignals \subseteq Signal
    /\ SelfKill \in BOOLEAN /\ Breaks \in BOOLEAN
    /\ Routes \subseteq (Pid \cup {Nobody}) /\ Routes # {}

Context == 1 .. (MaxContexts - 1)

VARIABLES
    proc,           \* the process table
    active_pid,     \* the process (or PID 0) that has the CPU
    sched_cursor,   \* sched_cursor_pid: where the round-robin scan continues
    gate_owner,     \* file_io_gate_owner and proc_gate_owner
    wait_line,      \* the two gate FIFOs
    pc,             \* where each process is
    arg,            \* the operands of its call, on its own stack
    fds,            \* descriptors of each process: none, open, or some RP-backed ones
    context_owner,  \* context_owner_pid: which process owns each MMU context
    rp,             \* RP_STATUS: IDLE, BUSY or DONE
    console_focus,  \* console_focus_pid: the validated RP route
    console_owner,  \* console_owner_pid: the foreground process
    rp_route,       \* RP_CONSOLE_PID, written by the RP
    self_kill       \* ksys_signal_self_kill, one byte for all processes

vars == <<proc, active_pid, sched_cursor, gate_owner, wait_line, pc, arg, fds,
          context_owner, rp, console_focus, console_owner, rp_route, self_kill>>

cpu      == <<active_pid, sched_cursor, console_focus>>
holdings == <<fds, context_owner>>
others   == <<holdings, rp, rp_route, self_kill>>

Label == {"none", "new", "wild", "user",
          "f_acq", "f_req", "f_col", "c_acq", "c_chk", "c_blk",
          "x_acq", "x_life", "x_facq", "x_close", "x_col", "x_zomb", "x_parent", "x_wake", "x_rel",
          "t_facq", "t_close", "t_col", "t_empty",
          "w_acq", "w_chk", "w_wait", "w_con",
          "s_acq", "s_chk", "s_set", "s_ret",
          "k_clear", "k_cancel", "k_zombie", "k_parent", "k_wake",
          "p_acq", "p_alloc", "p_facq", "p_fclr", "p_gacq", "p_clone", "p_col", "p_pub",
          "p_con", "p_rel", "p_ret", "p_back", "p_err"}

\* The labels at which the code believes it owns a gate.
HoldsFileIO == {"f_req", "f_col", "c_chk", "x_close", "x_col", "t_close", "t_col",
                "p_fclr", "p_clone", "p_col", "p_pub", "p_con", "p_back"}
HoldsProc == {"x_life", "x_facq", "x_close", "x_col", "x_zomb", "x_parent", "x_wake", "x_rel",
              "t_facq", "t_close", "t_col", "t_empty", "w_chk", "w_wait", "w_con",
              "s_chk", "s_set", "k_clear", "k_cancel", "k_zombie", "k_parent", "k_wake",
              "p_alloc", "p_facq", "p_fclr", "p_gacq", "p_clone", "p_col", "p_pub", "p_con",
              "p_rel", "p_back", "p_err"}
Holds(g) == IF g = FileIO THEN HoldsFileIO ELSE HoldsProc

\* The labels from which a woken waiter of a gate retries the acquire.
Retries(g) == IF g = FileIO THEN {"f_acq", "c_acq", "x_facq", "t_facq", "p_facq", "p_gacq"}
              ELSE {"x_acq", "w_acq", "s_acq", "p_acq"}

NoArg(p) == [pid |-> p, sig |-> NoSignal]
Arg      == [pid : Task, sig : Signal \cup {NoSignal}]
tgt(p)   == arg[p].pid

----------------------------------------------------------------------------
(***************************************************************************)
(* The scheduler pass.                                                     *)
(***************************************************************************)

\* sched_update_console_focus: the route, validated against the table.
ValidRoute(T) ==
    IF rp_route \in Task /\ T[rp_route].state \notin Dead THEN rp_route ELSE Nobody

\* A task that is selected for the first time starts in user code; one that
\* is resumed without ever having saved a frame continues at a wild address.
Resume(T, pcs, n) ==
    [p \in Task |-> IF p # n THEN pcs[p]
                    ELSE IF T[n].state = "NEW" THEN "user"
                    ELSE IF pcs[n] = "new" THEN "wild"
                    ELSE pcs[n]]

\* The rest of the pass once the processes in S have been woken: pending
\* signals, selection, and the switch to the selected process.
Select(T, L, own, pcs, S) ==
    \E woken \in {WakeAll(T, S)} :
    \E table \in {ApplySignals(woken, {own[g] : g \in Gate})}, n \in Pid :
       /\ IsNext(table, sched_cursor, n)
       /\ proc' = SetRunning(table, n)
       /\ wait_line' = [g \in Gate |-> Unlink(L[g], SigDies(woken, {own[h] : h \in Gate}))]
       /\ active_pid' = n
       /\ sched_cursor' = n
       /\ pc' = Resume(table, pcs, n)

\* The pass over table T, gate FIFOs L, gate owners own and console owner
\* con, with program counters pcs.  The RP decides whether console input is
\* ready; which sleepers' timers have expired is left open.
Dispatch(T, L, own, con, pcs) ==
    LET route  == ValidRoute(T)
        moved  == route # console_focus
        owner  == IF moved THEN route ELSE con
        reader == {p \in Task : p = owner /\ BlockedOn(T, p, "CONSOLE")}
    IN
    /\ console_focus' = route
    /\ console_owner' = owner
    /\ \E input \in (IF moved THEN {reader} ELSE {{}, reader}),
          expired \in SUBSET {p \in Task : BlockedOn(T, p, "TIMER")} :
          Select(T, L, own, pcs, input \cup expired)

\* No pass: the same process keeps the CPU.
Continue(p, T, L, con, to) ==
    /\ proc' = T
    /\ wait_line' = L
    /\ console_owner' = con
    /\ pc' = [pc EXCEPT ![p] = to]
    /\ UNCHANGED cpu

At(p, l)   == active_pid = p /\ pc[p] = l
Goto(p, l) == [pc EXCEPT ![p] = l]

\* A step of the kernel code of p that changes the table and nothing else.
Local(p, from, T, to) ==
    /\ At(p, from)
    /\ Continue(p, T, wait_line, console_owner, to)
    /\ UNCHANGED gate_owner

----------------------------------------------------------------------------
(***************************************************************************)
(* The sleepable gates.                                                    *)
(***************************************************************************)

\* A process that finds the gate taken joins the line, blocks on WAIT_LOCK
\* and yields; when it runs again it retries.  The owner itself is refused;
\* by HolderOwns no caller ever owns the gate it asks for, so the label a
\* refused caller continues at is never reached.
Acquire(p, g, from, retry, to, refused) ==
    /\ At(p, from)
    /\ \/ /\ gate_owner[g] = Nobody
          /\ gate_owner' = [gate_owner EXCEPT ![g] = p]
          /\ Continue(p, proc, wait_line, console_owner, to)
       \/ /\ gate_owner[g] = p
          /\ Continue(p, proc, wait_line, console_owner, refused)
          /\ UNCHANGED gate_owner
       \/ /\ gate_owner[g] \notin {Nobody, p}
          /\ Dispatch(SetWait(proc, p, "LOCK", g), [wait_line EXCEPT ![g] = Enqueue(@, p)],
                      gate_owner, console_owner, Goto(p, retry))
          /\ UNCHANGED gate_owner
    /\ UNCHANGED others

\* A release that forgets the wake.
ReleaseSilent(T, g) == T
\* A release that leaves the woken process in the line.
ReleaseKeepsHead(g) == wait_line

\* What a release does to the table and to the lines: wake exactly the head.
ReleaseWake(T, g) ==
    IF Waiters(wait_line[g]) = {} THEN T ELSE Wake(T, HeadOf(wait_line[g]))
ReleaseLine(g) ==
    IF Waiters(wait_line[g]) = {} THEN wait_line
    ELSE [wait_line EXCEPT ![g] = Unlink(@, {HeadOf(@)})]

\* gate_signal_checkpoint: a default INT that was deferred because of the
\* gate is given a scheduler pass before user code runs again.
CheckpointDue(T, p, own) ==
    T[p].pending = "INT" /\ ~T[p].catch /\ \A g \in Gate : own[g] # p

\* Release by p at label from, the table being T and the console owner con
\* by now.  A process that does not own the gate changes nothing.
Release(p, g, T, con, from, to) ==
    LET own == [gate_owner EXCEPT ![g] = Nobody] IN
    /\ At(p, from)
    /\ \/ /\ gate_owner[g] # p
          /\ Continue(p, T, wait_line, con, to)
          /\ UNCHANGED gate_owner
       \/ /\ gate_owner[g] = p /\ ~CheckpointDue(T, p, own)
          /\ gate_owner' = own
          /\ Continue(p, ReleaseWake(T, g), ReleaseLine(g), con, to)
       \/ /\ gate_owner[g] = p /\ CheckpointDue(T, p, own)
          /\ gate_owner' = own
          /\ Dispatch(Demote(ReleaseWake(T, g), p), ReleaseLine(g), own, con, Goto(p, to))

\* The last release of a call that does not return: release, then sched_yield.
ReleaseAndYield(p, g, from, to) ==
    LET own == [gate_owner EXCEPT ![g] = Nobody] IN
    /\ At(p, from) /\ gate_owner[g] = p
    /\ gate_owner' = own
    /\ Dispatch(Demote(ReleaseWake(proc, g), p), ReleaseLine(g), own, console_owner,
                Goto(p, to))

----------------------------------------------------------------------------
(***************************************************************************)
(* Requests to the RP.  WAIT_RP is committed, the mailbox set BUSY and the *)
(* doorbell rung in one masked window that ends in the yield.  The entry   *)
(* test of rp_fs_exec is the guard; RequestAllowed says it never fails.    *)
(***************************************************************************)
MayRequest(p) == gate_owner[FileIO] = p /\ rp = "IDLE"

\* The doorbell without the wait: the caller runs on.
RpRequestNoWait(p, from, collect) ==
    /\ At(p, from) /\ MayRequest(p)
    /\ rp' = "BUSY"
    /\ Continue(p, proc, wait_line, console_owner, collect)
    /\ UNCHANGED <<gate_owner, arg, context_owner, rp_route, self_kill>>

RpRequest(p, from, collect) ==
    /\ At(p, from) /\ MayRequest(p)
    /\ rp' = "BUSY"
    /\ Dispatch(SetWait(proc, p, "RP", 0), wait_line, gate_owner, console_owner,
                Goto(p, collect))
    /\ UNCHANGED <<gate_owner, arg, context_owner, rp_route, self_kill>>

\* A completion whose IRQ wakes nobody.
FsDoneSilent ==
    /\ rp = "BUSY"
    /\ rp' = "DONE"
    /\ UNCHANGED <<proc, wait_line, pc, cpu, console_owner, gate_owner, arg, holdings,
                   rp_route, self_kill>>

\* The RP completes the request and raises FS_DONE: irq_entry wakes the
\* owner of FILE_IO if it is in WAIT_RP and reschedules.
FsDone ==
    /\ rp = "BUSY"
    /\ rp' = "DONE"
    /\ LET o == gate_owner[FileIO] IN
       \/ /\ o \in Pid /\ BlockedOn(proc, o, "RP")
          /\ Dispatch(Demote(Wake(proc, o), active_pid), wait_line, gate_owner,
                      console_owner, pc)
       \/ /\ ~(o \in Pid /\ BlockedOn(proc, o, "RP"))
          /\ UNCHANGED <<proc, wait_line, pc, cpu, console_owner>>
    /\ UNCHANGED <<gate_owner, arg, holdings, rp_route, self_kill>>

----------------------------------------------------------------------------
(***************************************************************************)
(* Calls that need no gate.                                                *)
(***************************************************************************)
SysYield(p) ==
    /\ At(p, "user") /\ "yield" \in Syscalls
    /\ Dispatch(Demote(proc, p), wait_line, gate_owner, console_owner, pc)
    /\ UNCHANGED <<gate_owner, arg, others>>

\* ksys_sleep with a timer slot armed: sched_block_current.
SysSleep(p) ==
    /\ At(p, "user") /\ "sleep" \in Syscalls
    /\ Dispatch(SetWait(proc, p, "TIMER", 0), wait_line, gate_owner, console_owner, pc)
    /\ UNCHANGED <<gate_owner, arg, others>>

(***************************************************************************)
(* A file system call: one RP transaction under FILE_IO.                   *)
(***************************************************************************)
SysFile(p) ==
    /\ "file" \in Syscalls
    /\ Acquire(p, FileIO, "user", "f_acq", "f_req", "user") /\ UNCHANGED arg
FileLock(p) == Acquire(p, FileIO, "f_acq", "f_acq", "f_req", "user") /\ UNCHANGED arg
\* A bad path, bad flags, a bad descriptor or a full table: no request is made.
FileFails(p) == Release(p, FileIO, proc, console_owner, "f_req", "user") /\ UNCHANGED <<arg, others>>
FileExec(p) == RpRequest(p, "f_req", "f_col") /\ UNCHANGED fds
\* The result without the mailbox going back to IDLE.
FileResultBusy(p) ==
    /\ \E k \in {fds[p], "open", "file"} : fds' = [fds EXCEPT ![p] = k]
    /\ Release(p, FileIO, proc, console_owner, "f_col", "user")
    /\ UNCHANGED <<rp, arg, context_owner, rp_route, self_kill>>
\* The result is taken, the mailbox marked IDLE, FILE_IO released.
FileResult(p) ==
    /\ rp' = "IDLE"
    /\ \E k \in {fds[p], "open", "file"} : fds' = [fds EXCEPT ![p] = k]
    /\ Release(p, FileIO, proc, console_owner, "f_col", "user")
    /\ UNCHANGED <<arg, context_owner, rp_route, self_kill>>

(***************************************************************************)
(* ksys_read on the console.  A pending INT of a process that catches it   *)
(* is consumed as EINTR; the first reader of an unowned console owns it.   *)
(* A read that must wait releases FILE_IO with IRQs enabled and only then  *)
(* blocks (ksys_io_block); the whole call is retried after the wake.       *)
(***************************************************************************)
SysConsole(p) ==
    /\ "console" \in Syscalls
    /\ Acquire(p, FileIO, "user", "c_acq", "c_chk", "user") /\ UNCHANGED arg
ConsoleLock(p) == Acquire(p, FileIO, "c_acq", "c_acq", "c_chk", "user") /\ UNCHANGED arg
ConsoleRead(p) ==
    LET eintr == proc[p].catch /\ proc[p].pending = "INT"
        owner == IF console_owner = Nobody THEN p ELSE console_owner
    IN
    /\ \/ /\ eintr
          /\ Release(p, FileIO, [proc EXCEPT ![p].pending = NoSignal], console_owner,
                     "c_chk", "user")
       \/ /\ ~eintr
          /\ \E to \in {"c_blk"} \cup (IF owner = p THEN {"user"} ELSE {}) :
                Release(p, FileIO, proc, owner, "c_chk", to)
    /\ UNCHANGED <<arg, others>>
ConsoleBlock(p) ==
    /\ At(p, "c_blk")
    /\ Dispatch(SetWait(proc, p, "CONSOLE", 0), wait_line, gate_owner, console_owner,
                Goto(p, "c_acq"))
    /\ UNCHANGED <<gate_owner, arg, others>>

----------------------------------------------------------------------------
(***************************************************************************)
(* Termination.                                                            *)
(***************************************************************************)
LiveParent(p) == proc[p].parent \in Task /\ proc[proc[p].parent].state \notin Dead
WaitsFor(q, c) == q \in Task /\ BlockedOn(proc, q, "PROC") /\ proc[q].object = c
\* A context freed with 0 in place of $FF.
FreeContextZero(t) == [c \in Context |-> IF context_owner[c] = t THEN 0 ELSE context_owner[c]]
FreeContext(t) == [c \in Context |-> IF context_owner[c] = t THEN Nobody ELSE context_owner[c]]

\* fd_close_process of t under FILE_IO: the last reference to an RP-backed
\* object costs a request, and there may be several; which references are the
\* last is left open.  At the end the slots are free and FILE_IO is released.
CloseFile(p, t, from, collect) ==
    /\ fds[t] = "file" /\ RpRequest(p, from, collect) /\ UNCHANGED fds
FileClosed(p, t, collect, from) ==
    /\ Local(p, collect, proc, from)
    /\ rp' = "IDLE" /\ \E k \in {"open", "file"} : fds' = [fds EXCEPT ![t] = k]
    /\ UNCHANGED <<arg, context_owner, rp_route, self_kill>>
CloseRest(p, t, from, to) ==
    /\ fds' = [fds EXCEPT ![t] = "none"]
    /\ Release(p, FileIO, proc, console_owner, from, to)
    /\ UNCHANGED <<arg, context_owner, rp, rp_route, self_kill>>

SysExit(p) ==
    /\ "exit" \in Syscalls
    /\ Acquire(p, Proc, "user", "x_acq", "x_life", "user") /\ UNCHANGED arg
ExitLock(p) == Acquire(p, Proc, "x_acq", "x_acq", "x_life", "user") /\ UNCHANGED arg
\* proc_exit_lifecycle: only a child of a live process becomes a zombie, the
\* others are terminated at once.
ExitLife(p) ==
    /\ Local(p, "x_life", proc, IF LiveParent(p) THEN "x_facq" ELSE "t_facq")
    /\ UNCHANGED <<arg, others>>
ExitFileLock(p) == Acquire(p, FileIO, "x_facq", "x_facq", "x_close", "t_facq") /\ UNCHANGED arg
ExitCloseFile(p)  == CloseFile(p, p, "x_close", "x_col")
ExitFileClosed(p) == FileClosed(p, p, "x_col", "x_close")
ExitClose(p)      == CloseRest(p, p, "x_close", "x_zomb")
\* A zombie that forgets its waiting parent.
ExitZombieSilent(p) ==
    /\ Local(p, "x_zomb", [proc EXCEPT ![p] = [Unwaited(@, "ZOMBIE") EXCEPT !.pending = NoSignal]],
             "x_rel")
    /\ UNCHANGED <<arg, others>>
ExitZombie(p) ==
    /\ Local(p, "x_zomb", [proc EXCEPT ![p] = [Unwaited(@, "ZOMBIE") EXCEPT !.pending = NoSignal]],
             "x_parent")
    /\ UNCHANGED <<arg, others>>
\* A live parent taken for a waiting one.
ExitParentAny(p) ==
    /\ Local(p, "x_parent", proc, IF proc[p].parent \in Task THEN "x_wake" ELSE "x_rel")
    /\ UNCHANGED <<arg, others>>
\* The parent is woken only if it waits for exactly this child.  The caller is
\* a zombie by now: a pass between the test and the stores takes the CPU from
\* it for ever.
ExitParent(p) ==
    /\ Local(p, "x_parent", proc, IF WaitsFor(proc[p].parent, p) THEN "x_wake" ELSE "x_rel")
    /\ UNCHANGED <<arg, others>>
ExitWakeParent(p) ==
    /\ Local(p, "x_wake", WakeUnchecked(proc, proc[p].parent), "x_rel")
    /\ UNCHANGED <<arg, others>>
ExitUnlock(p) == ReleaseAndYield(p, Proc, "x_rel", "none") /\ UNCHANGED <<arg, others>>

\* proc_terminate: of the caller itself (exit without a live parent) or of a
\* zombie child being reaped.  The slot becomes EMPTY last.
TermFileLock(p) ==
    /\ Acquire(p, FileIO, "t_facq", "t_facq", "t_close", IF tgt(p) = p THEN "x_rel" ELSE "w_con")
    /\ UNCHANGED arg
TermCloseFile(p)  == CloseFile(p, tgt(p), "t_close", "t_col")
TermFileClosed(p) == FileClosed(p, tgt(p), "t_col", "t_close")
TermClose(p)      == CloseRest(p, tgt(p), "t_close", "t_empty")
TermEmpty(p) ==
    /\ Local(p, "t_empty", [proc EXCEPT ![tgt(p)] = EmptyRow], IF tgt(p) = p THEN "x_rel" ELSE "w_con")
    /\ context_owner' = FreeContext(tgt(p))
    /\ UNCHANGED <<arg, fds, rp, rp_route, self_kill>>

\* proc_reap_zombies, from the idle loop, one orphan zombie per call, with
\* IRQs masked; FILE_IO is released through the gate, PROC by hand.
Orphan(z) == proc[z].state = "ZOMBIE" /\ ~LiveParent(z)
\* The slot is emptied and its context kept.
IdleReapLeaks ==
    /\ active_pid = Idle
    /\ \A g \in Gate : gate_owner[g] = Nobody
    /\ \E z \in Task :
          /\ Orphan(z)
          /\ proc' = [ReleaseWake(proc, FileIO) EXCEPT ![z] = EmptyRow]
          /\ fds' = [fds EXCEPT ![z] = "none"]
    /\ wait_line' = ReleaseLine(FileIO)
    /\ UNCHANGED <<gate_owner, pc, cpu, arg, context_owner, rp, console_owner, rp_route, self_kill>>
IdleReap ==
    /\ active_pid = Idle
    /\ \A g \in Gate : gate_owner[g] = Nobody
    /\ \E z \in Task :
          /\ Orphan(z) /\ \A y \in Task : Orphan(y) => z <= y
          /\ proc' = [ReleaseWake(proc, FileIO) EXCEPT ![z] = EmptyRow]
          /\ fds' = [fds EXCEPT ![z] = "none"]
          /\ context_owner' = FreeContext(z)
    /\ wait_line' = ReleaseLine(FileIO)
    /\ UNCHANGED <<gate_owner, pc, cpu, arg, rp, console_owner, rp_route, self_kill>>

----------------------------------------------------------------------------
(***************************************************************************)
(* ksys_waitpid.                                                           *)
(***************************************************************************)
SysWaitpid(p) == \E c \in Task :
    /\ "waitpid" \in Syscalls
    /\ Acquire(p, Proc, "user", "w_acq", "w_chk", "user")
    /\ arg' = [arg EXCEPT ![p].pid = c]
WaitLock(p) == Acquire(p, Proc, "w_acq", "w_acq", "w_chk", "user") /\ UNCHANGED arg
BadChild(p) == proc[tgt(p)].parent # p \/ proc[tgt(p)].state = "EMPTY"
WaitCheck(p) ==
    /\ \/ /\ BadChild(p)
          /\ Release(p, Proc, proc, console_owner, "w_chk", "user")
          /\ arg' = [arg EXCEPT ![p] = NoArg(p)]
       \/ /\ ~BadChild(p)
          /\ Local(p, "w_chk", proc, IF proc[tgt(p)].state = "ZOMBIE" THEN "t_facq" ELSE "w_wait")
          /\ UNCHANGED arg
    /\ UNCHANGED others
\* The wait with PROC still held.
WaitBlockKeepsGate(p) ==
    /\ At(p, "w_wait")
    /\ Dispatch(SetWait(proc, p, "PROC", tgt(p)), wait_line, gate_owner, console_owner,
                Goto(p, "w_acq"))
    /\ UNCHANGED <<gate_owner, arg, others>>
\* The masked window: WAIT_PROC, release of PROC, yield.
WaitBlock(p) ==
    LET own == [gate_owner EXCEPT ![Proc] = Nobody] IN
    /\ At(p, "w_wait")
    /\ gate_owner' = own
    /\ Dispatch(ReleaseWake(SetWait(proc, p, "PROC", tgt(p)), Proc), ReleaseLine(Proc),
                own, console_owner, Goto(p, "w_acq"))
    /\ UNCHANGED <<arg, others>>
\* Foreground ownership goes back to the parent of the reaped child.
WaitReaped(p) ==
    /\ Release(p, Proc, proc, IF console_owner = tgt(p) THEN p ELSE console_owner,
               "w_con", "user")
    /\ arg' = [arg EXCEPT ![p] = NoArg(p)]
    /\ UNCHANGED others

----------------------------------------------------------------------------
(***************************************************************************)
(* ksys_signal, proc_send_signal and proc_mark_zombie.  The PROC gate is   *)
(* held throughout, but IRQs are enabled, so the scheduler's own signal    *)
(* phase and the target run between any two of these steps.                *)
(***************************************************************************)
SysSignal(p) == \E t \in Task, s \in SentSignals :
    /\ "signal" \in Syscalls
    /\ s = "KILL" /\ t = p => SelfKill
    /\ Acquire(p, Proc, "user", "s_acq", "s_chk", "user")
    /\ arg' = [arg EXCEPT ![p] = [pid |-> t, sig |-> s]]
SignalLock(p) == Acquire(p, Proc, "s_acq", "s_acq", "s_chk", "user") /\ UNCHANGED arg
\* KILL is refused for an owner of FILE_IO and for an owner of PROC other
\* than the caller.
SignalRefused(p) ==
    \/ proc[tgt(p)].state \in Dead
    \/ arg[p].sig = "KILL" /\ gate_owner[FileIO] = tgt(p)
    \/ arg[p].sig = "KILL" /\ gate_owner[Proc] = tgt(p) /\ tgt(p) # p
SignalCheck(p) ==
    /\ self_kill' = (arg[p].sig = "KILL" /\ tgt(p) = p)
    /\ \/ /\ SignalRefused(p)
          /\ Release(p, Proc, proc, console_owner, "s_chk", "user")
          /\ arg' = [arg EXCEPT ![p] = NoArg(p)]
       \/ /\ ~SignalRefused(p)
          /\ Local(p, "s_chk", proc, IF arg[p].sig = "KILL" THEN "k_clear" ELSE "s_set")
          /\ UNCHANGED arg
    /\ UNCHANGED <<holdings, rp, rp_route>>
SignalSet(p) ==
    /\ Release(p, Proc, [proc EXCEPT ![tgt(p)].pending = arg[p].sig], console_owner,
               "s_set", "s_ret")
    /\ UNCHANGED <<arg, others>>
KillClear(p) ==
    /\ \/ /\ proc[tgt(p)].state \in Dead
          /\ Release(p, Proc, proc, console_owner, "k_clear", "s_ret")
       \/ /\ proc[tgt(p)].state \notin Dead
          /\ Local(p, "k_clear", [proc EXCEPT ![tgt(p)].pending = NoSignal], "k_cancel")
    /\ UNCHANGED <<arg, others>>
\* A gate waiter is unlinked from the line its wait_object names.
KillCancel(p) ==
    LET row == proc[tgt(p)] IN
    /\ At(p, "k_cancel")
    /\ Continue(p, proc,
                [g \in Gate |-> IF row.reason = "LOCK" /\ g = row.object
                                THEN Unlink(wait_line[g], {tgt(p)}) ELSE wait_line[g]],
                console_owner, "k_zombie")
    /\ UNCHANGED <<gate_owner, arg, others>>
KillZombie(p) ==
    /\ Local(p, "k_zombie", [proc EXCEPT ![tgt(p)] = Unwaited(@, "ZOMBIE")], "k_parent")
    /\ UNCHANGED <<arg, others>>
KillParent(p) ==
    /\ \/ /\ WaitsFor(proc[tgt(p)].parent, tgt(p))
          /\ Local(p, "k_parent", proc, "k_wake")
       \/ /\ ~WaitsFor(proc[tgt(p)].parent, tgt(p))
          /\ Release(p, Proc, proc, console_owner, "k_parent", "s_ret")
    /\ UNCHANGED <<arg, others>>
\* The stores of proc_wake, after its test of the parent's state.
KillWake(p) ==
    /\ Release(p, Proc, WakeUnchecked(proc, proc[tgt(p)].parent), console_owner,
               "k_wake", "s_ret")
    /\ UNCHANGED <<arg, others>>
\* After PROC is released the shared self-kill byte decides between
\* returning and yielding away.
SignalReturn(p) ==
    /\ At(p, "s_ret")
    /\ \/ self_kill /\ Dispatch(Demote(proc, p), wait_line, gate_owner, console_owner, Goto(p, "user"))
       \/ ~self_kill /\ Continue(p, proc, wait_line, console_owner, "user")
    /\ arg' = [arg EXCEPT ![p] = NoArg(p)]
    /\ UNCHANGED <<gate_owner, others>>

----------------------------------------------------------------------------
(***************************************************************************)
(* ksys_spawn_resident.                                                    *)
(***************************************************************************)
FreeSlot(t) == proc[t].state = "EMPTY"
FreeCtx(c)  == context_owner[c] = Nobody

SysSpawn(p) ==
    /\ "spawn" \in Syscalls
    /\ Acquire(p, Proc, "user", "p_acq", "p_alloc", "user") /\ UNCHANGED arg
SpawnLock(p) == Acquire(p, Proc, "p_acq", "p_acq", "p_alloc", "user") /\ UNCHANGED arg
\* The lowest EMPTY slot and the lowest free context; the row is filled in
\* but stays EMPTY until the child is published.  The call fails when there
\* is no slot or no context, or when its arguments are rejected.
SpawnAlloc(p) ==
    /\ \/ \E t \in Task, c \in Context :
             /\ FreeSlot(t) /\ \A u \in Task : FreeSlot(u) => t <= u
             /\ FreeCtx(c) /\ \A d \in Context : FreeCtx(d) => c <= d
             /\ arg' = [arg EXCEPT ![p].pid = t]
             /\ context_owner' = [context_owner EXCEPT ![c] = t]
             /\ Local(p, "p_alloc", [proc EXCEPT ![t] = [EmptyRow EXCEPT !.parent = p]], "p_facq")
       \/ /\ \E accepted \in BOOLEAN :
                accepted => (\A t \in Task : ~FreeSlot(t)) \/ (\A c \in Context : ~FreeCtx(c))
          /\ Local(p, "p_alloc", proc, "p_err")
          /\ UNCHANGED <<arg, context_owner>>
    /\ UNCHANGED <<fds, rp, rp_route, self_kill>>
SpawnFileLock(p) == Acquire(p, FileIO, "p_facq", "p_facq", "p_fclr", "p_err") /\ UNCHANGED arg
\* fd_clear_process_slots overwrites the slot's descriptors without closing
\* them; then the child's flags and launch state are filled in.
SpawnClearFds(p) == \E b \in SpawnCatch :
    /\ fds' = [fds EXCEPT ![tgt(p)] = "none"]
    /\ Release(p, FileIO, [proc EXCEPT ![tgt(p)].catch = b], console_owner, "p_fclr", "p_gacq")
    /\ UNCHANGED <<arg, context_owner, rp, rp_route, self_kill>>
SpawnFileLockAgain(p) == Acquire(p, FileIO, "p_gacq", "p_gacq", "p_clone", "p_err") /\ UNCHANGED arg
\* fd_clone_between for the three standard descriptors, each of which may be
\* closed or invalid, then the request that clones the working directory.
SpawnClone(p) ==
    \E k \in {"none", "open", fds[p]} :
       /\ fds' = [fds EXCEPT ![tgt(p)] = k]
       /\ RpRequest(p, "p_clone", "p_col")
SpawnCloneFails(p) ==
    \E k \in {"none", "open", fds[p]} :
       /\ fds' = [fds EXCEPT ![tgt(p)] = k]
       /\ Local(p, "p_clone", proc, "p_back")
       /\ UNCHANGED <<arg, context_owner, rp, rp_route, self_kill>>
SpawnResult(p) ==
    /\ \E to \in {"p_pub", "p_back"} : Local(p, "p_col", proc, to)
    /\ rp' = "IDLE"
    /\ UNCHANGED <<arg, holdings, rp_route, self_kill>>
SpawnPublish(p) ==
    /\ At(p, "p_pub")
    /\ proc' = [proc EXCEPT ![tgt(p)].state = "NEW"]
    /\ pc' = [pc EXCEPT ![p] = "p_con", ![tgt(p)] = "new"]
    /\ arg' = [arg EXCEPT ![tgt(p)] = NoArg(tgt(p))]
    /\ UNCHANGED <<gate_owner, wait_line, cpu, console_owner, others>>
\* A foreground spawn hands the console over if the parent owns it.
SpawnConsole(p) ==
    /\ \E fg \in BOOLEAN :
          Release(p, FileIO, proc, IF fg /\ console_owner = p THEN tgt(p) ELSE console_owner,
                  "p_con", "p_rel")
    /\ UNCHANGED <<arg, others>>
SpawnUnlock(p) == Release(p, Proc, proc, console_owner, "p_rel", "p_ret") /\ UNCHANGED <<arg, others>>
\* The child PID is the caller's own copy, kept past both releases.
SpawnReturn(p) ==
    /\ Local(p, "p_ret", proc, "user")
    /\ arg' = [arg EXCEPT ![p] = NoArg(p)]
    /\ UNCHANGED others
\* A rollback that keeps the child's context.
SpawnRollbackLeaks(p) ==
    /\ fds' = [fds EXCEPT ![tgt(p)] = "none"]
    /\ Release(p, FileIO, [proc EXCEPT ![tgt(p)] = EmptyRow], console_owner, "p_back", "p_err")
    /\ UNCHANGED <<arg, context_owner, rp, rp_route, self_kill>>
\* spawn_rollback_child_locked, then the release of FILE_IO.
SpawnRollback(p) ==
    /\ fds' = [fds EXCEPT ![tgt(p)] = "none"]
    /\ context_owner' = FreeContext(tgt(p))
    /\ Release(p, FileIO, [proc EXCEPT ![tgt(p)] = EmptyRow], console_owner, "p_back", "p_err")
    /\ UNCHANGED <<arg, rp, rp_route, self_kill>>
SpawnFail(p) ==
    /\ Release(p, Proc, proc, console_owner, "p_err", "user")
    /\ arg' = [arg EXCEPT ![p] = NoArg(p)]
    /\ UNCHANGED others

----------------------------------------------------------------------------
(***************************************************************************)
(* Interrupts.                                                             *)
(***************************************************************************)
TimerIrq ==
    /\ Dispatch(Demote(proc, active_pid), wait_line, gate_owner, console_owner, pc)
    /\ UNCHANGED <<gate_owner, arg, others>>

\* The RP raises a console break: INT becomes pending on the foreground process.
ConsoleBreak ==
    /\ Breaks
    /\ console_owner \in Task /\ proc[console_owner].state \notin Dead
    /\ Dispatch(Demote([proc EXCEPT ![console_owner].pending = "INT"], active_pid),
                wait_line, gate_owner, console_owner, pc)
    /\ UNCHANGED <<gate_owner, arg, others>>

\* The operator routes the RP console to another process (external).
RpRoute == \E r \in Routes :
    /\ r # rp_route
    /\ rp_route' = r
    /\ UNCHANGED <<proc, gate_owner, wait_line, pc, cpu, arg, holdings, rp,
                   console_owner, self_kill>>

----------------------------------------------------------------------------
Init ==
    /\ proc = [p \in Pid |->
                 IF p = Idle THEN [EmptyRow EXCEPT !.state = "RUNNING"]
                 ELSE IF p \in BootTasks
                 THEN [EmptyRow EXCEPT !.state = "NEW", !.parent = Idle,
                                       !.catch = p \in BootCatch]
                 ELSE EmptyRow]
    /\ active_pid = Idle /\ sched_cursor = Idle
    /\ gate_owner = [g \in Gate |-> Nobody]
    /\ wait_line = [g \in Gate |-> {}]
    /\ pc = [p \in Task |-> IF p \in BootTasks THEN "new" ELSE "none"]
    /\ arg = [p \in Task |-> NoArg(p)]
    /\ fds = [p \in Task |-> IF p \in BootTasks THEN "open" ELSE "none"]
    /\ context_owner = [c \in Context |-> IF c \in BootTasks THEN c ELSE Nobody]
    /\ rp = "IDLE"
    /\ console_focus = Nobody /\ console_owner = Nobody
    /\ rp_route \in Routes
    /\ self_kill = FALSE

FileCall(p) == SysFile(p) \/ FileLock(p) \/ FileFails(p) \/ FileExec(p) \/ FileResult(p)
ConsoleCall(p) == SysConsole(p) \/ ConsoleLock(p) \/ ConsoleRead(p) \/ ConsoleBlock(p)
ExitCall(p) ==
    \/ SysExit(p) \/ ExitLock(p) \/ ExitLife(p) \/ ExitFileLock(p) \/ ExitCloseFile(p)
    \/ ExitFileClosed(p) \/ ExitClose(p) \/ ExitZombie(p) \/ ExitParent(p) \/ ExitWakeParent(p)
    \/ ExitUnlock(p)
Terminate(p) ==
    \/ TermFileLock(p) \/ TermCloseFile(p) \/ TermFileClosed(p) \/ TermClose(p) \/ TermEmpty(p)
WaitpidCall(p) ==
    \/ SysWaitpid(p) \/ WaitLock(p) \/ WaitCheck(p) \/ WaitBlock(p) \/ WaitReaped(p)
SignalCall(p) ==
    \/ SysSignal(p) \/ SignalLock(p) \/ SignalCheck(p) \/ SignalSet(p) \/ KillClear(p)
    \/ KillCancel(p) \/ KillZombie(p) \/ KillParent(p) \/ KillWake(p) \/ SignalReturn(p)
SpawnCall(p) ==
    \/ SysSpawn(p) \/ SpawnLock(p) \/ SpawnAlloc(p) \/ SpawnFileLock(p) \/ SpawnClearFds(p)
    \/ SpawnFileLockAgain(p) \/ SpawnClone(p) \/ SpawnCloneFails(p) \/ SpawnResult(p)
    \/ SpawnPublish(p) \/ SpawnConsole(p) \/ SpawnUnlock(p) \/ SpawnReturn(p)
    \/ SpawnRollback(p) \/ SpawnFail(p)

Step(p) ==
    \/ SysYield(p) \/ SysSleep(p) \/ FileCall(p) \/ ConsoleCall(p) \/ ExitCall(p)
    \/ Terminate(p) \/ WaitpidCall(p) \/ SignalCall(p) \/ SpawnCall(p)

Next == (\E p \in Task : Step(p)) \/ IdleReap \/ TimerIrq \/ ConsoleBreak \/ FsDone \/ RpRoute

Spec == Init /\ [][Next]_vars
(***************************************************************************)
(* Fairness.  The 65C02 executes many instructions between two timer       *)
(* ticks, so a process that is selected again and again advances (strong   *)
(* fairness of its steps); the timer keeps ticking and the RP completes    *)
(* every request (weak fairness).                                          *)
(***************************************************************************)
Fairness ==
    /\ \A p \in Task : SF_vars(active_pid = p /\ Step(p))
    /\ WF_vars(TimerIrq)
    /\ WF_vars(FsDone)

FairSpec == Spec /\ Fairness

----------------------------------------------------------------------------
(***************************************************************************)
(* Properties.                                                             *)
(***************************************************************************)

\* Every variable stays in the range the kernel's byte arrays encode.
TypeOK ==
    /\ proc \in [Pid -> Row]
    /\ active_pid \in Pid /\ sched_cursor \in Pid
    /\ gate_owner \in [Gate -> Pid \cup {Nobody}]
    /\ wait_line \in [Gate -> Line]
    /\ pc \in [Task -> Label]
    /\ arg \in [Task -> Arg]
    /\ fds \in [Task -> {"none", "open", "file"}]
    /\ context_owner \in [Context -> Task \cup {Nobody}]
    /\ rp \in {"IDLE", "BUSY", "DONE"}
    /\ console_focus \in Task \cup {Nobody}
    /\ console_owner \in Task \cup {Nobody}
    /\ rp_route \in Routes
    /\ self_kill \in BOOLEAN

\* Only the process that has the CPU is RUNNING, whatever states the
\* lifecycle and signal code wrote meanwhile (proc_set_running's scan).
OneRunning == \A p \in Pid : proc[p].state = "RUNNING" => p = active_pid

\* A process inside code that a gate protects owns that gate, across every
\* preemption, block, kill and PID reuse: so no two processes are ever
\* inside the same gate's code.
HolderOwns == \A g \in Gate, p \in Task : pc[p] \in Holds(g) <=> gate_owner[g] = p

\* The FIFO of a gate holds exactly the processes blocked on that gate.
LineMatchesWaits ==
    \A g \in Gate, p \in Task :
        p \in Waiters(wait_line[g]) <=> BlockedOn(proc, p, "LOCK") /\ proc[p].object = g

\* A gate that is free while processes are blocked on it has been handed to
\* somebody: one runnable process is about to retry the acquire (the release
\* wakes exactly the head of the FIFO, and the hand-over is never lost).
FreeGateIsRetried ==
    \A g \in Gate, w \in Task :
        gate_owner[g] = Nobody /\ BlockedOn(proc, w, "LOCK") /\ proc[w].object = g =>
        \E q \in Task : pc[q] \in Retries(g) /\ proc[q].state \in {"READY", "RUNNING"}

\* A gate owner can go on: it is runnable; or it waits for the RP, which
\* still owes it the completion; or, owning PROC only, it waits for FILE_IO
\* (the lock order PROC -> FILE_IO, so the owners never wait in a circle); or
\* it has just ended itself and is about to release PROC.
OwnerCanRun ==
    \A g \in Gate, p \in Task : gate_owner[g] = p =>
        \/ proc[p].state \in {"READY", "RUNNING"}
        \/ BlockedOn(proc, p, "RP") /\ rp = "BUSY" /\ gate_owner[FileIO] = p
        \/ /\ g = Proc /\ gate_owner[FileIO] # p
           /\ BlockedOn(proc, p, "LOCK") /\ proc[p].object = FileIO
        \/ g = Proc /\ proc[p].state \in Dead /\ pc[p] \in {"x_parent", "x_wake", "x_rel"}

\* A request is outstanding only on behalf of a FILE_IO owner asleep in
\* WAIT_RP, so every FS_DONE finds the process it must wake.
RequestHasOwner ==
    rp = "BUSY" => gate_owner[FileIO] \in Task /\ BlockedOn(proc, gate_owner[FileIO], "RP")

\* rp_fs_exec's entry test never fails: whoever is about to make a request
\* owns FILE_IO and finds the mailbox IDLE, so no request overtakes another.
RequestAllowed ==
    \A p \in Task : pc[p] \in {"f_req", "x_close", "t_close", "p_clone"} => MayRequest(p)

\* A parent asleep in waitpid has a live child to wait for, or the child is
\* already on its way to waking it: no child-exit wake is lost.
WaitpidWakePending ==
    \A q \in Task : BlockedOn(proc, q, "PROC") =>
        LET c == proc[q].object IN
        \/ c \in Task /\ proc[c].parent = q /\ proc[c].state \notin Dead
        \/ \E p \in Task : tgt(p) = c /\ pc[p] \in {"x_parent", "x_wake", "k_parent", "k_wake"}

\* Contexts and descriptors follow process slots: a live slot owns exactly
\* one context, an EMPTY one owns neither context nor descriptors, except
\* the slot that a spawn in progress is filling.
Building == {tgt(p) : p \in {q \in Task : pc[q] \in
               {"p_facq", "p_fclr", "p_gacq", "p_clone", "p_col", "p_pub", "p_back"}}}
SlotsAccounted ==
    \A t \in Task :
        IF proc[t].state = "EMPTY" /\ t \notin Building
        THEN fds[t] = "none" /\ \A c \in Context : context_owner[c] # t
        ELSE \E c \in Context : \A d \in Context : context_owner[d] = t <=> d = c

\* "Never revive non-blocked/zombie tasks from an old wake path": a zombie is
\* never put back into scheduling, it stays a zombie until its slot is emptied.
\* The wake of a SIG_KILL violates this.
ZombieStaysDead ==
    [][\A p \in Task : proc[p].state = "ZOMBIE" => proc'[p].state \in Dead]_vars

\* The one way back from the dead: SIG_KILL tests whether the parent of its
\* target waits, and may wake it when it has died meanwhile.  No exit, no
\* signal phase, no gate release and no completion of the RP revives a zombie,
\* although exit makes the same test and the same stores with IRQs enabled.
OnlyKillRevives ==
    [][\A q \in Task : proc[q].state = "ZOMBIE" /\ proc'[q].state \notin Dead =>
          \E k \in Task : At(k, "k_wake") /\ proc[tgt(k)].parent = q]_vars

\* The scheduler's signal phase defers INT and STOP of a gate owner: only an
\* exit, a reap or a KILL ever takes a gate owner out of scheduling.
SignalPhaseSparesOwners ==
    [][\A g \in Gate, p \in Task :
          /\ gate_owner[g] = p /\ gate_owner'[g] = p
          /\ proc[p].state \notin Dead /\ proc'[p].state \in Dead \cup {"STOPPED"}
          => \E k \in Task : tgt(k) = p /\ \E l \in {"x_zomb", "t_empty", "k_zombie"} : At(k, l)]_vars

\* Nothing is resumed through the RTI path before it has saved a frame.
NoWildResume == \A p \in Task : pc[p] # "wild"

\* No gate belongs to a process that will never run again.
NoStrandedGate ==
    \A g \in Gate : gate_owner[g] \in Task /\ gate_owner[g] # active_pid =>
        proc[gate_owner[g]].state \notin Dead

\* No process waits in a gate's line for ever: each release moves the line
\* up by one, and a free gate is always about to be taken and released.
WaitersAreWoken == \A p \in Task : BlockedOn(proc, p, "LOCK") ~> ~BlockedOn(proc, p, "LOCK")

\* The round-robin cursor passes over no runnable process for ever.
RunnableRuns ==
    \A p \in Task : proc[p].state \in {"NEW", "READY"} ~> proc[p].state = "RUNNING"
=============================================================================
