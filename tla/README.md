# NEOX V1: a TLA+ verification project

NEOX is a preemptive multitasking kernel for a 65C02 with MMU contexts. An RP
microcontroller beside it is the timer, the console and the file system. The
kernel is assembly code; processes share one CPU, are preempted by a timer IRQ
almost anywhere, and meet in byte arrays indexed by PID. Above it, in C, are a
shell, a table of resident commands and a dozen applets. In the kernel most of
what can go wrong happens between two instructions; in the shell and the
applets between two system calls, any of which may fail, be short, be
interrupted, or find that somebody else has changed the world. This project
models both.

## 1. Inventory

| Component | State | Operations | Meets |
|---|---|---|---|
| Scheduler (`scheduler.asm`, `irq.asm`, `sched_lock.asm`, `idle_task.asm`) | `proc_state`, `wait_reason`, `wait_object`, `active_pid`, `sched_cursor_pid`, saved stack pointers | yield, block, timer switch, pick next, wake, signal phase | everything |
| Gates (`gate.asm`) | `FILE_IO` and `PROC`: owner, FIFO head, tail and next links | acquire, release, cancel wait, signal checkpoint | scheduler (block, wake) |
| Process lifecycle (`process_control.asm`, `context.asm`) | parent, flags, exit code, `context_owner_pid` | exit, terminate, reap from waitpid, reap from idle, allocate slot and context | gates, descriptors |
| Process calls (`ksys_proc.asm`) | the shared self-kill byte | exit, yield, sleep, signal, waitpid, getprocinfo | lifecycle, signals |
| Spawn (`spawn.asm`) | shared spawn scratch (KERN_BSS); `spawn_child_pid` in the caller's own BSS | spawn with rollback, launch queries | PROC then FILE_IO, RP |
| Signals (`process_control.asm`, `ksys_proc.asm`) | one pending byte per process | send, mark zombie, scheduler phase (INT, STOP, CONT) | gates, waitpid |
| Console (`console_device.asm`, `rp_console_io.asm`) | `console_owner_pid`, `console_focus_pid` | read, write, route, break | RP, scheduler |
| RP requests (`rp_fs_io.asm`, `mailbox.asm`) | the mailbox, `RP_STATUS` | execute under FILE_IO, completion IRQ | gates, scheduler |
| File system calls (`ksys_fs.asm`) | - | open, load, save, seek, directories, ... each one RP transaction | FILE_IO, descriptors |
| Descriptors (`fd.asm`, `ksys_io.asm`, `device.asm`) | `proc_fd_obj`, `open_*` tables with reference counts | attach, close, clone, dup, dup2, read, write | pipes, RP |
| Pipes (`pipe.asm`) | ring buffers, open-end bits | create, read, write, close | scheduler wakes |
| Timers (`timer.asm`) | slots, 16-bit deadlines | arm, commit, expire | sleep |
| Shell (`neosh.c`) | prompt and its core length, redirection plan, three redirection descriptors, previous directory | prompt, read, clean, parse, open redirections, spawn and wait, `cd`, `cd -` | console, spawn, waitpid, file calls |
| nbox (`nbox.c`, `nbox_child.asm`) | line buffer, resolved command | resolve, dispatch in the shell, dispatch in a child | shell, applets |
| Applets (`user/applets/*.c`) | paths and buffers of one run | cat, cd, cp, echo, kill, ls, mkdir, mv, ps, pwd, rm, rmdir | file calls, process table |
| libneox helpers (`applet_args.c`, `applet_support.c`) | argument cursor | next argument, bounded copy, `write_all`, number formatting | shell, applets |
| Boot, monitor, log, tables, BIOS, libneox bindings | see PROJECT.json | | |

Hard behaviours: preemption between any two instructions that run with IRQs
enabled; check-then-act on the process table against the scheduler's own signal
phase, which takes no gate; module-global scratch; the hand-over of a gate by
waking one waiter; a process that ends itself while it holds a gate; PID,
context and descriptor reuse; the race of the RP's completion with the wait; a
tick counter that wraps; in user programs short transfers, failure of one call
of several, interrupts that arrive between two calls, the console changing
hands, text buffers at their limit, directories and process tables that change
while they are read.
PROJECT.json lists each as a hazard at its line.

What makes the components correct:

- scheduler: one RUNNING row, nobody starved, the dead stay dead;
- gates: mutual exclusion, FIFO hand-over never lost, no circular wait, no gate
  left with a process that cannot run;
- lifecycle: contexts and descriptors follow slots, a waiting parent is woken;
- signals: never applied to a process inside a gate;
- RP: one request at a time, every completion finds its requester;
- descriptors and pipes: reference counts equal references, no descriptor
  dangles, a pipe is a FIFO, no reader or writer sleeps while its condition
  holds;
- timers: no sleep ends early, none is overlooked, the end of a process takes
  its own slot and no other, a slot it leaves armed wakes nobody;
- shell: what runs is what was typed, no descriptor leaks on any path, the
  console comes back, an interrupt is not lost, the prompt returns;
- applets: output is exact through short transfers, every descriptor is closed
  on every way out, every failure is reported, an unchanged entry or process is
  listed exactly once, every run ends.

## 2. Modules

`ProcessTable` is the process table as one function from PIDs to records, and
the pure routines of the scheduler as operators from tables to tables:
`proc_set_wait` (`SetWait`), `proc_wake` (`Wake`), `proc_set_running`
(`SetRunning`), `sched_pick_next` (`IsNext`), the signal phase
(`ApplySignals`), and the FIFO of a gate as the order in which its members
arrived (`Line`, `Enqueue`, `Unlink`, `HeadOf`).

`Kernel` is the state machine. `pc[p]` says where a process is inside the
kernel; every label is a place where IRQs are enabled. A stretch that runs with
IRQs masked, or that nobody can observe half done, is one action. Whatever ends
in `sched_yield`, `sched_block_current` or `sched_context_switch` contains the
whole scheduler pass (`Dispatch`: console focus, console input, timers, signals,
selection, hand-over). The prefix of a label names the call: `f_` file call,
`c_` console read, `x_` exit, `t_` terminate, `w_` waitpid, `s_` and `k_`
signal and kill, `p_` spawn. `arg[p]` is what the code keeps on the stack of
the process, or in segment BSS, which the linker puts into the private memory of
its context; `self_kill` is the byte it keeps in shared memory (KERN_BSS), and
the model reads it where the code does. Where an exit and a KILL wake the parent,
the test that it waits and the store of `proc_wake` are two actions each
(`ExitParent` and `ExitWakeParent`, `KillParent` and `KillWake`), since both run
with IRQs enabled.

| Actions | Code |
|---|---|
| `Acquire`, `Release`, `ReleaseAndYield` | `gate.asm` acquire, release, `gate_signal_checkpoint` |
| `RpRequest`, `FsDone` | `rp_fs_exec`, `irq_entry @fs_done` |
| `SysFile` ... `FileResult` | any call of `ksys_fs.asm`, failing early or making one request |
| `SysConsole` ... `ConsoleBlock` | `ksys_read` on the console, `console_read`, `ksys_io_block` |
| `SysExit` ... `ExitUnlock`, `Term*` | `proc_exit_current`, `proc_exit_lifecycle`, `proc_terminate`, `fd_close_process` |
| `IdleReap` | `proc_reap_zombies` |
| `SysWaitpid` ... `WaitReaped` | `ksys_waitpid` |
| `SysSignal` ... `SignalReturn`, `Kill*` | `ksys_signal`, `proc_send_signal`, `proc_mark_zombie` |
| `SysSpawn` ... `SpawnFail` | `ksys_spawn_resident`, `proc_alloc_preloaded_common`, `fd_clone_between` |
| `TimerIrq`, `ConsoleBreak`, `RpRoute` | `irq_entry`; the route register is written by the RP (external) |

Abstractions. Operands, paths, characters, exit codes and results of RP
operations are left out. A process's descriptors are "none", "open" or "file"
(some are RP-backed); whether closing one drops the last reference, and so
costs a request, is left open. Which timers have expired is a choice of the
pass. A refused recursive acquire is in the model; `HolderOwns` shows it never
happens. The window between committing WAIT_LOCK and `sched_yield` in the
acquire is merged into one step: a tick there performs the same pass, and the
extra yield after the wake changes nothing.

`Descriptors` is `proc_fd_obj`, `proc_fd_flags`, the open-object table and the
pipe table as one record, with the routines of `fd.asm` and `pipe.asm` as
operators from tables to tables. A routine that calls `scheduler_wake_one` adds
the wake to the field `wakes`; nobody else can look at the tables before
FILE_IO is released, so performing the wakes after the table updates is what
the code does.

`PipeIO` is the state machine of the descriptor calls. `GateExclusion` of
`KernelProofs` is why the body of a call is one action; what FILE_IO does not
protect has steps of its own: the window between the gate's release and
`sched_block_current` (place "block"), the scan of `scheduler_wake_one`
(places "wake" and "scan"), whose reason, object and counter live in scratch
that `sched_block_current` and `sched_pick_next` overwrite (`scratch`), and the
store of the `proc_wake` it ends in (place "store"), which makes READY whoever the
scan has found, even if that process has died since.

| Actions | Code |
|---|---|
| `SysRead`, `SysWrite`, `Retry` | `ksys_read`, `ksys_write`: `fd_read`, `fd_write`, `pipe_read`, `pipe_write`, the jump to `@retry_gate` |
| `SysClose`, `SysDup`, `SysDup2`, `SysPipe`, `SysOpen` | the calls of `ksys_io.asm`, `ksys_open` |
| `SysSpawn` | descriptor mapping of `ksys_spawn_resident`, with rollback |
| `SysExit`, `Kill`, `Reap` | `fd_close_process` on exit; death with open descriptors; `proc_terminate` |
| `WakeStart`, `WakeScan`, `WakeStore` | `scheduler_wake_one` and its `proc_wake` |
| `Preempt`, `Block` | timer IRQ, `sched_block_current` |

Abstractions of `PipeIO`: a pass may select any runnable process (sleeping and
stopping are not modelled); contention for the gate is waiting for it to be
free; files and directories are one kind of object, opened and closed in one
step (their requests are in `Kernel`); PID 0 has no descriptors. The console
objects are `Consoles` in number (3 in the code), so that an instance can have
one. A preemption during a scan is taken at its first entry, where the counter
does the most harm. `Reap` closes the descriptors and frees the row in one step:
its test for a zombie comes just before, under the same gates.

`PipeSpec` is what the pipes promise: bounded FIFOs with two ends. `PipeIO`
implements it (`PipesAreFifos`), the ring read from its tail being the queue.

`Timers` is the slot table of `timer.asm` with the sleep call. A sleeper goes
through two steps, `Start` (`timer_start_current`) and `Commit`
(`timer_commit_current` inside `sched_block_current`); between them ticks, scans
and other processes run. The counter has `Wrap` values (2^16 in the code) and
expiry is the sign of a difference (`Expired`). A scan is one step because every
caller runs it with IRQs masked. In `Kernel`, which is about gates and states,
expiry stays a choice of the pass.

`proc_mark_zombie` frees the slot in the `wait_object` of the process it ends, if
that process waits for a timer. `Interrupt` is its use by the signal phase: IRQs are
masked, a scan has just run, and it is one step. Under SIG_KILL the same code runs
with IRQs enabled and is taken apart: `KillReason` reads the wait reason of the
target, `KillObject` its object, `KillFree` makes the three stores of `timer_free`
(owner, low byte, high byte; `Low` is the number of values of a low byte), and
`KillClear` and `KillZombie` clear the wait and end the process. Between any two of
them the clock ticks, scans wake sleepers, and slots are armed and committed; only
another kill, a reap and the reuse of a PID are kept out, by PROC. `KillReason`
includes the test that the target is not dead: a target that dies right after the
test gets only stores that change nothing. A process ended between arming and commit
does not wait yet, and its slot stays armed; `Reuse` gives its PID to another
process. Two history variables: `left` counts down the sleep that was asked for, and
`robbed` holds the sleepers whose slot the end of some process has written to.

`CommandLine` is the text processing of `neosh.c`, `nbox.c` and `applet_args.c`
as operators: prompt stripping (`CleanLine`), tokens, redirection operators, the
parser loop (`ParseRedirections`, one `ParseStep` per round), command resolution
and arguments. A text is a sequence of one-character strings, because what is
checked is about single characters: glued operators, buffer limits, a prompt
that only resembles one. `CommandMeaning` is not code: it says declaratively, in
terms of words and their positions, which lines are well formed and what they
mean, and the parser is compared with it. `Numbers` is the parsing of `kill.c`
and the formatting of `applet_support.c`.

`Shell` is the loop of `neosh_main`, one action per system call:

| Actions | Code |
|---|---|
| `PrintPrompt` | `neosh_print_prompt` (getcwd decides between prompt and default prompt) |
| `ReadLine`, `ReadInterrupted`, `ReadNothing` | the read loop, then `neosh_clean_line`, `neosh_parse_redirections`, `neosh_nbox_resolve`, the branches of `neosh_execute_line` |
| `OpenRedirection`, `SeekToEnd`, `AllOpen` | `neosh_open_redirections`, `neosh_open_redirection` |
| `Spawn`, `WaitChild`, `CloseAfterChild` | `neosh_execute_child` |
| `SaveCwd`, `Cd` | `neosh_execute_cd_parent`, `neosh_execute_cd_dash`, `neox_applet_cd` |
| `Kill` | `neox_applet_kill` in the shell, when its target is the shell |
| `Enter` | the RP's screen editor: Enter hands over the screen line, with whatever prompt stands on it (external) |
| `Break`, `Reroute`, `ChildReads`, `ChildEnds`, `OtherDirs` | console break, routing, the foreground child, other processes |

The history variables `current` and `truncated` remember what the user typed and
what the command has emptied. The kernel is modelled by what the shell sees of
it; `Reap` and `Break` follow `proc_reap_waited_child` and the break IRQ. The
defect of `waitpid` listed below is not in this model: it shows
what the shell does with a kernel that keeps its promises. External assumptions:
a console read hands out bytes of one entered line and keeps the rest for the
next read; a directory is found by its name or not; getcwd fails when the text
and its terminator do not fit.

`Applets` is one run of one applet, one action per system call: argument checks,
`neox_applet_write_all` with short and failing writes (`WriteSome`,
`WriteFails`), the copy loops of cat and cp, the two passes of ls, the loop of
ps, and the calls of the rest. Consecutive writes with nothing between them are
one transfer of the concatenation. Messages are counted, not spelled. `Canon` is
the upper-casing the kernel applies to paths. `OtherEntry` and `OtherProcess`
change the directory and the process table under ls and ps.

`MCKernel`, `MCPipeIO`, `MCShell` and `MCApplets` hold the sets of calls, lines,
files and inputs of the TLC instances; `Timers` needs none.
`KernelProofs`, `KernelSlotProofs` and `KernelWaitProofs` (each extending the one
before), `DescriptorProofs` and `PipeIOProofs`, `TimersProofs`, `ShellProofs` and
`AppletsProofs` hold the theorems.

## 3. Runs

| Run | Instance | Shows |
|---|---|---|
| `kernel_lifecycle` | 3 task slots, 2 contexts, 1 boot task, every call but signal, breaks caught, two routes | all lifecycle invariants, through PID reuse |
| `kernel_signals` | 2 task slots; spawn, exit, waitpid, signal; STOP, CONT, KILL (self-kill too), breaks | slots and gate owners under signals; nothing but the late wake of a KILL revives a zombie |
| `kernel_live` | 2 boot tasks and a child, file calls and spawn, fairness | hand-over and liveness of both gates, PROC being held while its owner waits for FILE_IO; round robin |
| `pipe_io` | 2 tasks, 2 descriptors each, 3 open objects, 1 pipe of 2 bytes, every descriptor call | reference counts, no dangling descriptor, a waiter keeps its pipe, FIFO |
| `shell` | 11 command lines of every kind, 4 directories (of 3, 4, 55 and 63 characters), a queue of one typed-ahead line, every call may fail, breaks, three routes | what runs is what was typed, no leak, console, `cd`, the prompt returns |
| `applets` | one run each of every applet, well and wrongly used; buffers of 2 bytes; 3 directory places; 3 processes; 2 changes by others | exact output, closed descriptors, diagnostics, listings, termination |
| `timers` | 2 sleepers, one of which may be killed, 2 slots, a counter of 7 values, sleeps of 1 and 2 ticks, a scan after every tick; fairness | never early, never overlooked, everybody wakes, but for whom a SIG_KILL has robbed; other deaths rob nobody |
| `exit_strands_proc` | 2 processes that exit | finding |
| `waitpid_loses_wake` | parent, foreground child, break | finding |
| `pipe_eof` | two tasks, read, write, close, exit | finding |
| `line_is_cut` | a 55-character directory, a command with a redirection | finding |
| `kill_takes_timer` | 2 sleepers, one of which is killed | finding |

Bounds. Three task slots with two contexts make slots and contexts run out
separately and make reuse happen; two slots suffice for every pair of actors in
the signal code, whose steps involve a sender, a target and a parent; three
contenders are the fewest for which FIFO order and a lost hand-over show. A
pipe of two bytes, a text of two different bytes and reads of one and two give
empty, partly filled, full and wrapped rings, short reads and short writes; two
descriptors, three objects and one pipe make every table run full and every
object be reused, by processes that share ends through spawn. The shell's
buffers have the code's 64 bytes and the descriptor table its 6 entries, so that
the limits are the real ones: with 63 characters of directory the prompt no
longer fits, with 55 a short command fits and a longer one is cut, and three
redirections fill the table. One typed-ahead line is enough for a line to be
entered at one prompt and read at another. `ParserAgrees` compares the parser
with the meaning on all 3,906 lines of at most five of the characters x, space,
2, > and < and all 3,280 of at most seven of x, space and >: every adjacency of
operators, words and spaces occurs. Buffers of two bytes and files of up to
three give full, partial and empty rounds of the copy loops; three places let a
directory and a file change places around the reader; two changes let an entry
be removed and another appear. A counter of 7 values with sleeps of 2 and lags
of 1 wraps during a sleep and leaves 2 * (2 + 1) < 7, the condition under which the
code's comparison is right (sleeps of 255 and a counter of 65536 in the code). Two sleepers are a killed one and one that arms the slot
the kill has read; PROC allows one kill at a time. No counter in the
model is unbounded, so there are no state constraints. The proofs have no
bounds.

Fairness. Strong fairness of a process's own steps: hundreds of instructions fit
between two ticks, so a process that is selected again and again advances. Weak
fairness of the timer, which never stops outside the monitor, and of the RP's
completion: each request is answered, with a result or an error. For the shell,
weak fairness of its own steps, which need nothing but the CPU, and of a child
that does not read the console; no fairness of the user, the RP's routing or
breaks, so a shell that waits for a line waits, and `ShellReturns` and
`BreakIsTaken` except a child that reads the console until it is interrupted.
For an applet, weak fairness of its steps: each transfers at least a byte or
ends it. For the timers, weak fairness of the clock, of the scheduler's scan, of
a process that is about to commit (nobody stops it for ever by a STOP) and of a
kill that has begun (its sender is not stopped or ended: it owns PROC, and the signal
phase spares owners).

The lifecycle run leaves out signals and default-action breaks, because under
them the invariants about waiting fail: these are the findings below.

### Findings

1. An exiting process becomes ZOMBIE or EMPTY before it releases PROC. A tick in
   between never comes back, and PROC is lost for the whole system. SIG_KILL
   loses FILE_IO the same way (`NoStrandedGate` with a file user and a killer):
   it tests that the target owns no gate and makes it a zombie later.
2. waitpid reads the child's state before it masks IRQs. The signal phase of the
   scheduler, which does not take PROC, can end the child in between.
3. A pipe reader that has found the pipe empty releases FILE_IO and blocks
   later; the last writer's close in between wakes nobody, and the reader sleeps
   on a pipe without writers. The wakes of a write and of a read are lost the
   same way.
4. The shell reads 63 bytes of a line that begins with its prompt. Behind a long
   prompt a command is cut, the cut command runs, and the rest is read as the
   next line. `RunsWhatWasTyped` is therefore stated for lines read whole.
5. SIG_KILL reads the wait of its target with IRQs enabled and frees the slot it
   has read. If the target's sleep ends in between and another process arms that
   slot, the other process loses its timer: committed already, it sleeps on with
   nobody to wake it; not yet committed, its sleep returns early. The three
   properties of sleeps therefore exempt the `robbed`, and `DeathFreesItsOwn` says
   that nothing else robs anybody.

Three more violations can be had from properties that are in the modules and in no
run:

- `NoWildResume`: STOP followed by CONT turns a NEW process into a READY one without
  a frame (two boot tasks, the call signal);
- `ZombieStaysDead`: SIG_KILL finds the parent of its target asleep in waitpid and
  wakes it with IRQs enabled. A break that ends the parent in between makes it a
  zombie, and the store of `proc_wake` makes the zombie READY (two boot tasks and a
  child, waitpid, spawn and KILL, breaks not caught). A pipe wake (`WakeStore`) can
  do the same to its waiter, with a break alone. The wake of an exit cannot, although
  its code is the same: the exiting caller is a zombie itself by then, so that a pass
  in between, without which nobody can die, takes the CPU from it for ever.
  `OnlyKillRevives` says so, and is checked;
- `EndsReferenced`: dup2 over the last descriptor of a pipe end leaves the end open
  and loses the open object, so the peer sees neither EOF nor a broken pipe (the
  instance of `pipe_eof` with dup2 for exit). `RefsCounted` cannot tell, for the
  counts agree.

Observed with other instances and not listed as findings, for no document says
otherwise: a waiter that was woken for a gate and is stopped before it retries
keeps the hand-over (`FreeGateIsRetried` fails with STOP and three contenders);
under KILL the FIFO may for a while differ from the set of blocked processes; the
self-kill byte may be read by another call, which then yields once; with three
tasks `scheduler_wake_one` may look for another process's wait, or end early,
because a pass overwrote its scratch; one wake per transfer leaves a second
reader asleep when the first takes only part of the data.

Observed in the C code while modelling it:

- a redirection that fails leaves the files opened before it truncated, though
  `neosh_open_redirections` calls itself transactional; it is, for descriptors;
- when getcwd fails, or the directory is too long, the default prompt is shown
  and its core length is 0, so it is never stripped: a command entered behind it
  is unknown. A character with bit 7 set in a directory name has the same effect;
- a ^C between the shell's read and the publication of its child stays pending
  until the next read;
- `process.h` says a foreground child owns the console until it is reaped; a
  change of the RP's route moves it earlier (`sched_update_console_focus`);
- `cp a A` passes `cp_paths_equal`, although the kernel upper-cases both;
- ls reports some failures twice (the pass and its caller) and a failed opendir
  with EIO or EBADF not at all; echo never reports;
- `docs/shell/command_execution_modes.md` says the shell closes its copies of the
  redirections as soon as the child is published; it closes them after waitpid.
  It lists only CD as a parent-mode command; KILL is one too.
- `docs/shell/neosh_nbox_applets.md` gives echo at most two arguments; it joins
  all of them.

## 4. Proofs

`KernelProofs` proves, for any number of processes (at most 255, a PID is a
byte) and contexts, any boot tasks, calls, signals and routes:

- `TypeCorrect`: `Spec => []TypeOK`;
- `SingleRunning`: `Spec => []OneRunning`;
- `GateExclusion`: `Spec => []HolderOwns`, the mutual exclusion of both gates.

They rest on the assumptions `MaxProcsAssumption` and `KernelAssumption` only.
`HolderOwns` is not inductive. A NEW process starts at "user", wherever its
program counter was, so it must be nowhere inside a gate's code (`NewRows`).
Publishing a child writes the child's program counter, so the child must not be
the publisher (`SpawnTarget`), and it must not be inside a gate: the publisher
owns both. The slot a spawn picks is EMPTY and the caller's is not
(`ActiveSlot`), except between the EMPTY store of an exit and its last release.
`Inv` is the conjunction.

The argument: the table routines revive nobody (`Follows`, one lemma per
routine), so a scheduler pass keeps the core of the state whatever table it
starts from (`DispatchMoved`); a step that moves one process from one label to
another and takes or leaves gates as the labels say preserves `Inv`
(`InvStep`); what the labels say is checked in three tables
(`AcquireLabelFacts`, `ReleaseLabelFacts`, `LocalLabelFacts`); then one lemma
per call, one step per action.

`KernelSlotProofs` extends `Inv`, under the same assumptions and with every signal,
KILL included, to `SlotInv == Inv /\ Mailbox /\ Slots /\ Fates` and proves:

- `RequestsAllowed`: `Spec => []RequestAllowed`. `Mailbox` says at which labels the
  mailbox may be anything but IDLE, and that its user owns FILE_IO there; a KILL
  between a request and its completion is what makes the label matter;
- `SlotsAreAccounted`: `Spec => []SlotsAccounted`. `Slots` adds which slot a spawn, an
  exit, a KILL or a reap is working on and how far it has come, label by label,
  because between two of their steps the slot, its context and its descriptors
  disagree on purpose;
- `OwnersAreSpared`: `Spec => SignalPhaseSparesOwners`, an action property. `Fates`
  says what a process the scheduler may zombify can still be doing;
- `ExitsReviveNobody`: `Spec => OnlyKillRevives`, an action property: a zombie comes
  back only by the wake of a KILL, and then it is the parent of the target. For the
  wake of an exit the proof is that its caller is a zombie that still has the CPU, so
  that no pass has run since its test (`Slots` at the labels of an exit).

`KernelWaitProofs` proves, under one more hypothesis, `NoKill` (no process sends
KILL; STOP, CONT, INT and console breaks are sent freely):

- `LinesMatchWaits`: `Spec /\ NoKill => []LineMatchesWaits`;
- `RequestsHaveOwners`: `Spec /\ NoKill => []RequestHasOwner`;
- `OwnersCanRun`: `Spec /\ NoKill => []OwnerCanRun`;
- `ZombiesStayDead`: `Spec /\ NoKill => ZombieStaysDead`.

The hypothesis is needed: KILL takes its target out of the line before it makes it
a zombie, and its own wake of a parent may come after the parent's death
(`ZombieStaysDead` in section 3). The last theorem covers a default INT between the
test and the store of an exit, which are separate actions; it does not cover pipe
waits, which `Kernel` does not have.

`WaitInv` adds to `SlotInv` that the fields of a blocked row fit the label its process is
at (`Fit`) and that the active process is runnable or in the middle of giving the
CPU up (`ActiveRuns`).

Two more hypotheses lead to what nobody may miss. `NoDefaultInt`: every process
catches INT, or INT is never raised, as in neosh and the resident applets it
spawns; a process that dies of a default INT inside a call abandons what it was
woken for. `NoStop`: no process sends STOP. Then:

- `WaitpidKeepsWake`: `Spec /\ NoKill /\ NoDefaultInt => []WaitpidWakePending`;
- `GatesAreRetried`:
  `Spec /\ NoKill /\ NoDefaultInt /\ NoStop => []FreeGateIsRetried`.

Without the hypotheses both are false (the run `waitpid_loses_wake`, and the hazard
at `gate.asm:304`), so they say exactly where the protocol is sound. `CalmInv` adds
to `WaitInv` that nobody in the table dies of a signal (`Sober`), that the child of
a sleeping parent is its child and alive or about to wake it (`Awaited`, with
`ChildLives` and `OrphanEnds` for the labels in between), and, under
`NoStop`, that a free gate with a line has a runnable process at one of its retry
labels (`Retried`). The runs `kernel_lifecycle` and `kernel_live` are instances that
meet the hypotheses.

`TimersProofs` proves, for any slots, any processes and any counter that is wide
enough (`TimersAssumption`):

- `TimersTypeCorrect`: `Spec => []TypeOK`;
- `SleeperKeepsTimer`: `Spec => []SleeperHasTimer`;
- `SleepsInFull`: `Spec => NeverEarly`, an action property;
- `ScansAreThorough`: `Spec => ScanWakesDue`, the converse: no scan overlooks a
  sleeper whose time is over;
- `DeathsKeepToTheirOwn`: `Spec => DeathFreesItsOwn`, an action property: while no
  SIG_KILL is under way no death takes the slot of anybody else;
- `UnkilledKeepTimers`: `Kills = {} => (Spec => []NoDeadWait)`, what the code says of
  `wait_object` and `timer_pid`, for everybody, where no SIG_KILL is sent.

The first three hold for the sleepers that nobody has `robbed`; the fourth says who
can be robbed and the run `kill_takes_timer` that it happens. A sleeper stops being
robbed when its sleep ends, by whatever way.

The inductive invariant adds `ObjectIsWait` (`wait_object` names a slot only while
its process is blocked, so that the slot an interrupt frees is the slot of its
victim) and `OnTime`: a process whose sleep is not over, and that nobody has robbed, owns its
slot, and the slot's deadline is the remaining time ahead of the counter, modulo
`Wrap`. Two lemmas about `%`
(`SumWraps`, `DifferenceWraps`) turn the sign test of the code into a comparison
of times (`NotDue`); everything else is bookkeeping of slots. For the converse
`Recent` says that a slot which is over and still its sleeper's has been over since
the last scan only, so that its age is far from half the counter (`OverIsDue`).

`ShellProofs` proves, for any command lines, directories, faults, routes and any
descriptor table of at least six entries:

- `NoDescriptorLeaks`: `Spec => []DescriptorsOwned`. The invariant adds the shapes
  of the tables and that the shell seeks only for a stream that is still to be
  opened (`SeekHasStream`); one lemma says that closing the redirections from any
  such state leaves the three standard descriptors, one that a step which frames
  the descriptors keeps the invariant, then one per action that touches them;
- `ConsoleIsHandedBack`: `Spec => []ConsoleFollowsChild`;
- `ShellTypeCorrect`: `Spec => []TypeOK`, from `TextsAssumption` and
  `HighBitAssumption` (what is typed, what names a directory and what a character
  loses its high bit to are texts). Every round of the parser keeps a scan whose
  plan and command fit their buffers (`Scans`, `StepTyped`);
- `ParserMeansWhatItSays`: `(\A t \in Probes : Len(t) < LineMax) => (Spec =>
  []ParserAgrees)`. It is `AgreesAlways`, for every text that fits the line buffer,
  which is every text `neosh_clean_line` hands over (`CleanTyped`);
- `RunsTheTypedCommand`: `Spec => []RunsWhatWasTyped`;
- `CdGoesAsTyped`: `Spec => ChangesDirAsTold`, an action property.

The first two do not look into the parser: whatever plan it returns, descriptors and
console are safe. The fourth is about nothing else. `Stage(t, n)` is the invariant
of its loop: after `n` rounds the scan stands between two words, behind at least `n`
characters, with the plan and the command of the words before it (`Tells`), or it has
accepted a well-formed line, or refused one that is not. Since the cursor moves in
every round, `Len(t) + 1` rounds end in an answer. `CommandMeaning` looks at the words
by their positions and the scan meets them one by one: `NextWord` says that a token is
the next word, `ListedAppend` and `PickedAppend` that a sequence picked by positions
grows at its end, and `WordMore`, `GluedMore` and `LoneMore` what one more word, or an
operator with its file, changes in the meaning. A refusal holds for the whole line
because the words read so far begin it (`ReadOn`, `ClashIs`, `LoneIs`).

The last two put the parts together, under `NamesAssumption`: a directory's text names
it and is a drive, a colon and names, without ">" (which FAT forbids), control
characters or characters with bit 7 set; what is typed is one line and does not begin
like a prompt. Without the last two the theorems would be false, because
`neosh_clean_line` clears bit 7 and takes off a prompt, whoever wrote it. What stands in
front of the cursor is nothing, the default prompt or the prompt of a directory
(`OnScreenIs`), and it need not be the prompt the shell would take off: the line may have been entered
at an earlier one. `CleanWords` says that either the clean line has the words that were
typed, or its first word is a drive, which no applet and no operator is (`OddIsNone`,
`OddIsPlain`); so a line that resolves to a command is what was typed (`LineStands`,
with `AgreesAlways`, `ArgumentsIs`, `ArgListIs` and `DashIs` for the words behind the
command). From there on the invariant is a chain along the state of the shell: `Lines`
(what waits in the queue was typed behind something that was on the screen), `Meant` (the
plan and the command that are being executed are those of the line), `Opened` (the
descriptors opened so far are the files of the plan, in their modes and at their ends),
`ChildIs` (the child is that command on those streams), `Emptied` (what has been
truncated is named by the line), and for `cd` `Known` (the directories the shell
remembers exist as names, and the one it is about to leave has been saved).

`AppletsProofs` proves, for any files, buffer size, faults and sequence of short
reads and writes, from `FilesAssumption` (the file system is a function on names,
and a copier whose usage is right names one of them):

- `CatIsExact`: `Spec => []CatExact`, and `CopiesCompletely`:
  `Spec => []CopyComplete`. What a copier has delivered says nothing about what is
  still in its buffer, so the invariant `Progress` names the border `a` between
  the two: the sink is the first `a` bytes of the source, the buffer bytes `a + 1`
  to the read position. `BorderMoves` is the fact about sequences a partial write
  needs. `Course` keeps a refused copier away from every file;
- `AppletsCloseAll`: `Spec => []HandlesClosed`. The invariant adds where an applet
  that is writing will go on, since only that tells whether it may hold a
  descriptor;
- `FailuresAreDiagnosed`: `Spec => []Diagnosed`. The invariant `Told` says that an
  applet which is still running has reported nothing, and that only `ls` stands at
  the steps whose failures are reported twice;
- `ListingsAreStable`: `Spec /\ ListingFits => []ListsStable`, for a directory whose
  places are numbered from 1, with different names at different places, none of which
  is one of the three other texts of a row. What `ls` has put out is what it has
  written and what is still to be written (`Put`), so a short write changes nothing;
  an entry that nobody touches is in it exactly once from the step that reads it in
  its own pass, and not before (`Rows`, `Listed`); no file precedes a directory
  (`Columns`);
- `ReportsAreStable`: `Spec /\ TableFits => []ReportsStable`, for a process table with
  pids 0 .. n below 256, states the kernel has, numbers that fit a byte, and infos whose
  rows differ when the infos do (the row does not show everything: the object of a
  process that waits for nothing is a dash, and the property can only tell apart what
  the row shows). What `ps` has put out is whole lines (`Whole`), and a row has its only
  end mark at its end and its only state text at its fifth place (`Line`), so a row
  that is put behind other lines matches itself and nothing that overlaps it
  (`MatchBehind`, `FoundBehind`); rows of two pids differ in their first two digits
  (`RowsDiffer`). A process that nobody touches has its row exactly when its pid has
  been passed (`Reports`);
- `NumbersConvert`: `Spec /\ NumbersInRange => []NumbersAgree`, for any texts and any
  words of 32 bits. The parser and the formatter are recursive functions. That they
  are defined at all, and what they compute, is proved from the least number for
  which it would fail (`LeastNumber`, `Upward`, `Recursion`); the parser's value after
  each digit is the value of the prefix as long as it is within the bound, and above
  the bound it never comes back (`ParseIsExact`); the formatter appends the last digit
  to the numeral of the rest (`FormatIsExact`).

`DescriptorProofs` is about the routines of `Descriptors`, as operators from tables
to tables: for any tables within `DescriptorsAssumption` (indices are bytes, $FF is
none) each routine takes tables that are *in order* to tables in order, spares the
descriptors of everybody but the process it works on (`Spares`), and does to the
pipes one of four things: nothing or losing ends (`Shrinks`), giving both ends to a
free pipe (`Creates`), or moving bytes of one pipe (`Transfers`). `InOrder` is the
type of the tables and: every count is the number of descriptors, an endpoint
object stands for an open end and no other object for the same one, an open
descriptor has an object in use and the right direction, and head = tail + count.
The close of a whole process and the clones of a spawn are loops, written as
recursive functions; their lemmas are inductions over the number of steps, put as a
least counterexample (`LeastNumber`, from the well-foundedness of `<`), since an
induction rule cannot be instantiated with a predicate here.

`PipeIOProofs` proves, for any processes, tables, ring size, reads, writes, open modes
and calls (`PipeIOAssumption`):

- `PipeTypes`: `Spec => []TypeOK`;
- `ReferencesCounted`: `Spec => []RefsCounted`;
- `NoneDangles`: `Spec => []SlotsValid`;
- `WaitersKeepTheirEnd`: `Spec => []WaiterHoldsEnd`;
- `PipesImplementFifos`: `Spec => PipesAreFifos`, the refinement of `PipeSpec`.

`PipeInv` is `TypeOK`, `InOrder(tab)`, `WaiterHoldsEnd` and three facts about the calls:
a free PID has no descriptor open (`FreeIsClosed`: otherwise the clearing of a spawn
would drop references), whoever performs wakes owns the gate and returns to
user code or dies (`WakerOwns`: otherwise a table could change, or a waiter appear,
under it), and whom a scan has found holds the end it waited for until the store,
dead or not (`FoundHolds`). For the refinement every step is one of the four moves (`NextMoves`), and
each is a step of `PipeSpec`: a write appends because the places it fills differ from
those in use (`PlacesDiffer`), a read drops a prefix because advancing twice is
advancing by the sum (`AdvanceTwice`).

Model-checked only: the liveness properties (fairness is out of the prover's
reach); all findings. Every invariant that a passing run checks is a theorem.

## 5. Plan

Done: the kernel core (`ProcessTable`, `Kernel`), the descriptor tables and the
pipes (`Descriptors`, `PipeIO`, `PipeSpec`), the timers, the shell with its
command language, the applets; theorems about the kernel's gates, requests, slots,
waits and hand-overs, the descriptor tables and the refinement of `PipeSpec`, the
timers, the shell from the typed line to the child, and the copies, descriptors,
diagnostics, listings, process table and numbers of the applets. Next: `GateList`,
the head, tail and next table of `gate.asm` refining the order `Line` (INSTANCE with
the linked list mapped to pairs).

## 6. Not modelled

BIOS and boot hardware code (straight-line access to registers), the kernel log
and arithmetic (no state that matters), the monitor (it freezes everything
else), the libneox bindings (they copy arguments into blocks and results out of
them), the wording of messages and the layout of listings, the RP firmware (its
sources are not part of the repository; what the code relies on is stated as
external actions and choices).
