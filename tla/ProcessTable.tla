---------------------------- MODULE ProcessTable ----------------------------
(***************************************************************************)
(* The NEOX process table and the pure part of the scheduler.              *)
(*                                                                         *)
(* The kernel keeps one byte array per attribute (proc_state, wait_reason, *)
(* wait_object, proc_signal_pending, proc_parent_pid, proc_flags), indexed *)
(* by PID.  Here a table is one function from PIDs to records, so that the *)
(* routines below are operators from tables to tables and a scheduler pass *)
(* is their composition.                                                   *)
(***************************************************************************)
EXTENDS Integers

CONSTANT MaxProcs       \* MAX_PROCS of include/config.inc; PID 0 is the idle task

\* A PID is a byte and $FF is reserved.
ASSUME MaxProcsAssumption == MaxProcs \in Nat /\ MaxProcs >= 2 /\ MaxProcs <= 255

Pid   == 0 .. (MaxProcs - 1)
Idle  == 0
Task  == 1 .. (MaxProcs - 1)
Nobody == 255           \* $FF: no parent, no gate owner, no console owner

State  == {"EMPTY", "NEW", "READY", "RUNNING", "BLOCKED", "STOPPED", "ZOMBIE"}
Reason == {"NONE", "CONSOLE", "TIMER", "PROC", "LOCK", "RP"}
Signal == {"INT", "KILL", "CONT", "STOP"}
NoSignal == "none"

FileIO == 0             \* LOCK_ID_FILE_IO
Proc   == 1             \* LOCK_ID_PROC
Gate   == {FileIO, Proc}

\* One row of the table.  "catch" is PROC_FLAG_SIGINT_INTERRUPT.
Row == [state   : State,
        reason  : Reason,
        object  : Pid,
        pending : Signal \cup {NoSignal},
        parent  : Pid \cup {Nobody},
        catch   : BOOLEAN]

EmptyRow == [state |-> "EMPTY", reason |-> "NONE", object |-> 0,
             pending |-> NoSignal, parent |-> Nobody, catch |-> FALSE]

Dead == {"EMPTY", "ZOMBIE"}
Runnable(T) == {p \in Task : T[p].state \in {"NEW", "READY"}}

BlockedOn(T, p, r) == T[p].state = "BLOCKED" /\ T[p].reason = r

(***************************************************************************)
(* Row and table updates: proc_set_wait, proc_clear_wait, proc_wake,       *)
(* proc_set_running.                                                       *)
(***************************************************************************)
Unwaited(row, s) == [row EXCEPT !.state = s, !.reason = "NONE", !.object = 0]

SetWait(T, p, r, o) ==
    IF p = Idle THEN T
    ELSE [T EXCEPT ![p] = [@ EXCEPT !.state = "BLOCKED", !.reason = r, !.object = o]]

\* A wake that does not look at the state first.
WakeUnchecked(T, p) == [T EXCEPT ![p] = Unwaited(@, "READY")]

Wake(T, p) == IF T[p].state = "BLOCKED" THEN [T EXCEPT ![p] = Unwaited(@, "READY")]
                                        ELSE T

WakeAll(T, S) == [p \in Pid |-> IF p \in S THEN Unwaited(T[p], "READY") ELSE T[p]]

\* The preempted or yielding process, if it is still RUNNING, becomes READY;
\* PID 0 is never saved and keeps its state.
Demote(T, p) ==
    IF p # Idle /\ T[p].state = "RUNNING" THEN [T EXCEPT ![p].state = "READY"] ELSE T

\* Only the selected row changes: a stale RUNNING row would survive.
SetRunningNoScan(T, n) == [T EXCEPT ![n].state = "RUNNING"]

SetRunning(T, n) ==
    [p \in Pid |-> IF p = n THEN [T[p] EXCEPT !.state = "RUNNING"]
                   ELSE IF T[p].state = "RUNNING" THEN [T[p] EXCEPT !.state = "READY"]
                   ELSE T[p]]

(***************************************************************************)
(* The gate FIFO.  The kernel links the waiting PIDs of a gate through a   *)
(* next table; what the link encodes is who is ahead of whom.  A line is   *)
(* that order, reflexive, as a set of pairs <<ahead, behind>>: its members *)
(* are the p with <<p, p>> in it.                                          *)
(***************************************************************************)
Line == SUBSET (Task \X Task)
Waiters(L) == {p \in Task : <<p, p>> \in L}

\* New arrivals at the head: a stack, not a queue.
EnqueueFirst(L, p) == L \cup ({p} \X Waiters(L)) \cup {<<p, p>>}

Enqueue(L, p) == L \cup (Waiters(L) \X {p}) \cup {<<p, p>>}
Unlink(L, S)  == {e \in L : e[1] \notin S /\ e[2] \notin S}
HeadOf(L)     == CHOOSE h \in Waiters(L) : \A w \in Waiters(L) : <<h, w>> \in L

(***************************************************************************)
(* sched_pick_next: the first NEW or READY task after the cursor, in PID   *)
(* order with wrap-around; failing that a RUNNING task left behind; failing *)
(* that the idle task.                                                     *)
(***************************************************************************)
ScanStart(c)   == IF c \in Task /\ c + 1 \in Task THEN c + 1 ELSE 1
ScanDist(c, p) == (p - ScanStart(c)) + (IF p < ScanStart(c) THEN MaxProcs - 1 ELSE 0)

\* The scan from PID 1 whatever the cursor: a fixed-priority scheduler.
IsNextFixed(T, c, n) ==
    \/ n \in Runnable(T) /\ \A q \in Runnable(T) : n <= q
    \/ Runnable(T) = {} /\ n = Idle

IsNext(T, c, n) ==
    \/ /\ n \in Runnable(T)
       /\ \A q \in Runnable(T) : ScanDist(c, n) <= ScanDist(c, q)
    \/ /\ Runnable(T) = {}
       /\ \/ /\ n \in Task /\ T[n].state = "RUNNING"
             /\ \A q \in Task : T[q].state = "RUNNING" => n <= q
          \/ n = Idle /\ \A q \in Task : T[q].state # "RUNNING"

(***************************************************************************)
(* scheduler_apply_pending_signals, PIDs in ascending order.  own is the   *)
(* set of gate owners: a pending INT or STOP of a gate owner waits.        *)
(*                                                                         *)
(* The scan is one atomic phase of the scheduler, so it is described by    *)
(* who dies, who is woken and who stops.  The PID order shows in one place *)
(* only: a parent woken by the death of a child with a smaller PID is      *)
(* READY when its own STOP is looked at, a parent with a smaller PID than  *)
(* the child was still BLOCKED.                                            *)
(***************************************************************************)
SigDies(T, own) ==
    {p \in Task : /\ T[p].pending = "INT" /\ p \notin own /\ ~T[p].catch
                  /\ T[p].state \notin Dead}

\* proc_mark_zombie wakes a parent blocked in waitpid for exactly this child.
SigWakes(T, own) ==
    LET dies == SigDies(T, own) IN
    {q \in Task \ dies : /\ BlockedOn(T, q, "PROC") /\ T[q].object \in dies
                         /\ T[T[q].object].parent = q}
    \cup {q \in Task : /\ T[q].pending = "INT" /\ q \notin own /\ T[q].catch
                       /\ BlockedOn(T, q, "CONSOLE")}

\* STOP without the gate-owner test.
SigStopsOwner(T, own) ==
    {p \in Task : T[p].pending = "STOP" /\ T[p].state \in {"NEW", "READY", "RUNNING"}}

SigStops(T, own) ==
    {p \in Task : /\ T[p].pending = "STOP" /\ p \notin own
                  /\ \/ T[p].state \in {"NEW", "READY", "RUNNING"}
                     \/ p \in SigWakes(T, own) /\ T[p].object < p}

\* What becomes of one row that dies, is woken first, or stops.
AfterSignal(old, dies, wakes, stops) ==
    LET row == IF wakes THEN Unwaited(old, "READY") ELSE old IN
    CASE dies  -> [Unwaited(row, "ZOMBIE") EXCEPT !.pending = NoSignal]
      [] ~dies /\ stops -> [Unwaited(row, "STOPPED") EXCEPT !.pending = NoSignal]
      [] ~dies /\ ~stops /\ row.pending = "CONT" ->
            [(IF row.state = "STOPPED" THEN Unwaited(row, "READY") ELSE row)
                EXCEPT !.pending = NoSignal]
      [] OTHER -> row

ApplySignals(T, own) ==
    LET dies  == SigDies(T, own)
        wakes == SigWakes(T, own)
        stops == SigStops(T, own)
    IN [p \in Pid |-> IF p = Idle THEN T[p]
                      ELSE AfterSignal(T[p], p \in dies, p \in wakes, p \in stops)]
=============================================================================
