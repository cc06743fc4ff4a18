------------------------------- MODULE Timers -------------------------------
(***************************************************************************)
(* The timer slots of timer.asm and the sleep system call: a slot is armed *)
(* first, the wait is committed later, and in between the clock ticks, the *)
(* scheduler scans the slots and other processes run.  The clock is a      *)
(* counter of Wrap values (2^16 in the code) and expiry is the sign of a   *)
(* difference of two of them.                                              *)
(*                                                                         *)
(* A process may be ended meanwhile.  The scheduler's signal phase does so *)
(* with IRQs masked; ksys_signal does it for SIG_KILL with IRQs enabled,   *)
(* step by step, under the PROC gate: it reads the wait of its target,     *)
(* then frees the slot it has read, whoever has that slot by then.         *)
(***************************************************************************)
EXTENDS Integers

CONSTANTS
    Pids,       \* processes that sleep
    Slots,      \* 0 .. MAX_TIMER - 1
    Kills,      \* those that SIG_KILL may be sent to
    Wrap,       \* values of the tick counter
    Low,        \* values of its low byte
    MaxSleep,   \* the longest sleep: 255 ticks
    MaxLag      \* bound: ticks between two scans of the scheduler

ASSUME TimersAssumption ==
    /\ Wrap \in Nat /\ MaxSleep \in Nat \ {0} /\ MaxLag \in Nat \ {0}
    /\ 2 * (MaxSleep + MaxLag) < Wrap
    /\ Low \in Nat \ {0}
    /\ Slots \subseteq 0 .. 254 /\ Pids \subseteq 0 .. 254 /\ Kills \subseteq Pids

VARIABLES
    ticks,      \* system_ticks
    timerPid,   \* timer_pid of each slot, or None
    until,      \* timer_until of each slot
    state,      \* what each process is doing: run, armed, blocked, dead
    slot,       \* the slot in Y, from arming to the commit
    object,     \* wait_object while wait_reason is WAIT_TIMER, else None
    killing,    \* the target of the SIG_KILL under way, or None
    step,       \* where proc_mark_zombie is with it
    seen,       \* the slot it has read from wait_object
    left,       \* history: ticks until the sleep is over
    robbed,     \* history: sleepers whose slot somebody's death has touched
    lag         \* history: ticks since the last scan

clock   == <<ticks, lag>>
table   == <<timerPid, until>>
kill    == <<killing, step, seen>>
vars    == <<clock, table, state, slot, object, kill, left, robbed>>

None == 255                             \* TIMER_NONE: no process, no slot

Init ==
    /\ ticks \in 0 .. Wrap - 1
    /\ timerPid = [s \in Slots |-> None] /\ until = [s \in Slots |-> 0]
    /\ state = [p \in Pids |-> "run"]
    /\ slot = [p \in Pids |-> None] /\ object = [p \in Pids |-> None]
    /\ killing = None /\ step = "none" /\ seen = None
    /\ left = [p \in Pids |-> 0] /\ robbed = {} /\ lag = 0

\* An expiry test that misses the wake tick itself.
ExpiredLate(s) == 2 * ((ticks - until[s] - 1) % Wrap) < Wrap

\* The high byte of ticks - until has bit 7 clear.
Expired(s) == 2 * ((ticks - until[s]) % Wrap) < Wrap

FirstFree(s) == timerPid[s] = None /\ \A t \in Slots : t < s => timerPid[t] # None

\* system_ticks + duration, in two bytes.
WakeTick(d) == (ticks + d) % Wrap

\* timer_start_current; without a free slot sleep returns EAGAIN at once.
Start(p, d) ==
    /\ state[p] = "run"
    /\ \E s \in Slots :
          /\ FirstFree(s)
          /\ timerPid' = [timerPid EXCEPT ![s] = p]
          /\ until' = [until EXCEPT ![s] = WakeTick(d)]
          /\ slot' = [slot EXCEPT ![p] = s]
    /\ state' = [state EXCEPT ![p] = "armed"]
    /\ left' = [left EXCEPT ![p] = d]
    /\ UNCHANGED <<clock, object, kill, robbed>>

\* timer_free of some slots.
Free(S) ==
    /\ timerPid' = [s \in Slots |-> IF s \in S THEN None ELSE timerPid[s]]
    /\ until' = [s \in Slots |-> IF s \in S THEN 0 ELSE until[s]]

\* A scan that wakes whoever the slot names.
SleepsOnAny(p, s, st, obj) == timerPid[s] = p /\ st[p] = "blocked"

\* The process a slot wakes: blocked on this very slot.
SleepsOn(p, s, st, obj) == timerPid[s] = p /\ st[p] = "blocked" /\ obj[p] = s

Due == {s \in Slots : timerPid[s] # None /\ Expired(s)}
Woken(st, obj) == {p \in Pids : \E s \in Due : SleepsOn(p, s, st, obj)}

\* scheduler_wake_timers: every expired slot is freed, its sleeper woken.
WakeTimers(st, obj) ==
    /\ Free(Due)
    /\ state' = [p \in Pids |-> IF p \in Woken(st, obj) THEN "run" ELSE st[p]]
    /\ object' = [p \in Pids |-> IF p \in Woken(st, obj) THEN None ELSE obj[p]]
    /\ robbed' = robbed \ Woken(st, obj)
    /\ lag' = 0

\* proc_set_wait of p, then the scheduler's scan.
Block(p) == WakeTimers([state EXCEPT ![p] = "blocked"], [object EXCEPT ![p] = slot[p]])

\* The sleep of p is over before it has begun to wait.
Return(p) ==
    /\ state' = [state EXCEPT ![p] = "run"] /\ robbed' = robbed \ {p}
    /\ UNCHANGED <<lag, object>>

\* A commit that does not look at the slot again.
CommitBlindly(p) ==
    /\ state[p] = "armed" /\ Block(p)
    /\ slot' = [slot EXCEPT ![p] = None] /\ UNCHANGED <<ticks, kill, left>>

\* A commit that waits for a slot the scan has already freed.
CommitOwnOnly(p) ==
    /\ state[p] = "armed" /\ timerPid[slot[p]] = p
    /\ \/ ~Expired(slot[p]) /\ Block(p)
       \/ /\ Expired(slot[p]) /\ Free({slot[p]})
          /\ Return(p)
    /\ slot' = [slot EXCEPT ![p] = None] /\ UNCHANGED <<ticks, kill, left>>

\* timer_commit_current in sched_block_current: block on a slot that is still
\* the caller's and pending, scan the slots and switch; otherwise the sleep is
\* over, and a slot that is still the caller's is freed.
Commit(p) ==
    /\ state[p] = "armed"
    /\ LET s == slot[p] IN
       \/ timerPid[s] = p /\ ~Expired(s) /\ Block(p)
       \/ /\ timerPid[s] = p /\ Expired(s) /\ Free({s})
          /\ Return(p)
       \/ /\ timerPid[s] # p
          /\ Return(p) /\ UNCHANGED table
    /\ slot' = [slot EXCEPT ![p] = None] /\ UNCHANGED <<ticks, kill, left>>

\* Every other entry of the scheduler scans as well.
Scan == WakeTimers(state, object) /\ UNCHANGED <<ticks, slot, kill, left>>

\* A tick of the clock.  MaxLag bounds how late the scheduler looks.
Tick ==
    /\ lag < MaxLag /\ lag' = lag + 1
    /\ ticks' = (ticks + 1) % Wrap
    /\ left' = [p \in Pids |-> IF left[p] > 0 THEN left[p] - 1 ELSE 0]
    /\ UNCHANGED <<table, state, slot, object, kill, robbed>>

(***************************************************************************)
(* The end of a process, in proc_mark_zombie.                              *)
(***************************************************************************)
Asleep(p) == state[p] \in {"armed", "blocked"}
\* The sleepers that have the slots of S.
Holders(S) == {p \in Pids : Asleep(p) /\ \E s \in S : timerPid[s] = p}

\* The slot in wait_object is freed whatever the wait is for.
WaitSlotAny(p) == IF object[p] \in Slots THEN {object[p]} ELSE {s \in Slots : s = 0}

\* The slot that the end of p frees: that of its wait, if it is WAIT_TIMER.
WaitSlot(p) == IF object[p] \in Slots THEN {object[p]} ELSE {}

\* A default INT in the scheduler's signal phase, right after its scan: the
\* slot of a sleeper is freed, that of a process on its way to sleep stays.
Interrupt(p) ==
    /\ state[p] # "dead" /\ lag = 0
    /\ Free(WaitSlot(p)) /\ robbed' = (robbed \cup Holders(WaitSlot(p))) \ {p}
    /\ state' = [state EXCEPT ![p] = "dead"] /\ object' = [object EXCEPT ![p] = None]
    /\ slot' = [slot EXCEPT ![p] = None] /\ left' = [left EXCEPT ![p] = 0]
    /\ UNCHANGED <<clock, kill>>

\* SIG_KILL under the PROC gate.  The first read is of wait_reason.
KillReason(p) ==
    /\ p \in Kills /\ killing = None /\ state[p] # "dead"
    /\ killing' = p /\ step' = IF object[p] # None THEN "object" ELSE "clear"
    /\ UNCHANGED <<clock, table, state, slot, object, seen, left, robbed>>

\* The second read is of wait_object.  A target that was woken in between has
\* 0 there, or the object of another wait.
KillObject ==
    /\ step = "object" /\ step' = "free"
    /\ \/ object[killing] \in Slots /\ seen' = object[killing]
       \/ /\ object[killing] = None
          /\ seen' \in Slots /\ (state[killing] # "run" => seen' = 0)
    /\ UNCHANGED <<clock, table, state, slot, object, killing, left, robbed>>

\* The three stores of timer_free, to the slot that was read.
KillFree ==
    /\ \/ step = "free" /\ step' = "low"
          /\ timerPid' = [timerPid EXCEPT ![seen] = None] /\ UNCHANGED until
       \/ step = "low" /\ step' = "high"
          /\ until' = [until EXCEPT ![seen] = @ - (@ % Low)] /\ UNCHANGED timerPid
       \/ step = "high" /\ step' = "clear"
          /\ until' = [until EXCEPT ![seen] = @ % Low] /\ UNCHANGED timerPid
    /\ robbed' = robbed \cup Holders({seen})
    /\ UNCHANGED <<clock, state, slot, object, killing, seen, left>>

\* proc_clear_wait, then the state.
KillClear ==
    /\ step = "clear" /\ step' = "zombie" /\ seen' = None
    /\ object' = [object EXCEPT ![killing] = None]
    /\ robbed' = robbed \cup {p \in {killing} : Asleep(p)}
    /\ UNCHANGED <<clock, table, state, slot, killing, left>>
KillZombie ==
    /\ step = "zombie" /\ step' = "none"
    /\ killing' = None /\ UNCHANGED seen
    /\ state' = [state EXCEPT ![killing] = "dead"] /\ left' = [left EXCEPT ![killing] = 0]
    /\ slot' = [slot EXCEPT ![killing] = None] /\ robbed' = robbed \ {killing}
    /\ UNCHANGED <<clock, table, object>>
Kill == KillObject \/ KillFree \/ KillClear \/ KillZombie

\* The process is reaped and its id given to another, both under PROC.
Reuse(p) ==
    /\ state[p] = "dead" /\ killing = None
    /\ state' = [state EXCEPT ![p] = "run"] /\ object' = [object EXCEPT ![p] = None]
    /\ UNCHANGED <<clock, table, slot, kill, left, robbed>>

Sleep(p) == (\E d \in 1 .. MaxSleep : Start(p, d)) \/ Commit(p)

Next ==
    \/ \E p \in Pids : Sleep(p) \/ Interrupt(p) \/ KillReason(p) \/ Reuse(p)
    \/ Kill \/ Scan \/ Tick

Spec == Init /\ [][Next]_vars
FairSpec ==
    Spec /\ WF_vars(Tick) /\ WF_vars(Scan) /\ WF_vars(Kill) /\ \A p \in Pids : WF_vars(Commit(p))

(***************************************************************************)
(* Properties.                                                             *)
(***************************************************************************)
\* The variables of the timers have their types.
TypeOK ==
    /\ ticks \in 0 .. Wrap - 1 /\ lag \in 0 .. MaxLag
    /\ timerPid \in [Slots -> Pids \cup {None}] /\ until \in [Slots -> 0 .. Wrap - 1]
    /\ state \in [Pids -> {"run", "armed", "blocked", "dead"}]
    /\ slot \in [Pids -> Slots \cup {None}] /\ object \in [Pids -> Slots \cup {None}]
    /\ left \in [Pids -> 0 .. MaxSleep] /\ robbed \subseteq Pids
    /\ killing \in Pids \cup {None} /\ seen \in Slots \cup {None}
    /\ step \in {"none", "object", "free", "low", "high", "clear", "zombie"}
    /\ killing \in Pids <=> step # "none"
    /\ step \in {"free", "low", "high"} => seen \in Slots
    /\ \A p \in Pids : state[p] = "armed" => slot[p] \in Slots

\* sched_block_current never blocks a process on a dead slot: a process blocked
\* on WAIT_TIMER has the slot in its wait_object to itself, however the arming,
\* the scans, the deaths and the other sleepers are interleaved, unless a
\* SIG_KILL has written to that very slot.
SleeperHasTimer ==
    \A p \in Pids \ robbed : state[p] = "blocked" =>
        object[p] \in Slots /\ timerPid[object[p]] = p

\* A sleep returns when its time is over and not before, across the wrap of the
\* counter, a slot that outlives a killed process, and the reuse of its id,
\* unless a SIG_KILL has written to its slot.
NeverEarly ==
    [][\A p \in Pids \ robbed :
          state[p] \in {"armed", "blocked"} /\ state'[p] = "run" => left[p] = 0]_vars

\* A scan leaves nobody asleep whose time is over and whose slot no SIG_KILL has
\* written to: an expired slot is never taken for one in the future, however
\* late the scan is within its bound.
ScanWakesDue ==
    [][lag' = 0 /\ lag # 0 =>
          \A p \in Pids \ robbed : state'[p] = "blocked" => left[p] > 0]_vars

\* While no SIG_KILL is under way and every sleeper has its slot, nobody loses
\* one: the signal phase frees the slot of the process it ends and no other.
DeathFreesItsOwn == [][robbed = {} /\ killing = None => robbed' = {}]_vars

\* Every sleeper is woken or ended, except one whose slot a SIG_KILL of another
\* process has written to; the target of a SIG_KILL does end.
SleepersWake ==
    \A p \in Pids : state[p] \in {"armed", "blocked"} ~>
        state[p] \in {"run", "dead"} \/ p \in robbed \ {killing}

\* "wait_object[pid] stores the timer slot index.  timer_pid[slot] stores the
\* PID attached to that slot": nobody waits on a slot that is not his, except
\* a process that is just being killed.
NoDeadWait ==
    \A p \in Pids \ {killing} : state[p] = "blocked" =>
        object[p] \in Slots /\ timerPid[object[p]] = p
=============================================================================
