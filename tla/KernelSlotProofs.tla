-------------------------- MODULE KernelSlotProofs --------------------------
(***************************************************************************)
(* Process slots, the RP mailbox and the signal phase: what holds for      *)
(* every choice of calls and signals, KILL included.  The invariant of     *)
(* KernelProofs is strengthened by what the holder of PROC knows about its *)
(* target.                                                                 *)
(***************************************************************************)
EXTENDS KernelProofs

(***************************************************************************)
(* What a scheduler pass does to a row: it dies of a default INT, or it    *)
(* stops, or it is woken, started, resumed or preempted.                   *)
(***************************************************************************)
Active == {"READY", "RUNNING"}

Survives(r, s, stops) ==
    /\ r.state \in Dead => s.state = r.state
    /\ s.state \in Dead => r.state = s.state
    /\ s.state = "BLOCKED" => r.state = "BLOCKED" /\ s.reason = r.reason /\ s.object = r.object
    /\ s.state = "STOPPED" => r.state = "STOPPED" \/ stops
    /\ s.state = "NEW" => r.state = "NEW"
    /\ r.state = "BLOCKED" /\ r.reason \in {"LOCK", "RP"} => s.state = "BLOCKED"
    /\ r.state \in Active /\ ~stops => s.state \in Active

RowAfter(r, s, dies, stops) ==
    /\ s \in Row
    /\ s.parent = r.parent /\ s.catch = r.catch /\ s.pending \in {r.pending, NoSignal}
    /\ IF dies THEN s.state = "ZOMBIE" ELSE Survives(r, s, stops)

LEMMA UnwaitedRow ==
    ASSUME NEW row \in Row, NEW s \in State
    PROVE  LET u == Unwaited(row, s) IN
           /\ u \in Row /\ u.state = s /\ u.parent = row.parent
           /\ u.catch = row.catch /\ u.pending = row.pending
BY Constants DEF Unwaited, Row, Reason

\* The signal phase on one row.
LEMMA SignalRow ==
    ASSUME NEW old \in Row, NEW dies \in BOOLEAN, NEW wakes \in BOOLEAN, NEW stops \in BOOLEAN,
           wakes => old.state = "BLOCKED" /\ old.reason \notin {"LOCK", "RP"},
           stops => wakes \/ old.state \in {"NEW", "READY", "RUNNING"}
    PROVE  RowAfter(old, AfterSignal(old, dies, wakes, stops), dies, stops)
<1> DEFINE row == IF wakes THEN Unwaited(old, "READY") ELSE old
           quiet(r) == [r EXCEPT !.pending = NoSignal]
<1>1. /\ row \in Row /\ row.parent = old.parent /\ row.catch = old.catch
      /\ row.pending = old.pending /\ row.state = IF wakes THEN "READY" ELSE old.state
      /\ ~wakes => row = old
  BY UnwaitedRow DEF State
<1>2. \A r \in Row : /\ quiet(r) \in Row /\ quiet(r).state = r.state /\ quiet(r).reason = r.reason
                     /\ quiet(r).object = r.object /\ quiet(r).parent = r.parent
                     /\ quiet(r).catch = r.catch /\ quiet(r).pending = NoSignal
  BY DEF Row, NoSignal
<1>3. \A s \in State : LET u == Unwaited(row, s) IN
         /\ u \in Row /\ u.state = s /\ u.parent = row.parent
         /\ u.catch = row.catch /\ u.pending = row.pending
  BY <1>1, UnwaitedRow
<1> HIDE DEF row, quiet
<1>4. AfterSignal(old, dies, wakes, stops) =
         CASE dies -> quiet(Unwaited(row, "ZOMBIE"))
           [] ~dies /\ stops -> quiet(Unwaited(row, "STOPPED"))
           [] ~dies /\ ~stops /\ row.pending = "CONT" ->
                 quiet(IF row.state = "STOPPED" THEN Unwaited(row, "READY") ELSE row)
           [] OTHER -> row
  BY DEF AfterSignal, row, quiet
<1>5. CASE dies  BY <1>1, <1>2, <1>3, <1>4, <1>5 DEF RowAfter, State
<1>6. CASE ~dies /\ stops
  BY <1>1, <1>2, <1>3, <1>4, <1>6 DEF RowAfter, Survives, State, Dead
<1>7. CASE ~dies /\ ~stops /\ row.pending = "CONT"
  <2>1. CASE row.state = "STOPPED"
    BY <1>1, <1>2, <1>3, <1>4, <1>7, <2>1 DEF RowAfter, Survives, State, Dead, Active
  <2>2. CASE row.state # "STOPPED"
    BY <1>1, <1>2, <1>4, <1>7, <2>2 DEF RowAfter, Survives, Dead, Active
  <2> QED  BY <2>1, <2>2
<1>8. CASE ~dies /\ ~stops /\ row.pending # "CONT"
  BY <1>1, <1>4, <1>8 DEF RowAfter, Survives, Dead, Active
<1> QED  BY <1>5, <1>6, <1>7, <1>8

----------------------------------------------------------------------------
(***************************************************************************)
(* The whole pass over table T and lines L: the processes in D die.        *)
(***************************************************************************)
Owners == {gate_owner'[g] : g \in Gate}

Settled(T, L, D) ==
    /\ D \subseteq SigDies(T, Owners)
    /\ \A q \in Task :
          RowAfter(T[q], proc'[q], q \in D, T[q].pending = "STOP" /\ q \notin Owners)
    /\ wait_line' = [g \in Gate |-> Unlink(L[g], D)]

LEMMA WakeAllRows ==
    ASSUME NEW T \in Table, NEW S,
           \A q \in S \cap Task : T[q].state = "BLOCKED" /\ T[q].reason \notin {"LOCK", "RP"}
    PROVE  /\ WakeAll(T, S) \in Table
           /\ \A q \in Task : /\ RowAfter(T[q], WakeAll(T, S)[q], FALSE, FALSE)
                              /\ WakeAll(T, S)[q].pending = T[q].pending
           /\ \A own : SigDies(WakeAll(T, S), own) = SigDies(T, own)
<1>1. \A q \in Pid : LET u == Unwaited(T[q], "READY") IN
         /\ u \in Row /\ u.state = "READY" /\ u.parent = T[q].parent
         /\ u.catch = T[q].catch /\ u.pending = T[q].pending
  BY UnwaitedRow DEF Table, State
<1>2. \A q \in Pid : WakeAll(T, S)[q] = IF q \in S THEN Unwaited(T[q], "READY") ELSE T[q]
  BY DEF WakeAll
<1>3. WakeAll(T, S) \in Table  BY <1>1 DEF WakeAll, Table
<1>4. \A q \in Task : /\ RowAfter(T[q], WakeAll(T, S)[q], FALSE, FALSE)
                      /\ WakeAll(T, S)[q].pending = T[q].pending
  BY <1>1, <1>2, Constants DEF RowAfter, Survives, Table, Dead, Active
<1>5. \A own : SigDies(WakeAll(T, S), own) = SigDies(T, own)
  <2>1. \A q \in Task : /\ WakeAll(T, S)[q].pending = T[q].pending
                        /\ WakeAll(T, S)[q].catch = T[q].catch
                        /\ WakeAll(T, S)[q].state \in Dead <=> T[q].state \in Dead
    BY <1>4 DEF RowAfter, Survives
  <2> QED  BY <2>1 DEF SigDies
<1> QED  BY <1>3, <1>4, <1>5

LEMMA SignalRows ==
    ASSUME NEW T \in Table, NEW own
    PROVE  /\ ApplySignals(T, own) \in Table
           /\ \A q \in Task : RowAfter(T[q], ApplySignals(T, own)[q], q \in SigDies(T, own),
                                       T[q].pending = "STOP" /\ q \notin own)
<1> DEFINE d == SigDies(T, own)
           w == SigWakes(T, own)
           s == SigStops(T, own)
           after(q) == AfterSignal(T[q], q \in d, q \in w, q \in s)
<1>1. \A q \in Task : T[q] \in Row  BY Constants DEF Table
<1>2. \A q \in w : T[q].state = "BLOCKED" /\ T[q].reason \notin {"LOCK", "RP"}
  BY DEF SigWakes, BlockedOn
<1>3. \A q \in s : /\ q \in w \/ T[q].state \in {"NEW", "READY", "RUNNING"}
                   /\ T[q].pending = "STOP" /\ q \notin own
  BY DEF SigStops
<1>4. \A q \in Task : RowAfter(T[q], after(q), q \in d, q \in s)
  <2> TAKE q \in Task
  <2>1. (q \in d) \in BOOLEAN /\ (q \in w) \in BOOLEAN /\ (q \in s) \in BOOLEAN  OBVIOUS
  <2> HIDE DEF d, w, s
  <2> QED  BY <1>1, <1>2, <1>3, <2>1, SignalRow
<1>5. ApplySignals(T, own) = [q \in Pid |-> IF q = Idle THEN T[q] ELSE after(q)]
  BY DEF ApplySignals
<1>6. ApplySignals(T, own) \in Table
  <2>1. Follows(T, T)  BY DEF Follows
  <2> QED  BY <2>1, ApplySignalsTame DEF Follows
<1> HIDE DEF after, d, w, s
<1>7. \A q \in Task : ApplySignals(T, own)[q] = after(q)  BY <1>5, Constants
<1>8. \A q \in Task : RowAfter(T[q], after(q), q \in d, T[q].pending = "STOP" /\ q \notin own)
  BY <1>3, <1>4 DEF RowAfter, Survives
<1> QED  BY <1>6, <1>7, <1>8 DEF d

LEMMA RunRows ==
    ASSUME NEW T \in Table, NEW n \in Pid, NEW c, IsNext(T, c, n)
    PROVE  /\ SetRunning(T, n) \in Table
           /\ SetRunning(T, n)[n].state = "RUNNING"
           /\ \A q \in Task : RowAfter(T[q], SetRunning(T, n)[q], FALSE, FALSE)
<1>1. n \in Task => T[n].state \in {"NEW", "READY", "RUNNING"}
  BY Constants DEF IsNext, Runnable
<1> DEFINE in(q, x) == [T[q] EXCEPT !.state = x]
<1>2. \A q \in Task, x \in State :
         /\ in(q, x) \in Row /\ in(q, x).state = x /\ in(q, x).parent = T[q].parent
         /\ in(q, x).catch = T[q].catch /\ in(q, x).pending = T[q].pending
  BY Constants DEF Table, Row
<1>3. \A q \in Task : SetRunning(T, n)[q] =
         IF q = n THEN in(q, "RUNNING")
         ELSE IF T[q].state = "RUNNING" THEN in(q, "READY") ELSE T[q]
  BY Constants DEF SetRunning
<1> HIDE DEF in
<1>4. \A q \in Task : RowAfter(T[q], SetRunning(T, n)[q], FALSE, FALSE)
  <2> TAKE q \in Task
  <2>1. CASE q = n
    BY <1>1, <1>2, <1>3, <2>1 DEF RowAfter, Survives, State, Dead, Active
  <2>2. CASE q # n /\ T[q].state = "RUNNING"
    BY <1>2, <1>3, <2>2 DEF RowAfter, Survives, State, Dead, Active
  <2>3. CASE q # n /\ T[q].state # "RUNNING"
    BY <1>3, <2>3, Constants DEF RowAfter, Survives, Table
  <2> QED  BY <2>1, <2>2, <2>3
<1> QED  BY <1>4, SetRunningRows

LEMMA DispatchSettled ==
    ASSUME NEW T \in Table, NEW L \in [Gate -> Line], NEW con, NEW pcs,
           gate_owner' \in [Gate -> Pid \cup {Nobody}], Dispatch(T, L, gate_owner', con, pcs)
    PROVE  /\ Settled(T, L, SigDies(T, Owners))
           /\ active_pid' \in Pid /\ proc'[active_pid'].state = "RUNNING"
<1>1. PICK S : /\ Select(T, L, gate_owner', pcs, S)
               /\ \A q \in S \cap Task : T[q].state = "BLOCKED" /\ T[q].reason \notin {"LOCK", "RP"}
  BY DEF Dispatch, BlockedOn
<1> DEFINE woken == WakeAll(T, S)
           table == ApplySignals(woken, Owners)
<1>2. PICK n \in Pid :
         /\ IsNext(table, sched_cursor, n)
         /\ proc' = SetRunning(table, n)
         /\ wait_line' = [g \in Gate |-> Unlink(L[g], SigDies(woken, Owners))]
         /\ active_pid' = n
  BY <1>1, Zenon DEF Select, Owners
<1>3. /\ woken \in Table
      /\ \A q \in Task : /\ RowAfter(T[q], woken[q], FALSE, FALSE)
                         /\ woken[q].pending = T[q].pending
      /\ SigDies(woken, Owners) = SigDies(T, Owners)
  BY <1>1, WakeAllRows
<1> HIDE DEF woken
<1>4. /\ table \in Table
      /\ \A q \in Task : RowAfter(woken[q], table[q], q \in SigDies(T, Owners),
                                  T[q].pending = "STOP" /\ q \notin Owners)
  <2>1. \A q \in Task : RowAfter(woken[q], table[q], q \in SigDies(woken, Owners),
                                 woken[q].pending = "STOP" /\ q \notin Owners)
    BY <1>3, SignalRows
  <2>2. table \in Table  BY <1>3, SignalRows
  <2> HIDE DEF table
  <2> QED  BY <1>3, <2>1, <2>2
<1> HIDE DEF table
<1>5. /\ proc' \in Table /\ proc'[n].state = "RUNNING"
      /\ \A q \in Task : RowAfter(table[q], proc'[q], FALSE, FALSE)
  <2>1. IsNext(table, sched_cursor, n) /\ proc' = SetRunning(table, n)  BY <1>2
  <2> QED  BY <1>4, <2>1, RunRows
<1>6. \A q \in Task : RowAfter(T[q], proc'[q], q \in SigDies(T, Owners),
                               T[q].pending = "STOP" /\ q \notin Owners)
  <2> TAKE q \in Task
  <2> DEFINE dies == q \in SigDies(T, Owners)
             stops == T[q].pending = "STOP" /\ q \notin Owners
  <2>3. RowAfter(T[q], woken[q], FALSE, FALSE) /\ RowAfter(woken[q], table[q], dies, stops)
    BY <1>3, <1>4
  <2>4. RowAfter(T[q], table[q], dies, stops)  BY <2>3 DEF RowAfter, Survives, Dead, Active
  <2>5. RowAfter(table[q], proc'[q], FALSE, FALSE)  BY <1>5
  <2>6. RowAfter(T[q], proc'[q], dies, stops)
    BY <2>4, <2>5 DEF RowAfter, Survives, Dead, Active
  <2> QED  BY <2>6
<1> QED  BY <1>2, <1>3, <1>5, <1>6 DEF Settled

\* Without a pass nobody dies and no row changes further.
LEMMA ContinueSettled ==
    ASSUME NEW T \in Table, NEW L \in [Gate -> Line], proc' = T, wait_line' = L
    PROVE  Settled(T, L, {})
<1>1. \A q \in Task : T[q] \in Row  BY Constants DEF Table
<1>2. \A q \in Task : RowAfter(T[q], proc'[q], q \in {}, T[q].pending = "STOP" /\ q \notin Owners)
  BY <1>1 DEF RowAfter, Survives
<1>3. \A g \in Gate : Unlink(L[g], {}) = L[g]  BY DEF Unlink
<1> QED  BY <1>2, <1>3 DEF Settled

----------------------------------------------------------------------------
(***************************************************************************)
(* The strengthened invariant.                                             *)
(***************************************************************************)
Collecting == {"f_col", "x_col", "t_col", "p_col"}
Term == {"t_facq", "t_close", "t_col", "t_empty"}
Kill == {"k_clear", "k_cancel", "k_zombie", "k_parent", "k_wake"}

\* The labels at which a call works on its own slot, and those at which it
\* works on a slot that it has found in use.
OnSelf == {"new", "user", "f_acq", "f_req", "f_col", "c_acq", "c_chk", "c_blk",
           "x_acq", "x_life", "x_facq", "x_close", "x_col", "x_zomb", "x_parent", "x_wake"}
Pinned == Term \cup Kill \cup {"w_wait"}

\* A request or an answer in the mailbox belongs to a FILE_IO owner that
\* will collect it.
Mailbox == rp # "IDLE" => \E p \in Task : pc[p] \in Collecting

OwnTarget  == \A p \in Task : pc[p] \in OnSelf => tgt(p) = p
TargetLive == \A p \in Task : pc[p] \in Pinned => proc[tgt(p)].state # "EMPTY"
WakeLive ==
    \A p \in Task : pc[p] = "k_wake" =>
        LET q == proc[tgt(p)].parent IN q \in Task /\ proc[q].state # "EMPTY"
Built == \A p \in Task : pc[p] \in Filling => proc[tgt(p)].state = "EMPTY"

\* A slot that is being emptied has no descriptors left, and nobody but its
\* own process can give it new ones: that process is a zombie.
Closed == \A p \in Task : pc[p] = "t_empty" => fds[tgt(p)] = "none"
Reaped == \A p \in Task : pc[p] \in Term => tgt(p) = p \/ proc[tgt(p)].state = "ZOMBIE"

\* A zombie that still has the CPU is about to give it up for good.
KillByte == \A p \in Task : pc[p] \in Kill /\ tgt(p) = p => self_kill
Doomed(p) ==
    \/ pc[p] \in {"x_parent", "x_wake", "x_rel"}
    \/ pc[p] \in {"k_parent", "k_wake"} /\ tgt(p) = p
    \/ pc[p] = "s_ret" /\ self_kill
DoomedCaller == active_pid \in Task /\ proc[active_pid].state = "ZOMBIE" => Doomed(active_pid)

\* Exit tests whether its parent waits, and wakes it, with IRQs enabled.  Its
\* caller is a zombie by then, so it has the CPU only if there was no pass
\* since the test: the parent still waits for it.
AtExit == {"x_parent", "x_wake"}
Waited(p) == WaitsFor(proc[p].parent, p)
ExitedDead == \A p \in Task : pc[p] \in AtExit => proc[p].state = "ZOMBIE"
WakeSure == \A p \in Task : p = active_pid /\ pc[p] = "x_wake" => Waited(p)

NotStopped ==
    \A p \in Task : proc[p].state = "STOPPED" => p # active_pid /\ \A g \in Gate : gate_owner[g] # p

Slots == OwnTarget /\ TargetLive /\ WakeLive /\ Built /\ SlotsAccounted
Fates == Closed /\ Reaped /\ KillByte /\ DoomedCaller /\ ExitedDead /\ WakeSure /\ NotStopped
SlotInv == Inv /\ Mailbox /\ Slots /\ Fates

\* What a step may do to a gate owner: only the exit, the reap or the KILL of
\* exactly that process ends it.
OwnersLive ==
    \A q \in Task : q \in Owners /\ proc[q].state \notin Dead /\ proc'[q].state \in Dead =>
        \E k \in Task : tgt(k) = q /\ \E l \in {"x_zomb", "t_empty", "k_zombie"} : At(k, l)

\* What a step may do to a zombie: only the late wake of a KILL revives it.
ZombiesStay ==
    \A q \in Task : proc[q].state = "ZOMBIE" /\ proc'[q].state \notin Dead =>
        \E k \in Task : At(k, "k_wake") /\ proc[tgt(k)].parent = q

LifeStep == OwnersLive /\ ZombiesStay

LEMMA LabelSets ==
    /\ Filling \subseteq HoldsProc /\ Pinned \subseteq HoldsProc /\ Collecting \subseteq HoldsFileIO
    /\ \A l \in {"new", "wild", "none"} :
          l \notin Pinned \cup Filling \cup Collecting \cup HoldsProc \cup HoldsFileIO
    /\ "user" \notin Pinned \cup Filling \cup Collecting \cup HoldsProc \cup HoldsFileIO
    /\ "user" \in OnSelf /\ "wild" \notin OnSelf /\ "none" \notin OnSelf
    /\ AtExit \subseteq HoldsProc /\ "user" \notin AtExit /\ "new" \notin AtExit
    /\ "wild" \notin AtExit /\ "none" \notin AtExit
    /\ Term \subseteq Pinned /\ Kill \subseteq Pinned /\ "t_empty" \in Term /\ "k_wake" \in Kill
    /\ Pinned \cap Filling = {} /\ Collecting \cap {"f_req", "x_close", "t_close", "p_clone"} = {}
BY DEF Filling, Pinned, Collecting, HoldsProc, HoldsFileIO, Term, Kill, OnSelf, AtExit

\* Two processes are never both inside PROC's code, nor inside FILE_IO's.
LEMMA Mutex ==
    ASSUME Inv, NEW p \in Task, NEW q \in Task,
           \/ pc[p] \in HoldsProc /\ pc[q] \in HoldsProc
           \/ pc[p] \in HoldsFileIO /\ pc[q] \in HoldsFileIO
    PROVE  p = q
<1>1. Holds(Proc) = HoldsProc /\ Holds(FileIO) = HoldsFileIO  BY Constants DEF Holds
<1> QED  BY <1>1, Constants DEF Inv, HolderOwns

----------------------------------------------------------------------------
(***************************************************************************)
(* Steps that keep the slots in use.  p moves to label to; an interrupt is *)
(* a step of nobody (p = Idle).                                            *)
(***************************************************************************)
Goes(p, to) ==
    \A q \in Task : IF q = p THEN pc'[q] = to
                    ELSE pc'[q] = pc[q] \/ (pc[q] = "new" /\ pc'[q] \in {"user", "wild"})

ArgsStay(p) == \A q \in Task \ {p} : arg'[q] = arg[q]

SameSlots ==
    \A q \in Task : /\ proc'[q].state = "EMPTY" <=> proc[q].state = "EMPTY"
                    /\ proc'[q].parent = proc[q].parent

\* What p may assume of its target at its new label.
TargetFits(p, from, to) ==
    p \in Task =>
        /\ to \in OnSelf => arg'[p].pid = p
        /\ to \in Pinned => proc[arg'[p].pid].state # "EMPTY"
        /\ to = "k_wake" => LET q == proc[arg'[p].pid].parent IN
                            q \in Task /\ proc[q].state # "EMPTY"
        /\ to \in Filling <=> from \in Filling
        /\ to \in Filling => arg'[p].pid = arg[p].pid

\* Descriptors come and go only in slots that are in use or being built.
HoldingsFit ==
    /\ UNCHANGED context_owner
    /\ \A t \in Task : fds'[t] = fds[t] \/ proc[t].state # "EMPTY" \/ t \in Building

LEMMA MailStep ==
    ASSUME SlotInv, NEW p \in Pid, NEW from, NEW to, Goes(p, to),
           p \in Task => pc[p] = from,
           \/ rp' = "IDLE"
           \/ p \in Task /\ to \in Collecting
           \/ from \notin Collecting /\ (rp = "IDLE" => rp' = "IDLE")
    PROVE  Mailbox'
<1>1. SUFFICES ASSUME rp' # "IDLE" PROVE \E q \in Task : pc'[q] \in Collecting
  BY DEF Mailbox
<1>2. CASE p \in Task /\ to \in Collecting  BY <1>2 DEF Goes
<1>3. CASE from \notin Collecting /\ (rp = "IDLE" => rp' = "IDLE")
  <2>1. PICK q \in Task : pc[q] \in Collecting  BY <1>1, <1>3 DEF SlotInv, Mailbox
  <2>2. q # p /\ pc[q] # "new"  BY <1>3, <2>1, LabelSets
  <2> QED  BY <2>1, <2>2 DEF Goes
<1> QED  BY <1>1, <1>2, <1>3

LEMMA BuildingSame ==
    ASSUME SlotInv, NEW p \in Pid, NEW from, NEW to, Goes(p, to), ArgsStay(p),
           p \in Task => pc[p] = from, TargetFits(p, from, to)
    PROVE  Building' = Building
<1>1. \A q \in Task : pc'[q] \in Filling <=> pc[q] \in Filling
  BY LabelSets DEF Goes, TargetFits
<1>2. \A q \in Task : pc[q] \in Filling => arg'[q].pid = arg[q].pid
  BY DEF ArgsStay, TargetFits
<1>3. Building = {arg[q].pid : q \in {r \in Task : pc[r] \in Filling}}
  BY DEF Building, tgt, Filling
<1>4. Building' = {arg'[q].pid : q \in {r \in Task : pc'[r] \in Filling}}
  BY DEF Building, tgt, Filling
<1> QED  BY <1>1, <1>2, <1>3, <1>4

LEMMA SlotStep ==
    ASSUME SlotInv, Inv', NEW p \in Pid, NEW from, NEW to, Goes(p, to), ArgsStay(p),
           p \in Task => pc[p] = from, SameSlots, TargetFits(p, from, to), HoldingsFit
    PROVE  Slots'
<1>0. /\ \A q \in Task : arg[q].pid \in Task /\ arg'[q].pid \in Task
      /\ proc \in [Pid -> Row]
  BY DEF SlotInv, Inv, TypeOK, Arg
<1>1. OwnTarget'
  <2>1. SUFFICES ASSUME NEW q \in Task, pc'[q] \in OnSelf PROVE arg'[q].pid = q
    BY DEF OwnTarget, tgt
  <2>2. CASE q = p  BY <2>1, <2>2 DEF Goes, TargetFits
  <2>3. CASE q # p
    <3>1. pc[q] \in OnSelf  BY <2>1, <2>3, LabelSets DEF Goes, OnSelf
    <3> QED  BY <2>3, <3>1 DEF ArgsStay, SlotInv, Slots, OwnTarget, tgt
  <2> QED  BY <2>2, <2>3
<1>2. TargetLive'
  <2>1. SUFFICES ASSUME NEW q \in Task, pc'[q] \in Pinned PROVE proc'[arg'[q].pid].state # "EMPTY"
    BY DEF TargetLive, tgt
  <2>2. CASE q = p  BY <1>0, <2>1, <2>2 DEF Goes, TargetFits, SameSlots
  <2>3. CASE q # p
    <3>1. pc[q] \in Pinned  BY <2>1, <2>3, LabelSets DEF Goes
    <3> QED  BY <1>0, <2>3, <3>1 DEF ArgsStay, SameSlots, SlotInv, Slots, TargetLive, tgt
  <2> QED  BY <2>2, <2>3
<1>3. WakeLive'
  <2>1. SUFFICES ASSUME NEW q \in Task, pc'[q] = "k_wake"
                 PROVE  LET r == proc'[arg'[q].pid].parent IN
                        r \in Task /\ proc'[r].state # "EMPTY"
    BY DEF WakeLive, tgt
  <2>2. CASE q = p  BY <1>0, <2>1, <2>2 DEF Goes, TargetFits, SameSlots
  <2>3. CASE q # p
    <3>1. pc[q] = "k_wake"  BY <2>1, <2>3 DEF Goes
    <3> QED  BY <1>0, <2>3, <3>1 DEF ArgsStay, SameSlots, SlotInv, Slots, WakeLive, tgt
  <2> QED  BY <2>2, <2>3
<1>4. Built'
  <2>1. SUFFICES ASSUME NEW q \in Task, pc'[q] \in Filling PROVE proc'[arg'[q].pid].state = "EMPTY"
    BY DEF Built, tgt
  <2>2. pc[q] \in Filling /\ arg'[q].pid = arg[q].pid
    BY <2>1, LabelSets DEF Goes, TargetFits, ArgsStay
  <2> QED  BY <1>0, <2>2 DEF SameSlots, SlotInv, Slots, Built, tgt
<1>5. SlotsAccounted'
  <2>1. Building' = Building  BY BuildingSame
  <2> QED  BY <2>1 DEF SameSlots, HoldingsFit, SlotInv, Slots, SlotsAccounted
<1> QED  BY <1>1, <1>2, <1>3, <1>4, <1>5 DEF Slots

(***************************************************************************)
(* The same for the fates of the processes.                                *)
(***************************************************************************)
Alone(p) == \A q \in Task \ {p} : pc[q] \notin HoldsProc

FateFits(p, to) ==
    /\ Alone(p) \/ \A t \in Task : proc[t].state = "ZOMBIE" => proc'[t].state = "ZOMBIE"
    /\ Alone(p) \/ \A t \in Task : fds'[t] = fds[t] \/ (t = p /\ proc[t].state # "ZOMBIE")
    /\ Alone(p) \/ UNCHANGED self_kill
    /\ p \in Task =>
          /\ to \in Term => arg'[p].pid = p \/ proc'[arg'[p].pid].state = "ZOMBIE"
          /\ to = "t_empty" => fds'[arg'[p].pid] = "none"
          /\ to \in Kill /\ arg'[p].pid = p => self_kill'
          /\ to \in AtExit => proc'[p].state = "ZOMBIE"

\* Nobody that owns a gate or has the CPU is stopped, and a zombie has the
\* CPU only on its way out.
ActiveFits(p) ==
    /\ p \in Task => active_pid = p
    /\ \A q \in Task : q \in Owners /\ proc'[q].state = "STOPPED" => proc[q].state = "STOPPED"
    /\ \/ proc'[active_pid'].state = "RUNNING"
       \/ /\ active_pid' = active_pid
          /\ active_pid \in Task =>
                /\ proc'[active_pid].state = "STOPPED" => proc[active_pid].state = "STOPPED"
                /\ proc'[active_pid].state = "ZOMBIE" => Doomed(active_pid)'
          /\ \A q \in Task : q = active_pid /\ pc'[q] = "x_wake" => Waited(q)'

LEMMA FateStep ==
    ASSUME SlotInv, Inv', NEW p \in Pid, NEW to, Goes(p, to), ArgsStay(p),
           FateFits(p, to), ActiveFits(p)
    PROVE  Fates'
<1>0. \A q \in Task : arg[q].pid \in Task /\ arg'[q].pid \in Task
  BY DEF SlotInv, Inv, TypeOK, Arg
<1>1. Closed'
  <2>1. SUFFICES ASSUME NEW q \in Task, pc'[q] = "t_empty" PROVE fds'[arg'[q].pid] = "none"
    BY DEF Closed, tgt
  <2>2. CASE q = p  BY <2>1, <2>2 DEF Goes, FateFits
  <2>3. CASE q # p
    <3>1. pc[q] = "t_empty" /\ arg'[q] = arg[q]  BY <2>1, <2>3 DEF Goes, ArgsStay
    <3>2. ~Alone(p)  BY <2>3, <3>1, LabelSets DEF Alone
    <3>3. /\ fds[arg[q].pid] = "none"
          /\ arg[q].pid = q \/ proc[arg[q].pid].state = "ZOMBIE"
      BY <3>1, LabelSets DEF SlotInv, Fates, Closed, Reaped, tgt
    <3> QED  BY <1>0, <2>3, <3>1, <3>2, <3>3 DEF FateFits
  <2> QED  BY <2>2, <2>3
<1>2. Reaped'
  <2>1. SUFFICES ASSUME NEW q \in Task, pc'[q] \in Term
                 PROVE  arg'[q].pid = q \/ proc'[arg'[q].pid].state = "ZOMBIE"
    BY DEF Reaped, tgt
  <2>2. CASE q = p  BY <2>1, <2>2 DEF Goes, FateFits
  <2>3. CASE q # p
    <3>1. pc[q] \in Term /\ arg'[q] = arg[q]  BY <2>1, <2>3, LabelSets DEF Goes, ArgsStay
    <3>2. ~Alone(p)  BY <2>3, <3>1, LabelSets DEF Alone
    <3> QED  BY <1>0, <3>1, <3>2 DEF FateFits, SlotInv, Fates, Reaped, tgt
  <2> QED  BY <2>2, <2>3
<1>3. KillByte'
  <2>1. SUFFICES ASSUME NEW q \in Task, pc'[q] \in Kill, arg'[q].pid = q PROVE self_kill'
    BY DEF KillByte, tgt
  <2>2. CASE q = p  BY <2>1, <2>2 DEF Goes, FateFits
  <2>3. CASE q # p
    <3>1. pc[q] \in Kill /\ arg'[q] = arg[q]  BY <2>1, <2>3, LabelSets DEF Goes, ArgsStay
    <3>2. ~Alone(p)  BY <2>3, <3>1, LabelSets DEF Alone
    <3> QED  BY <2>1, <3>1, <3>2 DEF FateFits, SlotInv, Fates, KillByte, tgt
  <2> QED  BY <2>2, <2>3
<1>4. DoomedCaller'  BY DEF ActiveFits, DoomedCaller, Doomed, tgt
<1>5. NotStopped'
  <2>1. SUFFICES ASSUME NEW q \in Task, proc'[q].state = "STOPPED"
                 PROVE  q # active_pid' /\ \A g \in Gate : gate_owner'[g] # q
    BY DEF NotStopped
  <2>2. q # active_pid'  BY <2>1 DEF ActiveFits, SlotInv, Fates, NotStopped
  <2>3. ASSUME NEW g \in Gate, gate_owner'[g] = q PROVE FALSE
    <3>1. proc[q].state = "STOPPED"  BY <2>1, <2>3 DEF ActiveFits, Owners
    <3>2. q # p  BY <3>1 DEF ActiveFits, SlotInv, Fates, NotStopped
    <3>3. pc'[q] \in Holds(g)  BY <2>3 DEF Inv, HolderOwns, Holds
    <3>4. pc[q] \in Holds(g)  BY <3>2, <3>3, LabelFacts DEF Goes
    <3> QED  BY <3>1, <3>4 DEF SlotInv, Fates, NotStopped, Inv, HolderOwns
  <2> QED  BY <2>2, <2>3
<1>6. ExitedDead'
  <2>1. SUFFICES ASSUME NEW q \in Task, pc'[q] \in AtExit PROVE proc'[q].state = "ZOMBIE"
    BY DEF ExitedDead
  <2>2. CASE q = p  BY <2>1, <2>2 DEF Goes, FateFits
  <2>3. CASE q # p
    <3>1. pc[q] \in AtExit  BY <2>1, <2>3, LabelSets DEF Goes
    <3>2. ~Alone(p)  BY <2>3, <3>1, LabelSets DEF Alone
    <3> QED  BY <3>1, <3>2 DEF FateFits, SlotInv, Fates, ExitedDead
  <2> QED  BY <2>2, <2>3
<1>7. WakeSure'
  <2>1. SUFFICES ASSUME NEW q \in Task, q = active_pid', pc'[q] = "x_wake" PROVE Waited(q)'
    BY DEF WakeSure
  <2>2. proc'[q].state = "ZOMBIE"  BY <1>6, <2>1 DEF ExitedDead, AtExit
  <2> QED  BY <2>1, <2>2 DEF ActiveFits
<1> QED  BY <1>1, <1>2, <1>3, <1>4, <1>5, <1>6, <1>7 DEF Fates

----------------------------------------------------------------------------
(***************************************************************************)
(* The building blocks of the actions.  X is the table that the step hands *)
(* to a wake, a wait or a scheduler pass.                                  *)
(***************************************************************************)
Like(X, T) ==
    \A q \in Task : /\ T[q].parent = X[q].parent
                    /\ T[q].state = "EMPTY" <=> X[q].state = "EMPTY"
                    /\ T[q].state = "ZOMBIE" <=> X[q].state = "ZOMBIE"
                    /\ T[q].state = "STOPPED" <=> X[q].state = "STOPPED"

Spared(X, q) == /\ proc'[q].state = "STOPPED" => X[q].state = "STOPPED"
                /\ proc'[q].state = "ZOMBIE" => X[q].state = "ZOMBIE"

Ran(p, to, X) ==
    /\ Goes(p, to)
    /\ \A q \in Task : /\ proc'[q].state = "EMPTY" <=> X[q].state = "EMPTY"
                       /\ X[q].state = "ZOMBIE" => proc'[q].state = "ZOMBIE"
                       /\ proc'[q].parent = X[q].parent
                       /\ q \in Owners => Spared(X, q)
    /\ \/ proc'[active_pid'].state = "RUNNING"
       \/ active_pid' = active_pid /\ (active_pid \in Task => Spared(X, active_pid))

LEMMA LikeWake ==
    ASSUME NEW T \in Table, NEW q
    PROVE  Like(T, Wake(T, q))
<1>1. \A r \in Task : LET u == Unwaited(T[r], "READY") IN u.state = "READY" /\ u.parent = T[r].parent
  BY UnwaitedRow, Constants DEF Table, State
<1>2. \A r \in Task : Wake(T, q)[r] = IF r = q /\ T[q].state = "BLOCKED"
                                      THEN Unwaited(T[r], "READY") ELSE T[r]
  BY Constants DEF Wake, Table
<1> QED  BY <1>1, <1>2 DEF Like

LEMMA LikeRelease ==
    ASSUME NEW T \in Table, NEW g
    PROVE  Like(T, ReleaseWake(T, g))
BY LikeWake DEF ReleaseWake, Like

LEMMA LikeDemote ==
    ASSUME NEW X, NEW T \in Table, Like(X, T), NEW p \in Pid
    PROVE  Like(X, Demote(T, p))
BY Constants DEF Like, Demote, Table, Row

LEMMA LikeSetWait ==
    ASSUME NEW T \in Table, NEW p \in Task, NEW r, NEW o,
           T[p].state \notin {"EMPTY", "ZOMBIE", "STOPPED"}
    PROVE  Like(T, SetWait(T, p, r, o))
BY Constants DEF Like, SetWait, Table, Row

LEMMA SettledRan ==
    ASSUME NEW X, NEW T \in Table, Like(X, T), NEW L, NEW D, Settled(T, L, D),
           NEW p, NEW to, Goes(p, to),
           \/ proc'[active_pid'].state = "RUNNING"
           \/ active_pid' = active_pid /\ D = {} /\ proc' = T
    PROVE  Ran(p, to, X)
<1>1. \A q \in Task : q \notin D =>
         Survives(T[q], proc'[q], T[q].pending = "STOP" /\ q \notin Owners)
  BY DEF Settled, RowAfter
<1>2. \A q \in D : q \in Task /\ T[q].state \notin Dead /\ q \notin Owners
  BY DEF Settled, SigDies
<1>3. \A q \in D : proc'[q].state = "ZOMBIE"  BY <1>2 DEF Settled, RowAfter
<1>4. \A q \in Task : proc'[q].parent = T[q].parent  BY DEF Settled, RowAfter
<1>5. ASSUME NEW q \in Task
      PROVE  /\ proc'[q].state = "EMPTY" <=> X[q].state = "EMPTY"
             /\ X[q].state = "ZOMBIE" => proc'[q].state = "ZOMBIE"
             /\ proc'[q].parent = X[q].parent
             /\ q \in Owners => Spared(X, q)
  <2>1. CASE q \in D  BY <1>2, <1>3, <1>4, <2>1 DEF Like, Dead
  <2>2. CASE q \notin D  BY <1>1, <1>4, <2>2 DEF Like, Spared, Survives, Dead
  <2> QED  BY <2>1, <2>2
<1>6. proc' = T => \A q \in Task : Spared(X, q)  BY DEF Like, Spared
<1> QED  BY <1>5, <1>6 DEF Ran

LEMMA GoesFrom ==
    ASSUME Inv, NEW p \in Task, NEW to, to # "new", Moved(Goto(p, to))
    PROVE  Goes(p, to)
BY DEF Goes, Moved, Goto, Inv, TypeOK

\* The step goes on without a pass.
LEMMA ContinueRan ==
    ASSUME Inv, NEW p \in Task, NEW T \in Table, NEW L \in [Gate -> Line], NEW con, NEW to,
           NEW X, Like(X, T), Continue(p, T, L, con, to)
    PROVE  Ran(p, to, X)
<1>1. proc' = T /\ wait_line' = L /\ active_pid' = active_pid /\ pc' = [pc EXCEPT ![p] = to]
  BY DEF Continue, cpu
<1>2. Goes(p, to)  BY <1>1 DEF Goes, Inv, TypeOK
<1> QED  BY <1>1, <1>2, ContinueSettled, SettledRan

\* The step ends in a pass.
LEMMA PassRan ==
    ASSUME Inv, Inv', NEW p \in Task, pc[p] # "new", NEW T, Tame(T), NEW L \in [Gate -> Line],
           NEW con \in Con, NEW to \in Label \ {"new"}, NEW X, Like(X, T), NEW own, gate_owner' = own,
           Dispatch(T, L, own, con, Goto(p, to))
    PROVE  Ran(p, to, X) /\ proc'[active_pid'].state = "RUNNING"
<1>1. Goes(p, to)  BY GoesFrom, DispatchGoto
<1>2. T \in Table /\ gate_owner' \in [Gate -> Pid \cup {Nobody}]  BY DEF Tame, Follows, Inv, TypeOK
<1>3. Settled(T, L, SigDies(T, Owners)) /\ proc'[active_pid'].state = "RUNNING"
  BY <1>2, DispatchSettled
<1> QED  BY <1>1, <1>2, <1>3, SettledRan

LEMMA IrqRan ==
    ASSUME Inv, Inv', NEW T, Tame(T), NEW X, Like(X, T), UNCHANGED gate_owner,
           Dispatch(T, wait_line, gate_owner, console_owner, pc)
    PROVE  Ran(Idle, "none", X)
<1>1. Moved(pc)  BY DispatchIrq
<1>2. Goes(Idle, "none")  BY <1>1, Constants DEF Goes, Moved
<1>3. T \in Table /\ gate_owner' \in [Gate -> Pid \cup {Nobody}] /\ wait_line \in [Gate -> Line]
  BY DEF Tame, Follows, Inv, TypeOK
<1>4. Settled(T, wait_line, SigDies(T, Owners)) /\ proc'[active_pid'].state = "RUNNING"
  BY <1>3, DispatchSettled
<1> QED  BY <1>2, <1>3, <1>4, SettledRan

LEMMA LocalRan ==
    ASSUME Inv, NEW p \in Task, NEW from, NEW T, Tame(T), NEW to, Local(p, from, T, to)
    PROVE  Ran(p, to, T) /\ active_pid = p /\ pc[p] = from
<1>1. T \in Table /\ wait_line \in [Gate -> Line] /\ Like(T, T)
  BY DEF Tame, Follows, Inv, TypeOK, Like
<1> QED  BY <1>1, ContinueRan DEF Local, At

LEMMA ReleaseRan ==
    ASSUME Inv, Inv', NEW p \in Task, NEW g \in Gate, NEW from \in Label \ {"new"},
           NEW to \in Label \ {"new"}, NEW T, Tame(T), NEW con \in Con, from \in Holds(g),
           Release(p, g, T, con, from, to)
    PROVE  Ran(p, to, T) /\ active_pid = p /\ pc[p] = from
<1>1. active_pid = p /\ pc[p] = from /\ p \in Pid  BY Constants DEF Release, At
<1>2. gate_owner[g] = p  BY <1>1 DEF Inv, HolderOwns
<1>3. T \in Table /\ Tame(ReleaseWake(T, g)) /\ ReleaseLine(g) \in [Gate -> Line]
  BY ReleaseTame DEF Tame, Follows
<1>4. Like(T, ReleaseWake(T, g))  BY <1>3, LikeRelease
<1>5. ReleaseWake(T, g) \in Table  BY <1>3 DEF Tame, Follows
<1>6. CASE Continue(p, ReleaseWake(T, g), ReleaseLine(g), con, to)
  BY <1>1, <1>3, <1>4, <1>5, <1>6, ContinueRan
<1>7. CASE /\ gate_owner' = [gate_owner EXCEPT ![g] = Nobody]
           /\ Dispatch(Demote(ReleaseWake(T, g), p), ReleaseLine(g),
                       [gate_owner EXCEPT ![g] = Nobody], con, Goto(p, to))
  <2>1. Tame(Demote(ReleaseWake(T, g), p)) /\ Like(T, Demote(ReleaseWake(T, g), p))
    BY <1>1, <1>3, <1>4, <1>5, DemoteTame, LikeDemote DEF Tame
  <2> QED  BY <1>1, <1>3, <1>7, <2>1, PassRan
<1> QED  BY <1>1, <1>2, <1>6, <1>7 DEF Release

\* A step that makes its caller wait needs a caller that can.
Able(p) == proc[p].state \notin {"EMPTY", "ZOMBIE", "STOPPED"}

LEMMA AcquireRan ==
    ASSUME Inv, Inv', NEW p \in Task, NEW g \in Gate, NEW from \in Label \ {"new"}, NEW retry \in Label \ {"new"},
           NEW to, NEW refused, from \notin Holds(g), Able(p), Acquire(p, g, from, retry, to, refused)
    PROVE  (Ran(p, to, proc) \/ Ran(p, retry, proc)) /\ active_pid = p /\ pc[p] = from
<1>1. active_pid = p /\ pc[p] = from /\ p \in Pid  BY Constants DEF Acquire, At
<1>2. gate_owner[g] # p  BY <1>1 DEF Inv, HolderOwns
<1>3. Tame(proc) /\ proc \in Table /\ Like(proc, proc) /\ wait_line \in [Gate -> Line]
  BY ProcTame DEF Inv, TypeOK, Table, Like
<1>4. CASE Continue(p, proc, wait_line, console_owner, to)
  BY <1>1, <1>3, <1>4, ContinueRan
<1>5. CASE /\ Dispatch(SetWait(proc, p, "LOCK", g), [wait_line EXCEPT ![g] = Enqueue(@, p)],
                       gate_owner, console_owner, Goto(p, retry))
           /\ UNCHANGED gate_owner
  <2>1. Tame(SetWait(proc, p, "LOCK", g))
    BY <1>1, <1>3, SetWaitTame, Constants DEF Tame, Reason
  <2>2. Like(proc, SetWait(proc, p, "LOCK", g))  BY <1>3, LikeSetWait DEF Able
  <2>3. [wait_line EXCEPT ![g] = Enqueue(@, p)] \in [Gate -> Line]  BY <1>3, LineType
  <2>4. console_owner \in Con  BY DEF Inv, TypeOK, Con
  <2> QED  BY <1>1, <1>5, <2>1, <2>2, <2>3, <2>4, PassRan
<1> QED  BY <1>1, <1>2, <1>4, <1>5 DEF Acquire

LEMMA RequestRan ==
    ASSUME Inv, Inv', NEW p \in Task, NEW from \in Label \ {"new"}, NEW collect \in Label \ {"new"}, Able(p),
           RpRequest(p, from, collect)
    PROVE  Ran(p, collect, proc) /\ active_pid = p /\ pc[p] = from
<1>1. active_pid = p /\ pc[p] = from /\ p \in Pid  BY Constants DEF RpRequest, At
<1>2. Tame(proc) /\ proc \in Table /\ wait_line \in [Gate -> Line] /\ console_owner \in Con
  BY ProcTame DEF Inv, TypeOK, Table, Con
<1>3. Tame(SetWait(proc, p, "RP", 0))
  BY <1>1, <1>2, SetWaitTame, Constants DEF Tame, Reason
<1>4. Like(proc, SetWait(proc, p, "RP", 0))  BY <1>2, LikeSetWait DEF Able
<1>5. /\ Dispatch(SetWait(proc, p, "RP", 0), wait_line, gate_owner, console_owner, Goto(p, collect))
      /\ gate_owner' = gate_owner
  BY DEF RpRequest
<1> QED  BY <1>1, <1>2, <1>3, <1>4, <1>5, PassRan

----------------------------------------------------------------------------
(***************************************************************************)
(* A step of p that kills nobody and empties no slot.                      *)
(***************************************************************************)
Leaving == {"x_parent", "x_wake", "x_rel", "k_parent", "k_wake", "s_ret"}

LEMMA CallerAble ==
    ASSUME SlotInv, NEW p \in Task, active_pid = p, pc[p] \notin Leaving
    PROVE  Able(p)
<1>1. proc[p].state # "EMPTY"  BY DEF SlotInv, Inv, ActiveSlot, Leaving
<1>2. proc[p].state # "STOPPED"  BY DEF SlotInv, Fates, NotStopped
<1>3. proc[p].state # "ZOMBIE"  BY DEF SlotInv, Fates, DoomedCaller, Doomed, Leaving
<1> QED  BY <1>1, <1>2, <1>3 DEF Able

LEMMA AloneHolder ==
    ASSUME Inv, NEW p \in Task, pc[p] \in HoldsProc
    PROVE  Alone(p)
BY Mutex DEF Alone

MailFits(p, from, to) ==
    \/ rp' = "IDLE"
    \/ p \in Task /\ to \in Collecting
    \/ from \notin Collecting /\ (rp = "IDLE" => rp' = "IDLE")

FdsFit(p) == Alone(p) \/ \A t \in Task : fds'[t] = fds[t] \/ (t = p /\ proc[t].state # "ZOMBIE")

TermFits(p, to) ==
    /\ to \in Term => arg'[p].pid = p \/ proc[arg'[p].pid].state = "ZOMBIE"
    /\ to = "t_empty" => fds'[arg'[p].pid] = "none"
    /\ to \in Kill /\ arg'[p].pid = p => self_kill'
    /\ to \in AtExit => proc'[p].state = "ZOMBIE"
    /\ to = "x_wake" => Waited(p)'

LEMMA RanLive ==
    ASSUME NEW p, NEW to, NEW X, Like(proc, X), Ran(p, to, X)
    PROVE  LifeStep
BY DEF LifeStep, OwnersLive, ZombiesStay, Ran, Like, Spared, Dead

LEMMA RanStep ==
    ASSUME SlotInv, Inv', NEW p \in Task, NEW from, NEW to, NEW X, Like(proc, X), Ran(p, to, X),
           active_pid = p, pc[p] = from, ArgsStay(p), TargetFits(p, from, to), HoldingsFit,
           MailFits(p, from, to), FdsFit(p), Alone(p) \/ UNCHANGED self_kill,
           TermFits(p, to),
           proc[p].state = "ZOMBIE" => Doomed(p)' \/ proc'[active_pid'].state = "RUNNING"
    PROVE  SlotInv' /\ LifeStep
<1>0. p \in Pid /\ arg'[p].pid \in Task  BY Constants DEF Inv, TypeOK, Arg
<1>1. Goes(p, to) /\ SameSlots  BY DEF Ran, Like, SameSlots
<1>2. Mailbox'  BY <1>0, <1>1, MailStep DEF MailFits
<1>3. Slots'  BY <1>0, <1>1, SlotStep
<1>4. \A t \in Task : proc[t].state = "ZOMBIE" => proc'[t].state = "ZOMBIE"  BY DEF Ran, Like
<1>5. FateFits(p, to)  BY <1>0, <1>4 DEF FateFits, FdsFit, TermFits
<1>6. ActiveFits(p)
  <2>1. pc'[p] = to  BY <1>1 DEF Goes
  <2> QED  BY <2>1 DEF ActiveFits, Ran, Like, Spared, TermFits
<1>7. Fates'  BY <1>0, <1>1, <1>5, <1>6, FateStep
<1>8. LifeStep  BY RanLive
<1> QED  BY <1>2, <1>3, <1>7, <1>8 DEF SlotInv

\* A label that claims no more than the one before, for the same operands.
Claims(from, to) ==
    /\ to \in OnSelf => from \in OnSelf
    /\ to \in Term => from \in Term
    /\ to \in Kill => from \in Kill
    /\ to \in Pinned => from \in Pinned
    /\ to \in Filling <=> from \in Filling
    /\ to \notin AtExit \cup {"k_wake"}

LEMMA ClaimsKept ==
    ASSUME SlotInv, NEW p \in Task, NEW from, NEW to, pc[p] = from, Claims(from, to),
           UNCHANGED <<arg, self_kill>>, to = "t_empty" => fds'[tgt(p)] = "none"
    PROVE  ArgsStay(p) /\ TargetFits(p, from, to) /\ TermFits(p, to)
<1>1. TargetFits(p, from, to)
  BY DEF TargetFits, Claims, SlotInv, Slots, OwnTarget, TargetLive, tgt
<1>2. TermFits(p, to)
  BY DEF TermFits, Claims, SlotInv, Fates, Reaped, KillByte, AtExit, tgt
<1> QED  BY <1>1, <1>2 DEF ArgsStay

\* The same when nothing but the table, the gates and the program counters
\* changes.
Calm(from, to) == Claims(from, to) /\ to # "t_empty" /\ from \notin Collecting \cup Leaving

LEMMA CalmStep ==
    ASSUME SlotInv, Inv', NEW p \in Task, NEW from, NEW to, Calm(from, to),
           NEW X, Like(proc, X), Ran(p, to, X), active_pid = p, pc[p] = from,
           UNCHANGED <<arg, others>>
    PROVE  SlotInv' /\ LifeStep
<1>1. UNCHANGED <<fds, context_owner, rp, self_kill>>  BY DEF others, holdings
<1>2. Able(p)  BY CallerAble DEF Calm
<1>3. HoldingsFit /\ MailFits(p, from, to) /\ FdsFit(p)
  BY <1>1 DEF HoldingsFit, MailFits, FdsFit, Calm
<1>4. ArgsStay(p) /\ TargetFits(p, from, to) /\ TermFits(p, to)
  BY <1>1, ClaimsKept DEF Calm
<1> QED  BY <1>1, <1>2, <1>3, <1>4, RanStep DEF Able

\* The same when the call returns and forgets its operands.
LEMMA ReturnStep ==
    ASSUME SlotInv, Inv', NEW p \in Task, NEW from, NEW X, Like(proc, X), Ran(p, "user", X),
           active_pid = p, pc[p] = from, from \notin Collecting \cup Leaving \cup Filling,
           arg' = [arg EXCEPT ![p] = NoArg(p)], UNCHANGED <<fds, context_owner, rp>>,
           Alone(p) \/ UNCHANGED self_kill
    PROVE  SlotInv' /\ LifeStep
<1>1. Able(p)  BY CallerAble
<1>2. ArgsStay(p) /\ arg'[p].pid = p  BY DEF ArgsStay, NoArg, SlotInv, Inv, TypeOK
<1>3. HoldingsFit /\ MailFits(p, from, "user") /\ FdsFit(p)
  BY DEF HoldingsFit, MailFits, FdsFit
<1>4. TargetFits(p, from, "user") /\ TermFits(p, "user")
  BY <1>2, LabelSets DEF TargetFits, TermFits
<1> QED  BY <1>1, <1>2, <1>3, <1>4, RanStep DEF Able

\* The edges of the kernel code that claim nothing new.
LEMMA CalmEdges ==
    /\ \A to \in {"f_acq", "f_req", "c_acq", "c_chk", "x_acq", "x_life", "p_acq", "p_alloc", "user"} :
          Calm("user", to)
    /\ Calm("f_acq", "f_acq") /\ Calm("f_acq", "f_req") /\ Calm("f_req", "user")
    /\ Calm("c_acq", "c_acq") /\ Calm("c_acq", "c_chk")
    /\ Calm("c_chk", "user") /\ Calm("c_chk", "c_blk") /\ Calm("c_blk", "c_acq")
    /\ Calm("x_acq", "x_acq") /\ Calm("x_acq", "x_life")
    /\ Calm("x_life", "x_facq") /\ Calm("x_facq", "x_facq") /\ Calm("x_facq", "x_close")
    /\ Calm("t_facq", "t_facq") /\ Calm("t_facq", "t_close")
    /\ Calm("w_acq", "w_acq") /\ Calm("w_acq", "w_chk")
    /\ Calm("s_acq", "s_acq") /\ Calm("s_acq", "s_chk") /\ Calm("s_chk", "s_set")
    /\ Calm("s_set", "s_ret") /\ Calm("k_clear", "s_ret")
    /\ Calm("k_clear", "k_cancel") /\ Calm("k_cancel", "k_zombie")
    /\ Calm("p_acq", "p_acq") /\ Calm("p_acq", "p_alloc") /\ Calm("p_alloc", "p_err")
    /\ Calm("p_facq", "p_facq") /\ Calm("p_facq", "p_fclr")
    /\ Calm("p_gacq", "p_gacq") /\ Calm("p_gacq", "p_clone")
    /\ Calm("p_con", "p_rel") /\ Calm("p_rel", "p_ret")
    /\ Calm("w_wait", "w_acq")
BY DEF Calm, Claims, OnSelf, Term, Kill, Pinned, Filling, Collecting, Leaving, AtExit

LEMMA LikeSelf == Inv => Like(proc, proc) /\ Tame(proc) /\ console_owner \in Con
BY ProcTame DEF Like, Inv, TypeOK, Con

LEMMA AcquireSlots ==
    ASSUME SlotInv, Inv', NEW p \in Task, NEW g \in Gate, NEW from, NEW retry, NEW to, NEW refused,
           AcquireLabels(g, from, retry, to), Calm(from, retry), Calm(from, to),
           Acquire(p, g, from, retry, to, refused), UNCHANGED arg
    PROVE  SlotInv' /\ LifeStep
<1>1. Inv /\ UNCHANGED others  BY DEF SlotInv, Acquire
<1>2. Able(p)  BY CallerAble DEF Acquire, At, Calm
<1>3. (Ran(p, to, proc) \/ Ran(p, retry, proc)) /\ active_pid = p /\ pc[p] = from
  BY <1>1, <1>2, AcquireRan DEF AcquireLabels
<1> QED  BY <1>1, <1>3, CalmStep, LikeSelf

LEMMA ReleaseSlots ==
    ASSUME SlotInv, Inv', NEW p \in Task, NEW g \in Gate, NEW from, NEW to, NEW T, NEW con \in Con,
           Tame(T), Like(proc, T), ReleaseLabels(g, from, to), Calm(from, to),
           Release(p, g, T, con, from, to), UNCHANGED <<arg, others>>
    PROVE  SlotInv' /\ LifeStep
<1>1. Inv  BY DEF SlotInv
<1>2. Ran(p, to, T) /\ active_pid = p /\ pc[p] = from  BY <1>1, ReleaseRan DEF ReleaseLabels
<1> QED  BY <1>2, CalmStep

\* A release on the way out of a call.
LEMMA ReleaseReturns ==
    ASSUME SlotInv, Inv', NEW p \in Task, NEW from, NEW con \in Con, ReleaseLabels(Proc, from, "user"),
           from \notin Collecting \cup Leaving \cup Filling,
           Release(p, Proc, proc, con, from, "user"), arg' = [arg EXCEPT ![p] = NoArg(p)],
           UNCHANGED <<fds, context_owner, rp>>
    PROVE  SlotInv' /\ LifeStep
<1>1. Inv  BY DEF SlotInv
<1>2. Ran(p, "user", proc) /\ active_pid = p /\ pc[p] = from
  BY <1>1, LikeSelf, ReleaseRan, Constants DEF ReleaseLabels
<1>3. Alone(p)  BY <1>1, <1>2, AloneHolder, Constants DEF ReleaseLabels, Holds
<1> QED  BY <1>1, <1>2, <1>3, ReturnStep, LikeSelf

\* A pass entered without touching a gate.
LEMMA PassSlots ==
    ASSUME SlotInv, Inv', NEW p \in Task, NEW from, NEW to, NEW T, Tame(T), Like(proc, T),
           At(p, from), LocalLabels(from, to), Calm(from, to),
           Dispatch(T, wait_line, gate_owner, console_owner, Goto(p, to)),
           UNCHANGED <<gate_owner, arg, others>>
    PROVE  SlotInv' /\ LifeStep
<1>1. Inv /\ active_pid = p /\ pc[p] = from  BY DEF SlotInv, At
<1>2. wait_line \in [Gate -> Line] /\ console_owner \in Con  BY <1>1 DEF Inv, TypeOK, Con
<1>3. Ran(p, to, proc)
  <2>1. gate_owner' = gate_owner  OBVIOUS
  <2> QED  BY <1>1, <1>2, <2>1, PassRan DEF LocalLabels
<1> QED  BY <1>1, <1>3, CalmStep, LikeSelf

----------------------------------------------------------------------------
(***************************************************************************)
(* The calls.                                                              *)
(***************************************************************************)
LEMMA PlainSlots ==
    ASSUME SlotInv, Inv', NEW p \in Task, SysYield(p) \/ SysSleep(p)
    PROVE  SlotInv' /\ LifeStep
<1>0. Inv  BY DEF SlotInv
<1>1. At(p, "user") /\ UNCHANGED <<gate_owner, arg, others>>  BY DEF SysYield, SysSleep
<1>2. Goto(p, "user") = pc  BY <1>0, <1>1 DEF At, Goto, Inv, TypeOK
<1>3. Able(p) /\ p \in Pid /\ proc \in Table /\ 0 \in Pid /\ "TIMER" \in Reason
  BY <1>0, <1>1, CallerAble, Constants DEF At, Leaving, Inv, TypeOK, Table, Reason
<1>4. Tame(Demote(proc, p)) /\ Like(proc, Demote(proc, p))
  BY <1>0, <1>3, LikeSelf, LikeDemote, DemoteTame DEF Tame
<1>5. Tame(SetWait(proc, p, "TIMER", 0)) /\ Like(proc, SetWait(proc, p, "TIMER", 0))
  BY <1>0, <1>3, LikeSelf, LikeSetWait, SetWaitTame DEF Tame, Able
<1> QED
  BY <1>1, <1>2, <1>4, <1>5, PassSlots, CalmEdges, LocalLabelFacts DEF SysYield, SysSleep

\* A request to the RP.
LEMMA RequestSlots ==
    ASSUME SlotInv, Inv', NEW p \in Task, NEW from, NEW collect, LocalLabels(from, collect),
           RpRequest(p, from, collect), collect \in Collecting, from \notin Leaving,
           Claims(from, collect), FdsFit(p), \A t \in Task : fds'[t] = fds[t] \/ t \in Building
    PROVE  SlotInv' /\ LifeStep
<1>0. Inv  BY DEF SlotInv
<1>1. UNCHANGED <<arg, context_owner, self_kill>>  BY DEF RpRequest
<1>2. Able(p)  BY CallerAble DEF RpRequest, At
<1>3. Ran(p, collect, proc) /\ active_pid = p /\ pc[p] = from
  BY <1>0, <1>2, RequestRan DEF LocalLabels
<1>4. HoldingsFit /\ MailFits(p, from, collect)  BY <1>1 DEF HoldingsFit, MailFits
<1>5. collect # "t_empty"  BY DEF Collecting
<1>6. ArgsStay(p) /\ TargetFits(p, from, collect) /\ TermFits(p, collect)
  BY <1>1, <1>3, <1>5, ClaimsKept
<1> QED  BY <1>0, <1>1, <1>2, <1>3, <1>4, <1>6, RanStep, LikeSelf DEF Able

\* Collecting the answer, and the other steps that touch descriptors.
LEMMA HoldingSlots ==
    ASSUME SlotInv, Inv', NEW p \in Task, NEW from, NEW to, NEW X, Like(proc, X), Ran(p, to, X),
           active_pid = p, pc[p] = from, from \notin Leaving, Claims(from, to),
           UNCHANGED <<arg, context_owner, self_kill>>, to = "t_empty" => fds'[tgt(p)] = "none",
           NEW t \in Task, NEW k, fds' = [fds EXCEPT ![t] = k], Alone(p) \/ t = p,
           proc[t].state # "EMPTY" \/ t \in Building,
           rp' = "IDLE" \/ (from \notin Collecting /\ UNCHANGED rp)
    PROVE  SlotInv' /\ LifeStep
<1>0. Inv  BY DEF SlotInv
<1>1. Able(p)  BY CallerAble
<1>2. \A u \in Task : fds'[u] = fds[u] \/ u = t  BY <1>0 DEF Inv, TypeOK
<1>3. HoldingsFit /\ MailFits(p, from, to) /\ FdsFit(p)
  BY <1>1, <1>2 DEF HoldingsFit, MailFits, FdsFit, Able
<1>4. ArgsStay(p) /\ TargetFits(p, from, to) /\ TermFits(p, to)  BY ClaimsKept
<1> QED  BY <1>1, <1>3, <1>4, RanStep DEF Able

LEMMA ClaimEdges ==
    /\ Claims("f_req", "f_col") /\ Claims("f_col", "user")
    /\ Claims("x_close", "x_col") /\ Claims("x_col", "x_close") /\ Claims("x_close", "x_zomb")
    /\ Claims("t_close", "t_col") /\ Claims("t_col", "t_close") /\ Claims("t_close", "t_empty")
    /\ Claims("p_fclr", "p_gacq") /\ Claims("p_clone", "p_col") /\ Claims("p_clone", "p_back")
    /\ Claims("p_col", "p_pub") /\ Claims("p_col", "p_back")
    /\ Claims("k_zombie", "k_parent")
    /\ {"f_req", "f_col", "x_close", "x_col", "x_zomb", "t_close", "t_col", "t_empty", "p_fclr",
        "p_clone", "p_col"} \cap Leaving = {}
BY DEF Claims, OnSelf, Term, Kill, Pinned, Filling, Leaving, AtExit

LEMMA FileSlots ==
    ASSUME SlotInv, Inv', NEW p \in Task, FileCall(p)
    PROVE  SlotInv' /\ LifeStep
<1>0. Inv  BY DEF SlotInv
<1>1. CASE SysFile(p)  BY <1>1, AcquireSlots, AcquireLabelFacts, CalmEdges, Constants DEF SysFile
<1>2. CASE FileLock(p)  BY <1>2, AcquireSlots, AcquireLabelFacts, CalmEdges, Constants DEF FileLock
<1>3. CASE FileFails(p)
  BY <1>0, <1>3, ReleaseSlots, ReleaseLabelFacts, CalmEdges, LikeSelf, Constants DEF FileFails
<1>4. CASE FileExec(p)
  <2>1. FdsFit(p) /\ \A t \in Task : fds'[t] = fds[t]  BY <1>4 DEF FileExec, FdsFit
  <2>2. "f_col" \in Collecting  BY DEF Collecting
  <2> QED  BY <1>4, <2>1, <2>2, RequestSlots, LocalLabelFacts, ClaimEdges DEF FileExec
<1>5. CASE FileResult(p)
  <2>1. PICK k : fds' = [fds EXCEPT ![p] = k]  BY <1>5 DEF FileResult
  <2>2. /\ rp' = "IDLE" /\ UNCHANGED <<arg, context_owner, self_kill>>
        /\ Release(p, FileIO, proc, console_owner, "f_col", "user")
    BY <1>5 DEF FileResult
  <2>3. Ran(p, "user", proc) /\ active_pid = p /\ pc[p] = "f_col"
    <3>1. ReleaseLabels(FileIO, "f_col", "user")  BY ReleaseLabelFacts
    <3> QED  BY <1>0, <2>2, <3>1, ReleaseRan, LikeSelf, Constants DEF ReleaseLabels
  <2>4. Able(p)  BY <2>3, CallerAble, ClaimEdges
  <2> QED  BY <1>0, <2>1, <2>2, <2>3, <2>4, HoldingSlots, LikeSelf, ClaimEdges DEF Able
<1> QED  BY <1>1, <1>2, <1>3, <1>4, <1>5 DEF FileCall

LEMMA PendingLike ==
    ASSUME Inv, NEW t \in Task, NEW s \in Signal \cup {NoSignal}
    PROVE  LET T == [proc EXCEPT ![t].pending = s] IN Tame(T) /\ Like(proc, T)
BY ProcTame, Constants DEF Inv, TypeOK, Tame, Follows, Table, Row, Like

LEMMA ConsoleSlots ==
    ASSUME SlotInv, Inv', NEW p \in Task, ConsoleCall(p)
    PROVE  SlotInv' /\ LifeStep
<1>0. Inv  BY DEF SlotInv
<1>1. CASE SysConsole(p)
  BY <1>1, AcquireSlots, AcquireLabelFacts, CalmEdges, Constants DEF SysConsole
<1>2. CASE ConsoleLock(p)
  BY <1>2, AcquireSlots, AcquireLabelFacts, CalmEdges, Constants DEF ConsoleLock
<1>3. CASE ConsoleRead(p)
  <2> DEFINE quiet == [proc EXCEPT ![p].pending = NoSignal]
  <2>1. PICK T \in {proc, quiet}, con \in Con, to \in {"user", "c_blk"} :
           Release(p, FileIO, T, con, "c_chk", to)
    BY <1>0, <1>3 DEF ConsoleRead, Inv, TypeOK, Con
  <2>2. UNCHANGED <<arg, others>>  BY <1>3 DEF ConsoleRead
  <2>3. Tame(quiet) /\ Like(proc, quiet)  BY <1>0, PendingLike
  <2> HIDE DEF quiet
  <2>4. Tame(T) /\ Like(proc, T)  BY <1>0, <2>1, <2>3, LikeSelf
  <2>5. ReleaseLabels(FileIO, "c_chk", to) /\ Calm("c_chk", to)
    BY <2>1, ReleaseLabelFacts, CalmEdges
  <2> QED  BY <2>1, <2>2, <2>4, <2>5, ReleaseSlots, Constants
<1>4. CASE ConsoleBlock(p)
  <2>1. Able(p) /\ p \in Pid /\ proc \in Table /\ 0 \in Pid /\ "CONSOLE" \in Reason
    BY <1>0, <1>4, CallerAble, Constants DEF ConsoleBlock, At, Leaving, Inv, TypeOK, Table, Reason
  <2>2. Tame(SetWait(proc, p, "CONSOLE", 0)) /\ Like(proc, SetWait(proc, p, "CONSOLE", 0))
    BY <1>0, <2>1, LikeSelf, LikeSetWait, SetWaitTame DEF Tame, Able
  <2> QED  BY <1>4, <2>2, PassSlots, LocalLabelFacts, CalmEdges DEF ConsoleBlock
<1> QED  BY <1>1, <1>2, <1>3, <1>4 DEF ConsoleCall

\* fd_close_process: the slot is in use, and PROC keeps everybody else away.
LEMMA CloseSlots ==
    ASSUME SlotInv, Inv', NEW p \in Task, NEW t \in Task, NEW from, NEW collect, NEW to,
           LocalLabels(from, collect), LocalLabels(collect, from), ReleaseLabels(FileIO, from, to),
           Claims(from, collect), Claims(collect, from), Claims(from, to),
           {from, collect} \cap Leaving = {}, {from, collect} \subseteq HoldsProc,
           collect \in Collecting, from \notin Collecting, from # "t_empty",
           t = tgt(p), pc[p] \in {from, collect} => proc[t].state # "EMPTY",
           \/ CloseFile(p, t, from, collect)
           \/ FileClosed(p, t, collect, from)
           \/ CloseRest(p, t, from, to)
    PROVE  SlotInv' /\ LifeStep
<1>0. Inv  BY DEF SlotInv
<1>1. CASE CloseFile(p, t, from, collect)
  <2>1. FdsFit(p) /\ \A u \in Task : fds'[u] = fds[u]  BY <1>1 DEF CloseFile, FdsFit
  <2> QED  BY <1>1, <2>1, RequestSlots DEF CloseFile
<1>2. CASE FileClosed(p, t, collect, from)
  <2>1. PICK k : fds' = [fds EXCEPT ![t] = k]  BY <1>2 DEF FileClosed
  <2>2. /\ rp' = "IDLE" /\ UNCHANGED <<arg, context_owner, self_kill>>
        /\ Local(p, collect, proc, from)
    BY <1>2 DEF FileClosed
  <2>3. Ran(p, from, proc) /\ active_pid = p /\ pc[p] = collect
    BY <1>0, <2>2, LocalRan, LikeSelf
  <2>4. Alone(p)  BY <1>0, <2>3, AloneHolder
  <2> QED  BY <1>0, <2>1, <2>2, <2>3, <2>4, HoldingSlots, LikeSelf
<1>3. CASE CloseRest(p, t, from, to)
  <2>1. /\ fds' = [fds EXCEPT ![t] = "none"] /\ UNCHANGED <<arg, context_owner, self_kill, rp>>
        /\ Release(p, FileIO, proc, console_owner, from, to)
    BY <1>3 DEF CloseRest
  <2>2. Ran(p, to, proc) /\ active_pid = p /\ pc[p] = from
    BY <1>0, <2>1, ReleaseRan, LikeSelf, Constants DEF ReleaseLabels
  <2>3. Alone(p)  BY <1>0, <2>2, AloneHolder
  <2>4. fds'[t] = "none"  BY <1>0, <2>1 DEF Inv, TypeOK
  <2> QED  BY <1>0, <2>1, <2>2, <2>3, <2>4, HoldingSlots, LikeSelf
<1> QED  BY <1>1, <1>2, <1>3

\* A step of p that replaces rows without a pass.
LEMMA DirectStep ==
    ASSUME SlotInv, Inv', NEW p \in Task, NEW from, NEW to, Goes(p, to), pc[p] = from,
           UNCHANGED <<arg, others>>, SameSlots, TargetFits(p, from, to), TermFits(p, to),
           from \notin Collecting, from \in HoldsProc, to \notin Term, ActiveFits(p), LifeStep
    PROVE  SlotInv' /\ LifeStep
<1>0. Inv /\ p \in Pid  BY Constants DEF SlotInv
<1>1. UNCHANGED <<fds, context_owner, rp, self_kill>>  BY DEF others, holdings
<1>2. ArgsStay(p)  BY DEF ArgsStay
<1>3. HoldingsFit /\ Alone(p)  BY <1>0, <1>1, AloneHolder DEF HoldingsFit
<1>4. Mailbox'  BY <1>0, <1>1, MailStep
<1>5. Slots'  BY <1>0, <1>2, <1>3, SlotStep
<1>6. FateFits(p, to)  BY <1>3 DEF FateFits, TermFits
<1>7. Fates'  BY <1>0, <1>2, <1>6, FateStep
<1> QED  BY <1>4, <1>5, <1>7 DEF SlotInv

LEMMA ExitSlots ==
    ASSUME SlotInv, Inv', NEW p \in Task, ExitCall(p)
    PROVE  SlotInv' /\ LifeStep
<1>0. Inv /\ p \in Pid /\ proc \in Table /\ proc[p] \in Row
  BY Constants DEF SlotInv, Inv, TypeOK, Table
<1>1. CASE SysExit(p)  BY <1>1, AcquireSlots, AcquireLabelFacts, CalmEdges, Constants DEF SysExit
<1>2. CASE ExitLock(p)  BY <1>2, AcquireSlots, AcquireLabelFacts, CalmEdges, Constants DEF ExitLock
<1>3. CASE ExitFileLock(p)
  BY <1>3, AcquireSlots, AcquireLabelFacts, CalmEdges, Constants DEF ExitFileLock
<1>4. CASE ExitLife(p)
  <2>1. PICK to \in {"x_facq", "t_facq"} : Local(p, "x_life", proc, to)  BY <1>4 DEF ExitLife
  <2>2. UNCHANGED <<arg, others>>  BY <1>4 DEF ExitLife
  <2>3. Ran(p, to, proc) /\ active_pid = p /\ pc[p] = "x_life"  BY <1>0, <2>1, LocalRan, LikeSelf
  <2>4. CASE to = "x_facq"  BY <1>0, <2>2, <2>3, <2>4, CalmStep, CalmEdges, LikeSelf
  <2>5. CASE to = "t_facq"
    <3>1. Able(p) /\ arg'[p].pid = p
      BY <2>2, <2>3, CallerAble DEF Leaving, SlotInv, Slots, OwnTarget, OnSelf, tgt
    <3>2. UNCHANGED <<fds, context_owner, rp, self_kill>>  BY <2>2 DEF others, holdings
    <3>3. ArgsStay(p) /\ HoldingsFit /\ FdsFit(p) /\ MailFits(p, "x_life", to)
      BY <2>2, <3>2 DEF ArgsStay, HoldingsFit, FdsFit, MailFits, Collecting
    <3>4. TargetFits(p, "x_life", to) /\ TermFits(p, to)
      BY <2>5, <3>1 DEF TargetFits, TermFits, OnSelf, Filling, Kill, AtExit, Able
    <3> QED  BY <1>0, <2>3, <3>1, <3>2, <3>3, <3>4, RanStep, LikeSelf DEF Able
  <2> QED  BY <2>4, <2>5
<1>5. CASE ExitCloseFile(p) \/ ExitFileClosed(p) \/ ExitClose(p)
  <2>1. active_pid = p /\ pc[p] \in {"x_close", "x_col"}
    BY <1>5 DEF ExitCloseFile, ExitFileClosed, ExitClose, CloseFile, FileClosed, CloseRest,
                RpRequest, Local, Release, At
  <2>2. proc[p].state # "EMPTY" /\ tgt(p) = p
    BY <2>1, CallerAble, ClaimEdges DEF Able, SlotInv, Slots, OwnTarget, OnSelf, Leaving
  <2>3. /\ {"x_close", "x_col"} \subseteq HoldsProc /\ {"x_close", "x_col"} \cap Leaving = {}
        /\ "x_col" \in Collecting /\ "x_close" \notin Collecting
    BY DEF HoldsProc, Leaving, Collecting
  <2> QED  BY <1>5, <2>2, <2>3, CloseSlots, LocalLabelFacts, ReleaseLabelFacts, ClaimEdges
           DEF ExitCloseFile, ExitFileClosed, ExitClose
<1>6. CASE ExitZombie(p)
  <2> DEFINE row == [Unwaited(proc[p], "ZOMBIE") EXCEPT !.pending = NoSignal]
  <2>1. row.state = "ZOMBIE" /\ row.parent = proc[p].parent
    BY <1>0, UnwaitedRow DEF Row, State
  <2> HIDE DEF row
  <2>2. Local(p, "x_zomb", [proc EXCEPT ![p] = row], "x_parent") /\ UNCHANGED <<arg, others>>
    BY <1>6 DEF ExitZombie, row
  <2>3. /\ active_pid = p /\ pc[p] = "x_zomb" /\ active_pid' = active_pid
        /\ proc' = [proc EXCEPT ![p] = row] /\ pc' = [pc EXCEPT ![p] = "x_parent"]
    BY <2>2 DEF Local, At, Continue, cpu
  <2>4. Able(p)  BY <2>3, CallerAble DEF Leaving
  <2>5. \A q \in Task : proc'[q] = IF q = p THEN row ELSE proc[q]
    BY <1>0, <2>3, Constants DEF Table
  <2>6. SameSlots  BY <2>1, <2>4, <2>5 DEF SameSlots, Able
  <2>7. Goes(p, "x_parent") /\ Doomed(p)'  BY <1>0, <2>3 DEF Goes, Doomed, Inv, TypeOK
  <2>8. ActiveFits(p)  BY <2>1, <2>3, <2>5, <2>7 DEF ActiveFits, Goes
  <2>9. "x_zomb" \notin Collecting /\ "x_zomb" \in HoldsProc /\ "x_parent" \notin Term
    BY DEF Collecting, HoldsProc, Term
  <2>10. tgt(p) = p  BY <2>3 DEF SlotInv, Slots, OwnTarget, OnSelf
  <2>11. LifeStep
    BY <2>1, <2>3, <2>5, <2>10 DEF LifeStep, OwnersLive, ZombiesStay, At, Dead
  <2>12. TargetFits(p, "x_zomb", "x_parent")
    BY <2>2, <2>10 DEF TargetFits, Pinned, Term, Kill, Filling, tgt
  <2>13. TermFits(p, "x_parent")  BY <2>1, <2>5 DEF TermFits, Term, Kill
  <2> QED  BY <2>2, <2>3, <2>6, <2>7, <2>8, <2>9, <2>11, <2>12, <2>13, DirectStep
<1>7. CASE ExitParent(p)
  <2> DEFINE to == IF WaitsFor(proc[p].parent, p) THEN "x_wake" ELSE "x_rel"
  <2>1. Local(p, "x_parent", proc, to) /\ UNCHANGED <<arg, others>>
    BY <1>7 DEF ExitParent
  <2>2. Ran(p, to, proc) /\ active_pid = p /\ pc[p] = "x_parent" /\ proc' = proc
    BY <1>0, <2>1, LocalRan, LikeSelf DEF Local, Continue
  <2>3. UNCHANGED <<fds, context_owner, rp, self_kill>>  BY <2>1 DEF others, holdings
  <2>4. tgt(p) = p /\ proc[p].state = "ZOMBIE"
    BY <2>2 DEF SlotInv, Slots, OwnTarget, OnSelf, Fates, ExitedDead, AtExit
  <2>5. ArgsStay(p) /\ TargetFits(p, "x_parent", to)
    BY <2>1, <2>4 DEF ArgsStay, TargetFits, Pinned, Term, Kill, Filling, tgt
  <2>6. to = "x_wake" => Waited(p)'  BY <2>2 DEF Waited, WaitsFor, BlockedOn
  <2>7. TermFits(p, to)  BY <2>2, <2>4, <2>6 DEF TermFits, Term, Kill
  <2>8. HoldingsFit /\ FdsFit(p) /\ MailFits(p, "x_parent", to)
    BY <2>3 DEF HoldingsFit, FdsFit, MailFits, Collecting
  <2>9. Doomed(p)'  BY <2>2 DEF Ran, Goes, Doomed
  <2> HIDE DEF to
  <2> QED  BY <1>0, <2>2, <2>3, <2>5, <2>7, <2>8, <2>9, RanStep, LikeSelf
<1>8. CASE ExitWakeParent(p)
  <2> DEFINE T == Wake(proc, proc[p].parent)
  <2>1. active_pid = p /\ pc[p] = "x_wake" /\ UNCHANGED <<arg, others>>
    BY <1>8 DEF ExitWakeParent, Local, At
  <2>2. proc[p].parent \in Task /\ proc[proc[p].parent].state = "BLOCKED"
    BY <2>1 DEF SlotInv, Fates, WakeSure, Waited, WaitsFor, BlockedOn
  <2>3. WakeUnchecked(proc, proc[p].parent) = T  BY <2>2 DEF Wake, WakeUnchecked
  <2>4. Local(p, "x_wake", T, "x_rel")  BY <1>8, <2>3 DEF ExitWakeParent
  <2> HIDE DEF T
  <2>5. Tame(T) /\ Like(proc, T)  BY <1>0, LikeSelf, LikeWake, WakeTame DEF Tame, T
  <2>6. Ran(p, "x_rel", T)  BY <1>0, <2>4, <2>5, LocalRan
  <2>7. UNCHANGED <<fds, context_owner, rp, self_kill>>  BY <2>1 DEF others, holdings
  <2>8. Claims("x_wake", "x_rel") /\ "x_wake" \notin Collecting
    BY DEF Claims, OnSelf, Term, Kill, Pinned, Filling, Collecting, AtExit
  <2>9. ArgsStay(p) /\ TargetFits(p, "x_wake", "x_rel") /\ TermFits(p, "x_rel")
    BY <2>1, <2>7, <2>8, ClaimsKept
  <2>10. HoldingsFit /\ FdsFit(p) /\ MailFits(p, "x_wake", "x_rel")
    BY <2>7, <2>8 DEF HoldingsFit, FdsFit, MailFits
  <2>11. Doomed(p)'  BY <2>6 DEF Ran, Goes, Doomed
  <2> QED  BY <2>1, <2>5, <2>6, <2>7, <2>9, <2>10, <2>11, RanStep
<1>9. CASE ExitUnlock(p)
  <2>1. UNCHANGED <<arg, others>>  BY <1>9 DEF ExitUnlock
  <2>2. UNCHANGED <<fds, context_owner, rp, self_kill>>  BY <2>1 DEF others, holdings
  <2>3. active_pid = p /\ pc[p] = "x_rel"  BY <1>9 DEF ExitUnlock, ReleaseAndYield, At
  <2> DEFINE own == [gate_owner EXCEPT ![Proc] = Nobody]
             T == Demote(ReleaseWake(proc, Proc), p)
  <2>4. /\ gate_owner' = own
        /\ Dispatch(T, ReleaseLine(Proc), own, console_owner, Goto(p, "none"))
    BY <1>9 DEF ExitUnlock, ReleaseAndYield
  <2>5. Tame(ReleaseWake(proc, Proc)) /\ ReleaseLine(Proc) \in [Gate -> Line]
    BY <1>0, LikeSelf, ReleaseTame, Constants
  <2>6. Tame(T) /\ Like(proc, T)
    BY <1>0, <2>5, LikeRelease, LikeDemote, DemoteTame DEF Tame, Follows
  <2>7. "none" \in Label \ {"new"} /\ console_owner \in Con  BY <1>0, LikeSelf DEF Label
  <2> HIDE DEF own, T
  <2>8. Ran(p, "none", proc) /\ proc'[active_pid'].state = "RUNNING"
    BY <1>0, <2>3, <2>4, <2>5, <2>6, <2>7, PassRan
  <2>9. Claims("x_rel", "none") /\ "x_rel" \notin Collecting
    BY DEF Claims, OnSelf, Term, Kill, Pinned, Filling, Collecting, AtExit
  <2>10. ArgsStay(p) /\ TargetFits(p, "x_rel", "none") /\ TermFits(p, "none")
    BY <2>1, <2>2, <2>3, <2>9, ClaimsKept
  <2>11. HoldingsFit /\ FdsFit(p) /\ MailFits(p, "x_rel", "none")
    BY <2>2, <2>9 DEF HoldingsFit, FdsFit, MailFits
  <2> QED  BY <1>0, <2>2, <2>3, <2>8, <2>10, <2>11, RanStep, LikeSelf
<1> QED  BY <1>1, <1>2, <1>3, <1>4, <1>5, <1>6, <1>7, <1>8, <1>9 DEF ExitCall

(***************************************************************************)
(* Emptying a slot: nobody else is inside PROC's code.                     *)
(***************************************************************************)
LEMMA LoneStep ==
    ASSUME SlotInv, Inv', NEW p \in Pid, NEW to, Goes(p, to), ArgsStay(p), Alone(p),
           to \notin Pinned \cup Filling \cup OnSelf
    PROVE  OwnTarget' /\ TargetLive' /\ WakeLive' /\ Built' /\ Building' = {}
<1>1. \A q \in Task : pc'[q] \notin Pinned \cup Filling
  BY LabelSets DEF Goes, Alone
<1>2. OwnTarget'
  <2>1. SUFFICES ASSUME NEW q \in Task, pc'[q] \in OnSelf PROVE arg'[q].pid = q
    BY DEF OwnTarget, tgt
  <2>2. q # p /\ pc[q] \in OnSelf  BY <2>1, LabelSets DEF Goes, OnSelf
  <2> QED  BY <2>2 DEF ArgsStay, SlotInv, Slots, OwnTarget, tgt
<1>3. TargetLive' /\ WakeLive' /\ Built'
  BY <1>1, LabelSets DEF TargetLive, WakeLive, Built, Kill, Pinned
<1>4. Building' = {}
  <2>1. Building' = {arg'[q].pid : q \in {r \in Task : pc'[r] \in Filling}}
    BY DEF Building, tgt, Filling
  <2> QED  BY <1>1, <2>1
<1> QED  BY <1>2, <1>3, <1>4

LEMMA FreedSlot ==
    ASSUME SlotInv, NEW t \in Task, Building' = {}, \A u \in Task \ {t} : u \notin Building,
           proc'[t].state = "EMPTY", fds'[t] = "none", context_owner' = FreeContext(t),
           \A u \in Task \ {t} : fds'[u] = fds[u],
           \A u \in Task \ {t} : proc'[u].state = "EMPTY" <=> proc[u].state = "EMPTY"
    PROVE  SlotsAccounted'
<1>1. \A c \in Context : context_owner'[c] =
         IF context_owner[c] = t THEN Nobody ELSE context_owner[c]
  BY DEF FreeContext
<1>2. \A c \in Context, u \in Task \ {t} : context_owner'[c] = u <=> context_owner[c] = u
  BY <1>1, Constants
<1>3. \A c \in Context : context_owner'[c] # t  BY <1>1, Constants
<1> QED  BY <1>2, <1>3 DEF SlotInv, Slots, SlotsAccounted

LEMMA NoBuilding ==
    ASSUME SlotInv, NEW p \in Pid, Alone(p), p \in Task => pc[p] \notin Filling
    PROVE  Building = {}
<1>1. \A q \in Task : pc[q] \notin Filling  BY LabelSets DEF Alone
<1>2. Building = {arg[q].pid : q \in {r \in Task : pc[r] \in Filling}}
  BY DEF Building, tgt, Filling
<1> QED  BY <1>1, <1>2

LEMMA TerminateSlots ==
    ASSUME SlotInv, Inv', NEW p \in Task, Terminate(p)
    PROVE  SlotInv' /\ LifeStep
<1>0. Inv /\ p \in Pid /\ tgt(p) \in Task /\ proc \in Table
  BY TargetType, Constants DEF SlotInv, Inv, TypeOK, Table
<1>1. CASE TermFileLock(p)
  BY <1>1, AcquireSlots, AcquireLabelFacts, CalmEdges, Constants DEF TermFileLock
<1>2. CASE TermCloseFile(p) \/ TermFileClosed(p) \/ TermClose(p)
  <2>1. pc[p] \in {"t_close", "t_col"} => proc[tgt(p)].state # "EMPTY"
    BY DEF SlotInv, Slots, TargetLive, Pinned, Term
  <2>2. /\ {"t_close", "t_col"} \subseteq HoldsProc /\ {"t_close", "t_col"} \cap Leaving = {}
        /\ "t_col" \in Collecting /\ "t_close" \notin Collecting
    BY DEF HoldsProc, Leaving, Collecting
  <2> QED  BY <1>0, <1>2, <2>1, <2>2, CloseSlots, LocalLabelFacts, ReleaseLabelFacts, ClaimEdges
           DEF TermCloseFile, TermFileClosed, TermClose
<1>3. CASE TermEmpty(p)
  <2> DEFINE t == tgt(p)
             to == IF t = p THEN "x_rel" ELSE "w_con"
  <2>1. /\ active_pid = p /\ pc[p] = "t_empty" /\ active_pid' = active_pid
        /\ proc' = [proc EXCEPT ![t] = EmptyRow] /\ pc' = [pc EXCEPT ![p] = to]
        /\ context_owner' = FreeContext(t) /\ UNCHANGED <<arg, fds, rp, self_kill>>
    BY <1>3 DEF TermEmpty, Local, At, Continue, cpu
  <2>2. to \notin Pinned \cup Filling \cup OnSelf \cup Term \cup Kill \cup AtExit /\ pc[p] \in HoldsProc
    BY <2>1 DEF Pinned, Filling, OnSelf, Term, Kill, AtExit, HoldsProc
  <2>3. Alone(p) /\ ArgsStay(p) /\ Goes(p, to)
    BY <1>0, <2>1, <2>2, AloneHolder DEF ArgsStay, Goes, Inv, TypeOK
  <2>4. EmptyRow.state = "EMPTY"  BY DEF EmptyRow
  <2>5. \A q \in Task : proc'[q] = IF q = t THEN EmptyRow ELSE proc[q]
    BY <1>0, <2>1, Constants DEF Table
  <2> HIDE DEF to
  <2>6. Mailbox'
    <3>1. "t_empty" \notin Collecting  BY DEF Collecting
    <3> QED  BY <1>0, <2>1, <2>3, <3>1, MailStep
  <2>7. Slots'
    <3>1. OwnTarget' /\ TargetLive' /\ WakeLive' /\ Built' /\ Building' = {}
      BY <1>0, <2>2, <2>3, LoneStep
    <3>2. Building = {}  BY <1>0, <2>1, <2>3, NoBuilding DEF Filling
    <3>3. fds'[t] = "none"  BY <2>1 DEF SlotInv, Fates, Closed
    <3>4. SlotsAccounted'  BY <1>0, <2>1, <2>4, <2>5, <3>1, <3>2, <3>3, FreedSlot
    <3> QED  BY <3>1, <3>4 DEF Slots
  <2>8. FateFits(p, to)  BY <2>2, <2>3, LabelSets DEF FateFits
  <2>9. ActiveFits(p)
    <3>1. Able(p)  BY <2>1, CallerAble DEF Leaving
    <3> QED  BY <2>1, <2>2, <2>3, <2>4, <2>5, <3>1 DEF ActiveFits, Able, Goes, AtExit
  <2>10. Fates'  BY <1>0, <2>3, <2>8, <2>9, FateStep
  <2>11. LifeStep  BY <2>1, <2>4, <2>5 DEF LifeStep, OwnersLive, ZombiesStay, At, Dead
  <2> QED  BY <2>6, <2>7, <2>10, <2>11 DEF SlotInv
<1> QED  BY <1>1, <1>2, <1>3 DEF Terminate

LEMMA IdleReapSlots ==
    ASSUME SlotInv, Inv', IdleReap
    PROVE  SlotInv' /\ LifeStep
<1>0. Inv /\ proc \in Table /\ Idle \in Pid /\ Idle \notin Task
  BY Constants DEF SlotInv, Inv, TypeOK, Table
<1> DEFINE W == ReleaseWake(proc, FileIO)
<1>1. PICK z \in Task : /\ proc' = [W EXCEPT ![z] = EmptyRow]
                        /\ fds' = [fds EXCEPT ![z] = "none"]
                        /\ context_owner' = FreeContext(z)
  BY DEF IdleReap
<1>2. /\ active_pid = Idle /\ active_pid' = Idle /\ \A g \in Gate : gate_owner[g] = Nobody
      /\ UNCHANGED <<gate_owner, pc, arg, rp, self_kill>>
  BY DEF IdleReap, cpu
<1>3. Alone(Idle)
  BY <1>0, <1>2, Constants DEF Alone, Inv, HolderOwns, Holds
<1>4. Goes(Idle, "none") /\ ArgsStay(Idle)  BY <1>0, <1>2 DEF Goes, ArgsStay
<1>5. Like(proc, W) /\ W \in Table
  BY <1>0, LikeRelease, LikeSelf, ReleaseTame, Constants DEF Tame, Follows
<1>6. EmptyRow.state = "EMPTY"  BY DEF EmptyRow
<1> HIDE DEF W
<1>7. \A q \in Task : proc'[q] = IF q = z THEN EmptyRow ELSE W[q]
  BY <1>1, <1>5, Constants DEF Table
<1>8. Mailbox'
  <2>1. "none" \notin Collecting  BY DEF Collecting
  <2> QED  BY <1>0, <1>2, <1>4, <2>1, MailStep
<1>9. Slots'
  <2>1. OwnTarget' /\ TargetLive' /\ WakeLive' /\ Built' /\ Building' = {}
    BY <1>0, <1>3, <1>4, LoneStep, LabelSets
  <2>2. Building = {}  BY <1>0, <1>3, NoBuilding
  <2>3. \A u \in Task : fds'[u] = IF u = z THEN "none" ELSE fds[u]
    BY <1>0, <1>1 DEF Inv, TypeOK
  <2>4. SlotsAccounted'  BY <1>1, <1>5, <1>6, <1>7, <2>1, <2>2, <2>3, FreedSlot DEF Like
  <2> QED  BY <2>1, <2>4 DEF Slots
<1>10. FateFits(Idle, "none")  BY <1>0, <1>3 DEF FateFits
<1>11. ActiveFits(Idle)
  BY <1>0, <1>2, <1>5, <1>6, <1>7 DEF ActiveFits, Like
<1>12. Fates'  BY <1>0, <1>4, <1>10, <1>11, FateStep
<1>13. LifeStep
  BY <1>2, <1>5, <1>6, <1>7, Constants DEF LifeStep, OwnersLive, ZombiesStay, Owners, Like, Dead
<1> QED  BY <1>8, <1>9, <1>12, <1>13 DEF SlotInv

----------------------------------------------------------------------------
(***************************************************************************)
(* waitpid and signal.                                                     *)
(***************************************************************************)

\* The first acquire of a call that has operands.
LEMMA OperandStep ==
    ASSUME SlotInv, Inv', NEW p \in Task, NEW retry, NEW to, NEW refused, NEW a,
           AcquireLabels(Proc, "user", retry, to), Acquire(p, Proc, "user", retry, to, refused),
           arg' = [arg EXCEPT ![p] = a],
           {retry, to} \cap (OnSelf \cup Pinned \cup Filling \cup Collecting \cup AtExit) = {}
    PROVE  SlotInv' /\ LifeStep
<1>0. Inv /\ UNCHANGED <<fds, context_owner, rp, self_kill>>
  BY DEF SlotInv, Acquire, others, holdings
<1>1. Able(p)  BY CallerAble DEF Acquire, At, Leaving
<1>2. PICK l \in {retry, to} : Ran(p, l, proc) /\ active_pid = p /\ pc[p] = "user"
  BY <1>0, <1>1, AcquireRan, Constants DEF AcquireLabels
<1>3. ArgsStay(p)  BY <1>0 DEF ArgsStay, Inv, TypeOK
<1>4. HoldingsFit /\ FdsFit(p) /\ MailFits(p, "user", l)
  BY <1>0, LabelSets DEF HoldingsFit, FdsFit, MailFits
<1>5. TargetFits(p, "user", l) /\ TermFits(p, l)
  BY <1>2, LabelSets DEF TargetFits, TermFits, AtExit
<1> QED  BY <1>0, <1>1, <1>2, <1>3, <1>4, <1>5, RanStep, LikeSelf DEF Able

LEMMA WaitpidSlots ==
    ASSUME SlotInv, Inv', NEW p \in Task, WaitpidCall(p)
    PROVE  SlotInv' /\ LifeStep
<1>0. Inv /\ p \in Pid /\ tgt(p) \in Task /\ tgt(p) \in Pid /\ proc \in Table
  BY TargetType, Constants DEF SlotInv, Inv, TypeOK, Table
<1>1. CASE SysWaitpid(p)
  <2>1. PICK a : /\ Acquire(p, Proc, "user", "w_acq", "w_chk", "user")
                 /\ arg' = [arg EXCEPT ![p] = a]
    BY <1>1 DEF SysWaitpid
  <2>2. {"w_acq", "w_chk"} \cap (OnSelf \cup Pinned \cup Filling \cup Collecting \cup AtExit) = {}
    BY DEF OnSelf, Pinned, Term, Kill, Filling, Collecting, AtExit
  <2> QED  BY <2>1, <2>2, OperandStep, AcquireLabelFacts
<1>2. CASE WaitLock(p)  BY <1>2, AcquireSlots, AcquireLabelFacts, CalmEdges, Constants DEF WaitLock
<1>3. CASE WaitCheck(p)
  <2>1. UNCHANGED <<fds, context_owner, rp, self_kill>>
    BY <1>3 DEF WaitCheck, others, holdings
  <2>2. CASE /\ Release(p, Proc, proc, console_owner, "w_chk", "user")
             /\ arg' = [arg EXCEPT ![p] = NoArg(p)]
    <3>1. "w_chk" \notin Collecting \cup Leaving \cup Filling
      BY DEF Collecting, Leaving, Filling
    <3> QED  BY <1>0, <2>1, <2>2, <3>1, ReleaseReturns, ReleaseLabelFacts, LikeSelf
  <2>3. CASE /\ ~BadChild(p) /\ UNCHANGED arg
             /\ Local(p, "w_chk", proc, IF proc[tgt(p)].state = "ZOMBIE" THEN "t_facq" ELSE "w_wait")
    <3> DEFINE to == IF proc[tgt(p)].state = "ZOMBIE" THEN "t_facq" ELSE "w_wait"
    <3>1. Ran(p, to, proc) /\ active_pid = p /\ pc[p] = "w_chk"  BY <1>0, <2>3, LocalRan, LikeSelf
    <3>2. Able(p)  BY <3>1, CallerAble DEF Leaving
    <3>3. ArgsStay(p) /\ HoldingsFit /\ FdsFit(p) /\ MailFits(p, "w_chk", to)
      BY <2>1, <2>3 DEF ArgsStay, HoldingsFit, FdsFit, MailFits, Collecting
    <3>4. TargetFits(p, "w_chk", to)
      BY <2>3 DEF TargetFits, OnSelf, Filling, BadChild, tgt
    <3>5. TermFits(p, to)  BY <2>3 DEF TermFits, Term, Kill, AtExit, tgt
    <3> HIDE DEF to
    <3> QED  BY <1>0, <2>1, <3>1, <3>2, <3>3, <3>4, <3>5, RanStep, LikeSelf DEF Able
  <2> QED  BY <1>3, <2>2, <2>3 DEF WaitCheck
<1>4. CASE WaitBlock(p)
  <2> DEFINE own == [gate_owner EXCEPT ![Proc] = Nobody]
             S == SetWait(proc, p, "PROC", tgt(p))
             T == ReleaseWake(S, Proc)
  <2>1. /\ active_pid = p /\ pc[p] = "w_wait" /\ gate_owner' = own
        /\ Dispatch(T, ReleaseLine(Proc), own, console_owner, Goto(p, "w_acq"))
        /\ UNCHANGED <<arg, others>>
    BY <1>4 DEF WaitBlock, At
  <2>2. Able(p)  BY <2>1, CallerAble DEF Leaving
  <2>3. "PROC" \in Reason /\ "w_acq" \in Label \ {"new"} /\ console_owner \in Con
    BY <1>0, LikeSelf DEF Reason, Label
  <2>4. Tame(S) /\ Like(proc, S)
    BY <1>0, <2>2, <2>3, LikeSelf, SetWaitTame, LikeSetWait DEF Tame, Able
  <2> HIDE DEF S, own
  <2>5. Tame(T) /\ ReleaseLine(Proc) \in [Gate -> Line] /\ Like(S, T)
    BY <1>0, <2>4, ReleaseTame, LikeRelease, Constants DEF Tame, Follows
  <2>6. Like(proc, T)  BY <2>4, <2>5 DEF Like
  <2> HIDE DEF T
  <2>7. Ran(p, "w_acq", proc)  BY <1>0, <2>1, <2>3, <2>5, <2>6, PassRan
  <2> QED  BY <1>0, <2>1, <2>7, CalmStep, CalmEdges, LikeSelf
<1>5. CASE WaitReaped(p)
  <2>1. PICK con \in Con : Release(p, Proc, proc, con, "w_con", "user")
    BY <1>0, <1>5, LikeSelf DEF WaitReaped, Con
  <2>2. arg' = [arg EXCEPT ![p] = NoArg(p)] /\ UNCHANGED <<fds, context_owner, rp>>
    BY <1>5 DEF WaitReaped, others, holdings
  <2>3. "w_con" \notin Collecting \cup Leaving \cup Filling
    BY DEF Collecting, Leaving, Filling
  <2> QED  BY <2>1, <2>2, <2>3, ReleaseReturns, ReleaseLabelFacts
<1> QED  BY <1>1, <1>2, <1>3, <1>4, <1>5 DEF WaitpidCall

LEMMA KillSlots ==
    ASSUME SlotInv, Inv', NEW p \in Task, KillZombie(p) \/ KillParent(p) \/ KillWake(p)
    PROVE  SlotInv' /\ LifeStep
<1> DEFINE t == tgt(p)
<1>0. Inv /\ p \in Pid /\ t \in Task /\ t \in Pid /\ proc \in Table /\ proc[t] \in Row
  BY TargetType, Constants DEF SlotInv, Inv, TypeOK, Table
<1>a. UNCHANGED <<arg, others>> /\ UNCHANGED <<fds, context_owner, rp, self_kill>>
  BY DEF KillZombie, KillParent, KillWake, others, holdings
<1>b. {"k_zombie", "k_parent", "k_wake"} \subseteq HoldsProc \cap Kill \cap Pinned
  BY DEF HoldsProc, Kill, Pinned
<1>1. CASE KillZombie(p)
  <2> DEFINE row == Unwaited(proc[t], "ZOMBIE")
  <2>1. row.state = "ZOMBIE" /\ row.parent = proc[t].parent  BY <1>0, UnwaitedRow DEF State
  <2>2. /\ active_pid = p /\ pc[p] = "k_zombie" /\ active_pid' = active_pid
        /\ proc' = [proc EXCEPT ![t] = row] /\ pc' = [pc EXCEPT ![p] = "k_parent"]
    BY <1>1 DEF KillZombie, Local, At, Continue, cpu
  <2> HIDE DEF row
  <2>3. Able(p) /\ proc[t].state # "EMPTY"
    BY <1>b, <2>2, CallerAble DEF Leaving, SlotInv, Slots, TargetLive
  <2>4. \A q \in Task : proc'[q] = IF q = t THEN row ELSE proc[q]
    BY <1>0, <2>2, Constants DEF Table
  <2>5. SameSlots  BY <2>1, <2>3, <2>4 DEF SameSlots
  <2>6. Goes(p, "k_parent") /\ (t = p => Doomed(p)')
    BY <1>0, <1>a, <2>2 DEF Goes, Doomed, Inv, TypeOK, tgt
  <2>7. ActiveFits(p)  BY <2>1, <2>2, <2>3, <2>4, <2>6 DEF ActiveFits, Able, Goes
  <2>8. /\ TargetFits(p, "k_zombie", "k_parent") /\ TermFits(p, "k_parent")
        /\ "k_zombie" \notin Collecting /\ "k_parent" \notin Term
    BY <1>a, <2>2, ClaimsKept, ClaimEdges DEF Collecting, Term
  <2>9. LifeStep  BY <2>1, <2>2, <2>4 DEF LifeStep, OwnersLive, ZombiesStay, At, Dead
  <2> QED  BY <1>a, <1>b, <2>2, <2>5, <2>6, <2>7, <2>8, <2>9, DirectStep
<1>2. CASE KillParent(p) /\ Local(p, "k_parent", proc, "k_wake") /\ WaitsFor(proc[t].parent, t)
  <2>1. Ran(p, "k_wake", proc) /\ active_pid = p /\ pc[p] = "k_parent"
    BY <1>0, <1>2, LocalRan, LikeSelf
  <2>2. proc[t].state # "EMPTY"  BY <1>b, <2>1 DEF SlotInv, Slots, TargetLive
  <2>3. proc[t].parent \in Task /\ proc[proc[t].parent].state # "EMPTY"
    BY <1>2 DEF WaitsFor, BlockedOn
  <2>4. ArgsStay(p) /\ HoldingsFit /\ FdsFit(p) /\ MailFits(p, "k_parent", "k_wake")
    BY <1>a DEF ArgsStay, HoldingsFit, FdsFit, MailFits, Collecting
  <2>5. TargetFits(p, "k_parent", "k_wake")
    BY <1>a, <2>2, <2>3 DEF TargetFits, OnSelf, Filling, tgt
  <2>6. TermFits(p, "k_wake")
    BY <1>a, <1>b, <2>1 DEF TermFits, Term, AtExit, SlotInv, Fates, KillByte, tgt
  <2>7. proc[p].state = "ZOMBIE" => Doomed(p)'
    <3>1. pc'[p] = "k_wake"  BY <2>1 DEF Ran, Goes
    <3> QED  BY <1>a, <2>1, <3>1 DEF SlotInv, Fates, DoomedCaller, Doomed, tgt
  <2> QED  BY <1>0, <1>a, <2>1, <2>4, <2>5, <2>6, <2>7, RanStep, LikeSelf
<1>3. CASE KillParent(p) /\ Release(p, Proc, proc, console_owner, "k_parent", "s_ret")
  <2>1. Ran(p, "s_ret", proc) /\ active_pid = p /\ pc[p] = "k_parent"
    <3>1. ReleaseLabels(Proc, "k_parent", "s_ret")  BY ReleaseLabelFacts
    <3> QED  BY <1>0, <1>3, <3>1, ReleaseRan, LikeSelf, Constants DEF ReleaseLabels
  <2>2. HoldingsFit /\ FdsFit(p) /\ MailFits(p, "k_parent", "s_ret")
    BY <1>a DEF HoldingsFit, FdsFit, MailFits, Collecting
  <2>3. Claims("k_parent", "s_ret")  BY DEF Claims, OnSelf, Term, Kill, Pinned, Filling, AtExit
  <2>4. ArgsStay(p) /\ TargetFits(p, "k_parent", "s_ret") /\ TermFits(p, "s_ret")
    BY <1>a, <2>1, <2>3, ClaimsKept
  <2>5. proc[p].state = "ZOMBIE" => Doomed(p)'
    <3>1. pc'[p] = "s_ret"  BY <2>1 DEF Ran, Goes
    <3> QED  BY <1>a, <1>b, <2>1, <3>1 DEF SlotInv, Fates, DoomedCaller, KillByte, Doomed
  <2> QED  BY <1>0, <1>a, <2>1, <2>2, <2>4, <2>5, RanStep, LikeSelf
<1>4. CASE KillWake(p)
  <2> DEFINE q == proc[t].parent
             X == WakeUnchecked(proc, q)
  <2>1. Release(p, Proc, X, console_owner, "k_wake", "s_ret")  BY <1>4 DEF KillWake
  <2>2. Tame(X)  BY <1>0, LikeSelf, WakeTame DEF Tame
  <2>3. pc[p] = "k_wake"  BY <2>1 DEF Release, At
  <2>4. q \in Task /\ proc[q].state # "EMPTY"  BY <2>3 DEF SlotInv, Slots, WakeLive
  <2>5. \A r \in Task : LET u == Unwaited(proc[r], "READY") IN
           u.state = "READY" /\ u.parent = proc[r].parent
    BY <1>0, UnwaitedRow, Constants DEF Table, State
  <2>6. \A r \in Task : X[r] = IF r = q THEN Unwaited(proc[r], "READY") ELSE proc[r]
    BY <1>0, <2>4, Constants DEF WakeUnchecked, Table
  <2> HIDE DEF X
  <2>7. \A r \in Task : /\ X[r].parent = proc[r].parent
                        /\ X[r].state = "EMPTY" <=> proc[r].state = "EMPTY"
                        /\ X[r].state = "ZOMBIE" => proc[r].state = "ZOMBIE"
                        /\ X[r].state = "STOPPED" => proc[r].state = "STOPPED"
    BY <2>4, <2>5, <2>6
  <2>8. Ran(p, "s_ret", X) /\ active_pid = p
    <3>1. ReleaseLabels(Proc, "k_wake", "s_ret")  BY ReleaseLabelFacts
    <3> QED  BY <1>0, <2>1, <2>2, <3>1, ReleaseRan, LikeSelf, Constants DEF ReleaseLabels
  <2>9. Goes(p, "s_ret") /\ SameSlots  BY <2>7, <2>8 DEF Ran, SameSlots
  <2>10. proc[p].state = "ZOMBIE" => Doomed(p)'
    <3>1. pc'[p] = "s_ret"  BY <2>9 DEF Goes
    <3> QED  BY <1>a, <1>b, <2>3, <2>8, <3>1 DEF SlotInv, Fates, DoomedCaller, KillByte, Doomed
  <2>11. ActiveFits(p)  BY <2>7, <2>8, <2>9, <2>10 DEF ActiveFits, Ran, Spared, Goes
  <2>12. /\ TargetFits(p, "k_wake", "s_ret") /\ TermFits(p, "s_ret")
         /\ "k_wake" \notin Collecting /\ "s_ret" \notin Term
    <3>1. Claims("k_wake", "s_ret") /\ "k_wake" \notin Collecting /\ "s_ret" \notin Term
      BY DEF Claims, OnSelf, Term, Kill, Pinned, Filling, Collecting, AtExit
    <3> QED  BY <1>a, <2>3, <3>1, ClaimsKept
  <2>13. LifeStep
    BY <2>3, <2>6, <2>7, <2>8 DEF LifeStep, OwnersLive, ZombiesStay, Ran, Spared, Dead, At
  <2> QED  BY <1>a, <1>b, <2>3, <2>9, <2>11, <2>12, <2>13, DirectStep
<1> QED  BY <1>1, <1>2, <1>3, <1>4 DEF KillParent

LEMMA SignalSlots ==
    ASSUME SlotInv, Inv', NEW p \in Task, SignalCall(p)
    PROVE  SlotInv' /\ LifeStep
<1>0. Inv /\ p \in Pid /\ tgt(p) \in Task /\ proc \in Table /\ arg[p].sig \in Signal \cup {NoSignal}
  BY TargetType, Constants DEF SlotInv, Inv, TypeOK, Table
<1>1. CASE SysSignal(p)
  <2>1. PICK a : /\ Acquire(p, Proc, "user", "s_acq", "s_chk", "user")
                 /\ arg' = [arg EXCEPT ![p] = a]
    BY <1>1 DEF SysSignal
  <2>2. {"s_acq", "s_chk"} \cap (OnSelf \cup Pinned \cup Filling \cup Collecting \cup AtExit) = {}
    BY DEF OnSelf, Pinned, Term, Kill, Filling, Collecting, AtExit
  <2> QED  BY <2>1, <2>2, OperandStep, AcquireLabelFacts
<1>2. CASE SignalLock(p)
  BY <1>2, AcquireSlots, AcquireLabelFacts, CalmEdges, Constants DEF SignalLock
<1>3. CASE SignalCheck(p)
  <2>1. UNCHANGED <<fds, context_owner, rp>> /\ self_kill' = (arg[p].sig = "KILL" /\ tgt(p) = p)
    BY <1>3 DEF SignalCheck, holdings
  <2>2. CASE /\ Release(p, Proc, proc, console_owner, "s_chk", "user")
             /\ arg' = [arg EXCEPT ![p] = NoArg(p)]
    <3>1. "s_chk" \notin Collecting \cup Leaving \cup Filling
      BY DEF Collecting, Leaving, Filling
    <3> QED  BY <1>0, <2>1, <2>2, <3>1, ReleaseReturns, ReleaseLabelFacts, LikeSelf
  <2>3. CASE /\ ~SignalRefused(p) /\ UNCHANGED arg
             /\ Local(p, "s_chk", proc, IF arg[p].sig = "KILL" THEN "k_clear" ELSE "s_set")
    <3> DEFINE to == IF arg[p].sig = "KILL" THEN "k_clear" ELSE "s_set"
    <3>1. Ran(p, to, proc) /\ active_pid = p /\ pc[p] = "s_chk"  BY <1>0, <2>3, LocalRan, LikeSelf
    <3>2. Able(p) /\ Alone(p)  BY <1>0, <3>1, CallerAble, AloneHolder DEF Leaving, HoldsProc
    <3>3. ArgsStay(p) /\ HoldingsFit /\ FdsFit(p) /\ MailFits(p, "s_chk", to)
      BY <2>1, <2>3 DEF ArgsStay, HoldingsFit, FdsFit, MailFits, Collecting
    <3>4. TargetFits(p, "s_chk", to)
      BY <2>3 DEF TargetFits, OnSelf, Filling, SignalRefused, Dead, tgt
    <3>5. TermFits(p, to)  BY <2>1, <2>3 DEF TermFits, Term, Kill, AtExit, tgt
    <3> HIDE DEF to
    <3> QED  BY <1>0, <2>1, <3>1, <3>2, <3>3, <3>4, <3>5, RanStep, LikeSelf DEF Able
  <2> QED  BY <1>3, <2>2, <2>3 DEF SignalCheck
<1>4. CASE SignalSet(p)
  <2> DEFINE T == [proc EXCEPT ![tgt(p)].pending = arg[p].sig]
  <2>1. Tame(T) /\ Like(proc, T)  BY <1>0, PendingLike
  <2>2. Release(p, Proc, T, console_owner, "s_set", "s_ret") /\ UNCHANGED <<arg, others>>
    BY <1>4 DEF SignalSet
  <2> HIDE DEF T
  <2> QED  BY <1>0, <2>1, <2>2, ReleaseSlots, ReleaseLabelFacts, CalmEdges, LikeSelf, Constants
<1>5. CASE KillClear(p)
  <2> DEFINE T == [proc EXCEPT ![tgt(p)].pending = NoSignal]
  <2>1. Tame(T) /\ Like(proc, T)  BY <1>0, PendingLike
  <2>2. UNCHANGED <<arg, others>>  BY <1>5 DEF KillClear
  <2>3. CASE Release(p, Proc, proc, console_owner, "k_clear", "s_ret")
    BY <1>0, <2>2, <2>3, ReleaseSlots, ReleaseLabelFacts, CalmEdges, LikeSelf, Constants
  <2>4. CASE Local(p, "k_clear", T, "k_cancel")
    <3> HIDE DEF T
    <3>1. Ran(p, "k_cancel", T) /\ active_pid = p /\ pc[p] = "k_clear"
      BY <1>0, <2>1, <2>4, LocalRan
    <3> QED  BY <2>1, <2>2, <3>1, CalmStep, CalmEdges
  <2> QED  BY <1>5, <2>3, <2>4 DEF KillClear
<1>6. CASE KillCancel(p)
  <2> DEFINE t == tgt(p)
             L == [g \in Gate |-> IF proc[t].reason = "LOCK" /\ g = proc[t].object
                                  THEN Unlink(wait_line[g], {t}) ELSE wait_line[g]]
  <2>1. /\ active_pid = p /\ pc[p] = "k_cancel" /\ UNCHANGED <<arg, others>>
        /\ Continue(p, proc, L, console_owner, "k_zombie")
    BY <1>6 DEF KillCancel, At
  <2>2. L \in [Gate -> Line]  BY <1>0, LineType DEF Inv, TypeOK
  <2> HIDE DEF L
  <2>3. Ran(p, "k_zombie", proc)  BY <1>0, <2>1, <2>2, ContinueRan, LikeSelf
  <2> QED  BY <1>0, <2>1, <2>3, CalmStep, CalmEdges, LikeSelf
<1>7. CASE KillZombie(p) \/ KillParent(p) \/ KillWake(p)  BY <1>7, KillSlots
<1>8. CASE SignalReturn(p)
  <2>1. /\ active_pid = p /\ pc[p] = "s_ret" /\ UNCHANGED <<fds, context_owner, rp, self_kill>>
        /\ gate_owner' = gate_owner /\ arg' = [arg EXCEPT ![p] = NoArg(p)]
    BY <1>8 DEF SignalReturn, At, others, holdings
  <2>2. /\ Ran(p, "user", proc)
        /\ proc[p].state = "ZOMBIE" => proc'[active_pid'].state = "RUNNING"
    <3>1. CASE Dispatch(Demote(proc, p), wait_line, gate_owner, console_owner, Goto(p, "user"))
      <4>1. Tame(Demote(proc, p)) /\ Like(proc, Demote(proc, p))
        BY <1>0, LikeSelf, LikeDemote, DemoteTame DEF Tame
      <4>2. wait_line \in [Gate -> Line] /\ console_owner \in Con /\ "user" \in Label \ {"new"}
        BY <1>0, LikeSelf DEF Inv, TypeOK, Label
      <4> QED  BY <1>0, <2>1, <3>1, <4>1, <4>2, PassRan
    <3>2. CASE ~self_kill /\ Continue(p, proc, wait_line, console_owner, "user")
      <4>1. Ran(p, "user", proc)
        BY <1>0, <3>2, ContinueRan, LikeSelf DEF Inv, TypeOK
      <4>2. proc[p].state # "ZOMBIE"
        BY <2>1, <3>2 DEF SlotInv, Fates, DoomedCaller, Doomed
      <4> QED  BY <4>1, <4>2
    <3> QED  BY <1>8, <3>1, <3>2 DEF SignalReturn
  <2>3. ArgsStay(p) /\ arg'[p].pid = p  BY <1>0, <2>1 DEF ArgsStay, NoArg, Inv, TypeOK
  <2>4. HoldingsFit /\ FdsFit(p) /\ MailFits(p, "s_ret", "user")
    BY <2>1 DEF HoldingsFit, FdsFit, MailFits, Collecting
  <2>5. TargetFits(p, "s_ret", "user") /\ TermFits(p, "user")
    BY <2>3, LabelSets DEF TargetFits, TermFits, Filling
  <2> QED  BY <1>0, <2>1, <2>2, <2>3, <2>4, <2>5, RanStep, LikeSelf
<1> QED  BY <1>1, <1>2, <1>3, <1>4, <1>5, <1>6, <1>7, <1>8 DEF SignalCall

----------------------------------------------------------------------------
(***************************************************************************)
(* spawn: from the allocation to the publication the slot stays EMPTY and  *)
(* owns one context.                                                       *)
(***************************************************************************)
LEMMA BuildersTarget ==
    ASSUME SlotInv, NEW p \in Task, pc[p] \in Filling
    PROVE  /\ Alone(p) /\ tgt(p) \in Task \ {p} /\ tgt(p) \in Building
           /\ proc[tgt(p)].state = "EMPTY" /\ \A u \in Task \ {tgt(p)} : u \notin Building
<1>1. Inv  BY DEF SlotInv
<1>2. Alone(p)  BY <1>1, AloneHolder, LabelSets
<1>3. Building = {arg[q].pid : q \in {r \in Task : pc[r] \in Filling}}
  BY DEF Building, tgt, Filling
<1>4. \A q \in Task \ {p} : pc[q] \notin Filling  BY <1>2, LabelSets DEF Alone
<1>5. Building = {tgt(p)}  BY <1>3, <1>4 DEF tgt
<1> QED  BY <1>1, <1>2, <1>5, TargetType DEF SlotInv, Slots, Built, Inv, SpawnTarget

LEMMA SpawnAllocSlots ==
    ASSUME SlotInv, Inv', NEW p \in Task, SpawnAlloc(p)
    PROVE  SlotInv' /\ LifeStep
<1>0. Inv /\ p \in Pid /\ proc \in Table  BY Constants DEF SlotInv, Inv, TypeOK, Table
<1>1. UNCHANGED <<fds, rp, self_kill>>  BY DEF SpawnAlloc
<1>2. ASSUME Local(p, "p_alloc", proc, "p_err"), UNCHANGED <<arg, context_owner>>
      PROVE  SlotInv' /\ LifeStep
  <2>1. Ran(p, "p_err", proc) /\ active_pid = p /\ pc[p] = "p_alloc"
    BY <1>0, <1>2, LocalRan, LikeSelf
  <2>2. UNCHANGED <<arg, others>>  BY <1>2 DEF SpawnAlloc, others, holdings
  <2> QED  BY <1>0, <2>1, <2>2, CalmStep, CalmEdges, LikeSelf
<1>3. ASSUME NEW t \in Task, NEW c \in Context, FreeSlot(t), FreeCtx(c),
             arg' = [arg EXCEPT ![p].pid = t],
             context_owner' = [context_owner EXCEPT ![c] = t],
             Local(p, "p_alloc", [proc EXCEPT ![t] = [EmptyRow EXCEPT !.parent = p]], "p_facq")
      PROVE  SlotInv' /\ LifeStep
  <2> DEFINE row == [EmptyRow EXCEPT !.parent = p]
  <2>1. row.state = "EMPTY"  BY DEF EmptyRow
  <2>2. /\ active_pid = p /\ pc[p] = "p_alloc" /\ active_pid' = active_pid
        /\ proc' = [proc EXCEPT ![t] = row] /\ pc' = [pc EXCEPT ![p] = "p_facq"]
    BY <1>3 DEF Local, At, Continue, cpu
  <2> HIDE DEF row
  <2>3. Able(p)  BY <2>2, CallerAble DEF Leaving
  <2>4. t # p  BY <1>3, <2>3 DEF FreeSlot, Able
  <2>5. Alone(p) /\ Building = {}
    BY <1>0, <2>2, AloneHolder, NoBuilding DEF HoldsProc, Filling
  <2>6. /\ \A q \in Task : proc'[q] = IF q = t THEN row ELSE proc[q]
        /\ \A q \in Task : pc'[q] = IF q = p THEN "p_facq" ELSE pc[q]
        /\ \A q \in Task \ {p} : arg'[q] = arg[q]
        /\ arg'[p].pid = t
        /\ \A d \in Context : context_owner'[d] = IF d = c THEN t ELSE context_owner[d]
    BY <1>0, <1>3, <2>2, Constants DEF Table, Inv, TypeOK, Arg
  <2>7. Goes(p, "p_facq") /\ ArgsStay(p)  BY <2>6 DEF Goes, ArgsStay
  <2>8. "p_facq" \notin OnSelf \cup Pinned \cup Term \cup Kill \cup {"t_empty"} \cup AtExit /\ "p_facq" \in Filling
    BY DEF OnSelf, Pinned, Term, Kill, Filling, AtExit
  <2>9. Mailbox'
    <3>1. "p_alloc" \notin Collecting  BY DEF Collecting
    <3> QED  BY <1>0, <1>1, <2>2, <2>7, <3>1, MailStep
  <2>10. \A q \in Task : pc'[q] \notin Pinned /\ (pc'[q] \in Filling <=> q = p)
    BY <2>5, <2>6, <2>8, LabelSets DEF Alone
  <2>11. OwnTarget'  BY <2>6, <2>8 DEF OwnTarget, tgt, SlotInv, Slots
  <2>12. TargetLive' /\ WakeLive'  BY <2>10, LabelSets DEF TargetLive, WakeLive
  <2>13. Built'  BY <2>1, <2>6, <2>10 DEF Built, tgt
  <2>14. SlotsAccounted'
    <3>1. Building' = {arg'[q].pid : q \in {r \in Task : pc'[r] \in Filling}}
      BY DEF Building, tgt, Filling
    <3>2. Building' = {t}  BY <2>6, <2>10, <3>1
    <3>3. \A d \in Context : context_owner[d] # t
      BY <1>3, <2>5 DEF SlotInv, Slots, SlotsAccounted, FreeSlot
    <3>4. \A u \in Task \ {t}, d \in Context : context_owner'[d] = u <=> context_owner[d] = u
      BY <1>3, <2>6, Constants DEF FreeCtx
    <3>5. \A d \in Context : context_owner'[d] = t <=> d = c  BY <2>6, <3>3
    <3> QED  BY <1>1, <2>1, <2>5, <2>6, <3>2, <3>4, <3>5 DEF SlotInv, Slots, SlotsAccounted
  <2>15. Slots'  BY <2>11, <2>12, <2>13, <2>14 DEF Slots
  <2>16. FateFits(p, "p_facq")  BY <2>5, <2>8 DEF FateFits
  <2>17. ActiveFits(p)  BY <2>1, <2>2, <2>3, <2>4, <2>6 DEF ActiveFits, Able
  <2>18. Fates'  BY <1>0, <2>7, <2>16, <2>17, FateStep
  <2>19. LifeStep  BY <1>3, <2>6 DEF LifeStep, OwnersLive, ZombiesStay, FreeSlot, Dead
  <2> QED  BY <2>9, <2>15, <2>18, <2>19 DEF SlotInv
<1> QED  BY <1>2, <1>3 DEF SpawnAlloc

LEMMA SpawnPublishSlots ==
    ASSUME SlotInv, Inv', NEW p \in Task, SpawnPublish(p)
    PROVE  SlotInv' /\ LifeStep
<1> DEFINE t == tgt(p)
<1>0. Inv /\ p \in Pid /\ proc \in Table  BY Constants DEF SlotInv, Inv, TypeOK, Table
<1>1. /\ active_pid = p /\ pc[p] = "p_pub" /\ active_pid' = active_pid
      /\ proc' = [proc EXCEPT ![t].state = "NEW"]
      /\ pc' = [pc EXCEPT ![p] = "p_con", ![t] = "new"]
      /\ arg' = [arg EXCEPT ![t] = NoArg(t)]
      /\ UNCHANGED <<gate_owner, fds, context_owner, rp, self_kill>>
  BY DEF SpawnPublish, At, cpu, others, holdings
<1>2. pc[p] \in Filling  BY <1>1 DEF Filling
<1>3. /\ Alone(p) /\ t \in Task \ {p} /\ t \in Building /\ proc[t].state = "EMPTY"
      /\ \A u \in Task \ {t} : u \notin Building
  BY <1>2, BuildersTarget
<1>4. /\ \A q \in Task : q # t => proc'[q] = proc[q] /\ arg'[q] = arg[q]
      /\ proc'[t].state = "NEW" /\ arg'[t].pid = t
      /\ \A q \in Task : pc'[q] = IF q = t THEN "new" ELSE IF q = p THEN "p_con" ELSE pc[q]
  BY <1>0, <1>1, <1>3, Constants DEF Table, Row, Inv, TypeOK, NoArg
<1>5. "p_con" \notin OnSelf \cup Pinned \cup Filling /\ "p_pub" \notin Collecting /\ "p_pub" \in HoldsFileIO
  BY DEF OnSelf, Pinned, Term, Kill, Filling, Collecting, HoldsFileIO
<1>6. \A q \in Task : pc'[q] \notin Pinned \cup Filling
  BY <1>3, <1>4, <1>5, LabelSets DEF Alone
<1>7. Mailbox'
  <2>1. \A q \in Task : pc[q] \notin Collecting
    BY <1>0, <1>1, <1>5, Mutex, LabelSets
  <2> QED  BY <1>1, <2>1 DEF SlotInv, Mailbox
<1>8. Slots'
  <2>1. OwnTarget'  BY <1>4, <1>5 DEF SlotInv, Slots, OwnTarget, tgt
  <2>2. TargetLive' /\ WakeLive' /\ Built'
    BY <1>6, LabelSets DEF TargetLive, WakeLive, Built
  <2>3. Building' = {arg'[q].pid : q \in {r \in Task : pc'[r] \in Filling}}
    BY DEF Building, tgt, Filling
  <2>4. Building' = {}  BY <1>6, <2>3
  <2>5. SlotsAccounted'
    BY <1>1, <1>3, <1>4, <2>4 DEF SlotInv, Slots, SlotsAccounted
  <2> QED  BY <2>1, <2>2, <2>5 DEF Slots
<1>9. Fates'
  <2>1. Closed' /\ Reaped' /\ KillByte'  BY <1>6, LabelSets DEF Closed, Reaped, KillByte
  <2>2. Able(p)  BY <1>1, CallerAble DEF Leaving
  <2>3. DoomedCaller'  BY <1>1, <1>3, <1>4, <2>2 DEF DoomedCaller, Able
  <2>4. NotStopped'  BY <1>1, <1>3, <1>4 DEF SlotInv, Fates, NotStopped
  <2>5. \A q \in Task : pc'[q] \notin AtExit
    BY <1>3, <1>4, LabelSets DEF Alone, AtExit
  <2>6. ExitedDead' /\ WakeSure'  BY <2>5 DEF ExitedDead, WakeSure, AtExit
  <2> QED  BY <2>1, <2>3, <2>4, <2>6 DEF Fates
<1>10. LifeStep  BY <1>3, <1>4 DEF LifeStep, OwnersLive, ZombiesStay, Dead
<1> QED  BY <1>7, <1>8, <1>9, <1>10 DEF SlotInv

LEMMA SpawnRollbackSlots ==
    ASSUME SlotInv, Inv', NEW p \in Task, SpawnRollback(p)
    PROVE  SlotInv' /\ LifeStep
<1> DEFINE t == tgt(p)
           X == [proc EXCEPT ![t] = EmptyRow]
<1>0. Inv /\ p \in Pid /\ proc \in Table  BY Constants DEF SlotInv, Inv, TypeOK, Table
<1>1. /\ Release(p, FileIO, X, console_owner, "p_back", "p_err")
      /\ fds' = [fds EXCEPT ![t] = "none"] /\ context_owner' = FreeContext(t)
      /\ UNCHANGED <<arg, rp, self_kill>>
  BY DEF SpawnRollback
<1>2. pc[p] = "p_back" /\ pc[p] \in Filling  BY <1>1 DEF Release, At, Filling
<1>3. /\ Alone(p) /\ t \in Task \ {p} /\ t \in Building /\ proc[t].state = "EMPTY"
      /\ \A u \in Task \ {t} : u \notin Building
  BY <1>2, BuildersTarget
<1>4. Tame(X)
  BY <1>0, <1>3, LikeSelf, EmptyRowType, ReplaceTame, Constants DEF Tame, EmptyRow
<1>5. \A q \in Task : X[q] = IF q = t THEN EmptyRow ELSE proc[q]
  BY <1>0, <1>3, Constants DEF Table
<1>6. EmptyRow.state = "EMPTY"  BY DEF EmptyRow
<1> HIDE DEF X
<1>7. Ran(p, "p_err", X) /\ active_pid = p
  <2>1. ReleaseLabels(FileIO, "p_back", "p_err")  BY ReleaseLabelFacts
  <2> QED  BY <1>0, <1>1, <1>4, <2>1, ReleaseRan, LikeSelf, Constants DEF ReleaseLabels
<1>8. Goes(p, "p_err") /\ ArgsStay(p)  BY <1>1, <1>7 DEF Ran, ArgsStay
<1>9. "p_err" \notin Pinned \cup Filling \cup OnSelf \cup Term \cup Kill \cup AtExit /\ "p_back" \notin Collecting
  BY DEF Pinned, Filling, OnSelf, Term, Kill, AtExit, Collecting
<1>10. Mailbox'  BY <1>0, <1>1, <1>2, <1>8, <1>9, MailStep
<1>11. \A q \in Task : proc'[q].state = "EMPTY" <=> proc[q].state = "EMPTY"
  BY <1>3, <1>5, <1>6, <1>7 DEF Ran
<1>12. Slots'
  <2>1. OwnTarget' /\ TargetLive' /\ WakeLive' /\ Built' /\ Building' = {}
    BY <1>0, <1>3, <1>8, <1>9, LoneStep
  <2>2. \A u \in Task : fds'[u] = IF u = t THEN "none" ELSE fds[u]
    BY <1>0, <1>1, <1>3 DEF Inv, TypeOK
  <2>3. SlotsAccounted'  BY <1>1, <1>3, <1>11, <2>1, <2>2, FreedSlot
  <2> QED  BY <2>1, <2>3 DEF Slots
<1>13. FateFits(p, "p_err")  BY <1>3, <1>9, LabelSets DEF FateFits
<1>14. Able(p)  BY <1>2, <1>7, CallerAble DEF Leaving
<1>15. ActiveFits(p)
  BY <1>3, <1>5, <1>6, <1>7, <1>8, <1>14 DEF ActiveFits, Able, Ran, Spared, Goes
<1>16. Fates'  BY <1>0, <1>8, <1>13, <1>15, FateStep
<1>17. LifeStep  BY <1>3, <1>5, <1>7 DEF LifeStep, OwnersLive, ZombiesStay, Ran, Spared, Dead
<1> QED  BY <1>10, <1>12, <1>16, <1>17 DEF SlotInv

LEMMA SpawnSlots ==
    ASSUME SlotInv, Inv', NEW p \in Task, SpawnCall(p)
    PROVE  SlotInv' /\ LifeStep
<1> DEFINE t == tgt(p)
<1>0. Inv /\ p \in Pid /\ t \in Task /\ proc \in Table
  BY TargetType, Constants DEF SlotInv, Inv, TypeOK, Table
<1>1. CASE SysSpawn(p) \/ SpawnLock(p) \/ SpawnFileLock(p) \/ SpawnFileLockAgain(p)
  BY <1>1, AcquireSlots, AcquireLabelFacts, CalmEdges, Constants
  DEF SysSpawn, SpawnLock, SpawnFileLock, SpawnFileLockAgain
<1>2. CASE SpawnClearFds(p)
  <2>1. PICK b \in SpawnCatch :
           Release(p, FileIO, [proc EXCEPT ![t].catch = b], console_owner, "p_fclr", "p_gacq")
    BY <1>2 DEF SpawnClearFds
  <2> DEFINE X == [proc EXCEPT ![t].catch = b]
  <2>2. fds' = [fds EXCEPT ![t] = "none"] /\ UNCHANGED <<arg, context_owner, rp, self_kill>>
    BY <1>2 DEF SpawnClearFds
  <2>3. Tame(X) /\ Like(proc, X)
    BY <1>0, LikeSelf, KernelAssumption, Constants DEF Tame, Follows, Table, Row, Like
  <2> HIDE DEF X
  <2>4. Ran(p, "p_gacq", X) /\ active_pid = p /\ pc[p] = "p_fclr"
    <3>1. ReleaseLabels(FileIO, "p_fclr", "p_gacq")  BY ReleaseLabelFacts
    <3> QED  BY <1>0, <2>1, <2>3, <3>1, ReleaseRan, LikeSelf, Constants DEF ReleaseLabels, X
  <2>5. Alone(p) /\ t \in Building  BY <2>4, BuildersTarget DEF Filling
  <2>6. "p_fclr" \notin Collecting  BY DEF Collecting
  <2> QED  BY <1>0, <2>2, <2>3, <2>4, <2>5, <2>6, HoldingSlots, ClaimEdges
<1>3. CASE SpawnClone(p)
  <2>1. PICK k : fds' = [fds EXCEPT ![t] = k] /\ RpRequest(p, "p_clone", "p_col")
    BY <1>3 DEF SpawnClone
  <2>2. Alone(p) /\ t \in Building  BY <2>1, BuildersTarget DEF RpRequest, At, Filling
  <2>3. FdsFit(p) /\ \A u \in Task : fds'[u] = fds[u] \/ u \in Building
    BY <1>0, <2>1, <2>2 DEF FdsFit, Inv, TypeOK
  <2>4. "p_col" \in Collecting  BY DEF Collecting
  <2> QED  BY <2>1, <2>3, <2>4, RequestSlots, LocalLabelFacts, ClaimEdges
<1>4. CASE SpawnCloneFails(p)
  <2>1. PICK k : fds' = [fds EXCEPT ![t] = k] /\ Local(p, "p_clone", proc, "p_back")
    BY <1>4 DEF SpawnCloneFails
  <2>2. UNCHANGED <<arg, context_owner, rp, self_kill>>  BY <1>4 DEF SpawnCloneFails
  <2>3. Ran(p, "p_back", proc) /\ active_pid = p /\ pc[p] = "p_clone"
    BY <1>0, <2>1, LocalRan, LikeSelf
  <2>4. Alone(p) /\ t \in Building  BY <2>3, BuildersTarget DEF Filling
  <2>5. "p_clone" \notin Collecting  BY DEF Collecting
  <2> QED  BY <1>0, <2>1, <2>2, <2>3, <2>4, <2>5, HoldingSlots, ClaimEdges, LikeSelf
<1>5. CASE SpawnResult(p)
  <2>1. PICK to \in {"p_pub", "p_back"} : Local(p, "p_col", proc, to)  BY <1>5 DEF SpawnResult
  <2>2. rp' = "IDLE" /\ UNCHANGED <<arg, fds, context_owner, self_kill>>
    BY <1>5 DEF SpawnResult, holdings
  <2>3. Ran(p, to, proc) /\ active_pid = p /\ pc[p] = "p_col"  BY <1>0, <2>1, LocalRan, LikeSelf
  <2>4. Alone(p) /\ t \in Building  BY <2>3, BuildersTarget DEF Filling
  <2>5. fds' = [fds EXCEPT ![t] = fds[t]]  BY <1>0, <2>2 DEF Inv, TypeOK
  <2> QED  BY <1>0, <2>1, <2>2, <2>3, <2>4, <2>5, HoldingSlots, ClaimEdges, LikeSelf
<1>6. CASE SpawnConsole(p)
  <2>1. PICK con \in {t, console_owner} : Release(p, FileIO, proc, con, "p_con", "p_rel")
    BY <1>6 DEF SpawnConsole
  <2>2. con \in Con /\ UNCHANGED <<arg, others>>  BY <1>0, <1>6, <2>1, LikeSelf DEF Con, SpawnConsole
  <2> QED  BY <1>0, <2>1, <2>2, ReleaseSlots, ReleaseLabelFacts, CalmEdges, LikeSelf, Constants
<1>7. CASE SpawnUnlock(p)
  BY <1>0, <1>7, ReleaseSlots, ReleaseLabelFacts, CalmEdges, LikeSelf, Constants DEF SpawnUnlock
<1>8. CASE SpawnReturn(p)
  <2>1. /\ Local(p, "p_ret", proc, "user") /\ arg' = [arg EXCEPT ![p] = NoArg(p)]
        /\ UNCHANGED <<fds, context_owner, rp, self_kill>>
    BY <1>8 DEF SpawnReturn, others, holdings
  <2>2. Ran(p, "user", proc) /\ active_pid = p /\ pc[p] = "p_ret"
    BY <1>0, <2>1, LocalRan, LikeSelf
  <2>3. "p_ret" \notin Collecting \cup Leaving \cup Filling  BY DEF Collecting, Leaving, Filling
  <2> QED  BY <1>0, <2>1, <2>2, <2>3, ReturnStep, LikeSelf
<1>9. CASE SpawnFail(p)
  <2>1. /\ Release(p, Proc, proc, console_owner, "p_err", "user")
        /\ arg' = [arg EXCEPT ![p] = NoArg(p)] /\ UNCHANGED <<fds, context_owner, rp>>
    BY <1>9 DEF SpawnFail, others, holdings
  <2>2. "p_err" \notin Collecting \cup Leaving \cup Filling  BY DEF Collecting, Leaving, Filling
  <2> QED  BY <1>0, <2>1, <2>2, ReleaseReturns, ReleaseLabelFacts, LikeSelf
<1> QED
  BY <1>1, <1>2, <1>3, <1>4, <1>5, <1>6, <1>7, <1>8, <1>9,
     SpawnAllocSlots, SpawnPublishSlots, SpawnRollbackSlots DEF SpawnCall

----------------------------------------------------------------------------
(***************************************************************************)
(* Interrupts.                                                             *)
(***************************************************************************)
LEMMA IrqSlots ==
    ASSUME SlotInv, Inv', NEW X, Like(proc, X), Ran(Idle, "none", X),
           UNCHANGED <<arg, fds, context_owner, self_kill>>, rp = "IDLE" => rp' = "IDLE",
           \/ proc'[active_pid'].state = "RUNNING"
           \/ /\ active_pid' = active_pid
              /\ active_pid \in Task => pc'[active_pid] = pc[active_pid] /\ proc' = proc
    PROVE  SlotInv' /\ LifeStep
<1>0. Idle \in Pid /\ Idle \notin Task /\ Inv  BY Constants DEF SlotInv
<1>1. Goes(Idle, "none") /\ SameSlots /\ ArgsStay(Idle)  BY DEF Ran, Like, SameSlots, ArgsStay
<1>2. "none" \notin Collecting  BY LabelSets
<1>3. Mailbox'  BY <1>0, <1>1, <1>2, MailStep
<1>4. Slots'
  <2>1. TargetFits(Idle, "none", "none") /\ HoldingsFit  BY <1>0 DEF TargetFits, HoldingsFit
  <2> QED  BY <1>0, <1>1, <2>1, SlotStep
<1>5. FateFits(Idle, "none")  BY <1>0 DEF FateFits, Ran, Like
<1>6. ActiveFits(Idle)
  <2>1. \A q \in Task : q \in Owners /\ proc'[q].state = "STOPPED" => proc[q].state = "STOPPED"
    BY DEF Ran, Like, Spared
  <2>2. ASSUME active_pid \in Task, active_pid' = active_pid, proc' = proc,
               pc'[active_pid] = pc[active_pid]
        PROVE  /\ proc'[active_pid].state = "STOPPED" => proc[active_pid].state = "STOPPED"
               /\ proc'[active_pid].state = "ZOMBIE" => Doomed(active_pid)'
    BY <2>2 DEF SlotInv, Fates, DoomedCaller, Doomed, tgt
  <2>3. ASSUME active_pid' = active_pid, active_pid \in Task => proc' = proc,
               active_pid \in Task => pc'[active_pid] = pc[active_pid],
               NEW q \in Task, q = active_pid, pc'[q] = "x_wake"
        PROVE  Waited(q)'
    <3>1. Waited(q)  BY <2>3 DEF SlotInv, Fates, WakeSure
    <3> QED  BY <2>3, <3>1 DEF Waited, WaitsFor, BlockedOn
  <2> QED  BY <1>0, <2>1, <2>2, <2>3 DEF ActiveFits
<1>7. Fates'  BY <1>0, <1>1, <1>5, <1>6, FateStep
<1> QED  BY <1>3, <1>4, <1>7, RanLive DEF SlotInv

LEMMA InterruptSlots ==
    ASSUME SlotInv, Inv', TimerIrq \/ ConsoleBreak \/ FsDone \/ RpRoute
    PROVE  SlotInv' /\ LifeStep
<1>0. /\ Inv /\ active_pid \in Pid /\ proc \in Table /\ Tame(proc) /\ Like(proc, proc)
      /\ wait_line \in [Gate -> Line] /\ gate_owner \in [Gate -> Pid \cup {Nobody}]
  BY LikeSelf DEF SlotInv, Inv, TypeOK, Table
<1>1. UNCHANGED <<gate_owner, arg, fds, context_owner, self_kill>> /\ (rp = "IDLE" => rp' = "IDLE")
  BY DEF TimerIrq, ConsoleBreak, FsDone, RpRoute, others, holdings
<1>2. ASSUME NEW T, Tame(T), Like(proc, T), Dispatch(T, wait_line, gate_owner, console_owner, pc)
      PROVE  SlotInv' /\ LifeStep
  <2>1. Ran(Idle, "none", proc)  BY <1>0, <1>1, <1>2, IrqRan
  <2>2. gate_owner' = gate_owner /\ T \in Table  BY <1>1, <1>2 DEF Tame, Follows
  <2>3. proc'[active_pid'].state = "RUNNING"  BY <1>0, <1>2, <2>2, DispatchSettled
  <2> QED  BY <1>0, <1>1, <2>1, <2>3, IrqSlots
<1>3. ASSUME UNCHANGED <<proc, wait_line, pc, cpu>>
      PROVE  SlotInv' /\ LifeStep
  <2>1. active_pid' = active_pid /\ Goes(Idle, "none")
    BY <1>3, Constants DEF cpu, Goes
  <2>2. Ran(Idle, "none", proc)  BY <1>3, <2>1 DEF Ran, Spared
  <2> QED  BY <1>0, <1>1, <1>3, <2>1, <2>2, IrqSlots
<1>4. CASE TimerIrq
  <2>1. Tame(Demote(proc, active_pid)) /\ Like(proc, Demote(proc, active_pid))
    BY <1>0, LikeDemote, DemoteTame DEF Tame
  <2> QED  BY <1>2, <1>4, <2>1 DEF TimerIrq
<1>5. CASE ConsoleBreak
  <2> DEFINE T == [proc EXCEPT ![console_owner].pending = "INT"]
  <2>1. Tame(T) /\ Like(proc, T)  BY <1>0, <1>5, PendingLike DEF ConsoleBreak, Signal
  <2>2. Dispatch(Demote(T, active_pid), wait_line, gate_owner, console_owner, pc)
    BY <1>5 DEF ConsoleBreak
  <2> HIDE DEF T
  <2>3. Tame(Demote(T, active_pid)) /\ Like(proc, Demote(T, active_pid))
    BY <1>0, <2>1, LikeDemote, DemoteTame DEF Tame, Follows
  <2> QED  BY <1>2, <2>2, <2>3
<1>6. CASE FsDone
  <2> DEFINE T == Wake(proc, gate_owner[FileIO])
  <2>1. Tame(T) /\ Like(proc, T)  BY <1>0, LikeWake, WakeTame DEF Tame
  <2>2. \/ Dispatch(Demote(T, active_pid), wait_line, gate_owner, console_owner, pc)
        \/ UNCHANGED <<proc, wait_line, pc, cpu>>
    BY <1>6 DEF FsDone
  <2> HIDE DEF T
  <2>3. Tame(Demote(T, active_pid)) /\ Like(proc, Demote(T, active_pid))
    BY <1>0, <2>1, LikeDemote, DemoteTame DEF Tame, Follows
  <2> QED  BY <1>2, <1>3, <2>2, <2>3
<1>7. CASE RpRoute  BY <1>3, <1>7 DEF RpRoute
<1> QED  BY <1>4, <1>5, <1>6, <1>7

----------------------------------------------------------------------------
(***************************************************************************)
(* The theorems.                                                           *)
(***************************************************************************)
LEMMA InitSlots == Init => SlotInv
<1> SUFFICES ASSUME Init PROVE SlotInv  OBVIOUS
<1>1. Inv  BY InitInv
<1>2. /\ \A q \in Task : pc[q] = IF q \in BootTasks THEN "new" ELSE "none"
      /\ \A q \in Task : arg[q].pid = q
      /\ \A q \in Task : fds[q] = IF q \in BootTasks THEN "open" ELSE "none"
      /\ \A c \in Context : context_owner[c] = IF c \in BootTasks THEN c ELSE Nobody
      /\ rp = "IDLE" /\ active_pid = Idle
  BY DEF Init, NoArg
<1>3. \A q \in Task : proc[q].state = IF q \in BootTasks THEN "NEW" ELSE "EMPTY"
  <2> DEFINE new(b) == [EmptyRow EXCEPT !.state = "NEW", !.parent = Idle, !.catch = b]
  <2>1. \A b : new(b).state = "NEW"  BY DEF EmptyRow
  <2>2. EmptyRow.state = "EMPTY"  BY DEF EmptyRow
  <2>3. \A q \in Task : proc[q] = IF q \in BootTasks THEN new(q \in BootCatch) ELSE EmptyRow
    BY Constants DEF Init
  <2> HIDE DEF new
  <2> QED  BY <2>1, <2>2, <2>3
<1>4. \A q \in Task : pc[q] \in {"new", "none"}  BY <1>2
<1>5. Mailbox  BY <1>2 DEF Mailbox
<1>6. Building = {}
  <2>1. \A q \in Task : pc[q] \notin Filling  BY <1>4, LabelSets
  <2>2. Building = {arg[q].pid : q \in {r \in Task : pc[r] \in Filling}}
    BY DEF Building, tgt, Filling
  <2> QED  BY <2>1, <2>2
<1>7. SlotsAccounted
  <2>1. \A t \in BootTasks : t \in Context  BY KernelAssumption DEF Context
  <2>2. \A t \in Task : t \notin BootTasks => \A c \in Context : context_owner[c] # t
    BY <1>2, Constants
  <2>3. \A t \in BootTasks, c \in Context : context_owner[c] = t <=> c = t
    BY <1>2, Constants, KernelAssumption
  <2> QED  BY <1>2, <1>3, <1>6, <2>1, <2>2, <2>3 DEF SlotsAccounted
<1>8. OwnTarget /\ TargetLive /\ WakeLive /\ Built
  BY <1>2, <1>4, LabelSets DEF OwnTarget, TargetLive, WakeLive, Built, tgt
<1>9. Closed /\ Reaped /\ KillByte  BY <1>4, LabelSets DEF Closed, Reaped, KillByte
<1>10. DoomedCaller /\ NotStopped  BY <1>2, <1>3, Constants DEF DoomedCaller, NotStopped
<1>11. ExitedDead /\ WakeSure  BY <1>4 DEF ExitedDead, WakeSure, AtExit
<1> QED  BY <1>1, <1>5, <1>7, <1>8, <1>9, <1>10, <1>11 DEF SlotInv, Slots, Fates

LEMMA StutterSlots == SlotInv /\ UNCHANGED vars => SlotInv'
<1> SUFFICES ASSUME SlotInv, UNCHANGED vars PROVE SlotInv'  OBVIOUS
<1>1. Inv'  BY StutterInv DEF SlotInv
<1>2. Mailbox'  BY DEF SlotInv, Mailbox, vars
<1>3. Slots'
  BY DEF SlotInv, Slots, OwnTarget, TargetLive, WakeLive, Built, SlotsAccounted, Building, tgt, vars
<1>4. Fates'
  BY DEF SlotInv, Fates, Closed, Reaped, KillByte, DoomedCaller, Doomed, ExitedDead, WakeSure,
         Waited, WaitsFor, BlockedOn, NotStopped, tgt, vars
<1> QED  BY <1>1, <1>2, <1>3, <1>4 DEF SlotInv

LEMMA ActionSlots == SlotInv /\ Next => SlotInv' /\ LifeStep
<1> SUFFICES ASSUME SlotInv, Next PROVE SlotInv' /\ LifeStep  OBVIOUS
<1>1. Inv'  BY NextInv DEF SlotInv
<1>2. ASSUME NEW p \in Task, Step(p) PROVE SlotInv' /\ LifeStep
  BY <1>1, <1>2, PlainSlots, FileSlots, ConsoleSlots, ExitSlots, TerminateSlots, WaitpidSlots,
     SignalSlots, SpawnSlots DEF Step
<1> QED  BY <1>1, <1>2, IdleReapSlots, InterruptSlots DEF Next

LEMMA NextSlots == SlotInv /\ [Next]_vars => SlotInv'
BY ActionSlots, StutterSlots

LEMMA SlotInvariant == Spec => []SlotInv
BY InitSlots, NextSlots, PTL DEF Spec

\* Whoever is about to ring the RP doorbell owns FILE_IO and finds the
\* mailbox IDLE, so the entry test of rp_fs_exec never fails: for any number
\* of processes, and with kills, breaks and PID reuse.
THEOREM RequestsAllowed == Spec => []RequestAllowed
<1>1. SlotInv => RequestAllowed
  <2> SUFFICES ASSUME SlotInv, NEW p \in Task, pc[p] \in {"f_req", "x_close", "t_close", "p_clone"}
               PROVE  MayRequest(p)
    BY DEF RequestAllowed
  <2>1. Inv /\ pc[p] \in HoldsFileIO /\ pc[p] \notin Collecting
    BY LabelSets DEF SlotInv, HoldsFileIO
  <2>2. \A q \in Task : pc[q] \notin Collecting  BY <2>1, Mutex, LabelSets
  <2>3. gate_owner[FileIO] = p  BY <2>1, Constants DEF Inv, HolderOwns, Holds
  <2> QED  BY <2>2, <2>3 DEF MayRequest, SlotInv, Mailbox
<1> QED  BY <1>1, SlotInvariant, PTL

\* A live slot owns exactly one MMU context, an EMPTY one neither a context
\* nor descriptors, but for the slot a spawn is filling: exits, reaps, kills
\* and failed spawns leak nothing and free nothing twice.
THEOREM SlotsAreAccounted == Spec => []SlotsAccounted
<1>1. SlotInv => SlotsAccounted  BY DEF SlotInv, Slots
<1> QED  BY <1>1, SlotInvariant, PTL

\* The signal phase of the scheduler never takes a gate owner out of
\* scheduling: a process that owns a gate before and after a step leaves it
\* only at the store of its own exit, reap or KILL.
THEOREM OwnersAreSpared == Spec => SignalPhaseSparesOwners
<1> DEFINE Body ==
      \A g \in Gate, p \in Task :
          /\ gate_owner[g] = p /\ gate_owner'[g] = p
          /\ proc[p].state \notin Dead /\ proc'[p].state \in Dead \cup {"STOPPED"}
          => \E k \in Task : tgt(k) = p /\ \E l \in {"x_zomb", "t_empty", "k_zombie"} : At(k, l)
<1>1. SlotInv /\ SlotInv' /\ Next => Body
  <2> SUFFICES ASSUME SlotInv, SlotInv', Next, NEW g \in Gate, NEW p \in Task,
                      gate_owner[g] = p, gate_owner'[g] = p,
                      proc[p].state \notin Dead, proc'[p].state \in Dead \cup {"STOPPED"}
               PROVE  \E k \in Task : tgt(k) = p /\ \E l \in {"x_zomb", "t_empty", "k_zombie"} : At(k, l)
    OBVIOUS
  <2>1. proc'[p].state # "STOPPED"  BY DEF SlotInv, Fates, NotStopped
  <2>2. p \in Owners  BY DEF Owners
  <2> QED  BY <2>1, <2>2, ActionSlots DEF LifeStep, OwnersLive
<1>2. SlotInv /\ SlotInv' /\ [Next]_vars => [Body]_vars  BY <1>1
<1> HIDE DEF Body
<1>3. Spec => [][Body]_vars  BY <1>2, SlotInvariant, PTL DEF Spec
<1> QED  BY <1>3 DEF SignalPhaseSparesOwners, Body

\* Exit tests whether its parent waits and wakes it with IRQs enabled, and yet
\* its late wake never revives a parent that died in between: a zombie that
\* loses the CPU never gets it back.  Only the wake of a KILL, whose caller is
\* alive, does that, and then only to the parent of its target.
THEOREM ExitsReviveNobody == Spec => OnlyKillRevives
<1> DEFINE Body ==
      \A q \in Task : proc[q].state = "ZOMBIE" /\ proc'[q].state \notin Dead =>
          \E k \in Task : At(k, "k_wake") /\ proc[tgt(k)].parent = q
<1>1. SlotInv /\ Next => Body  BY ActionSlots DEF LifeStep, ZombiesStay
<1>2. SlotInv /\ [Next]_vars => [Body]_vars  BY <1>1
<1> HIDE DEF Body
<1>3. Spec => [][Body]_vars  BY <1>2, SlotInvariant, PTL DEF Spec
<1> QED  BY <1>3 DEF OnlyKillRevives, Body
=============================================================================
