---------------------------- MODULE KernelProofs ----------------------------
(***************************************************************************)
(* Proofs about Kernel, for every number of processes and contexts, every  *)
(* set of boot tasks and every choice of calls and signals.                *)
(***************************************************************************)
EXTENDS Kernel, TLAPS

Table == [Pid -> Row]

\* U revives nobody: what runs or is NEW in U does so in B.
Follows(U, B) ==
    /\ U \in Table
    /\ \A q \in Pid : /\ U[q].state = "RUNNING" => B[q].state = "RUNNING"
                      /\ U[q].state = "NEW" => B[q].state = "NEW"
Tame(T) == Follows(T, proc)

(***************************************************************************)
(* The inductive invariant.  HolderOwns is not inductive alone: a NEW      *)
(* process must not be resumed inside a gate's code, and publishing a      *)
(* child must not move the publisher's own program counter.                *)
(***************************************************************************)

\* A NEW process has never run.
NewRows == \A q \in Task : proc[q].state = "NEW" => pc[q] = "new"

\* The process that has the CPU owns its slot until its last release.
ActiveSlot ==
    active_pid \in Task => proc[active_pid].state # "EMPTY" \/ pc[active_pid] = "x_rel"

\* A spawn in progress builds a slot other than its caller's.
Filling == {"p_facq", "p_fclr", "p_gacq", "p_clone", "p_col", "p_pub", "p_back"}
SpawnTarget == \A q \in Task : pc[q] \in Filling => tgt(q) # q

Inv == TypeOK /\ OneRunning /\ HolderOwns /\ NewRows /\ ActiveSlot /\ SpawnTarget

----------------------------------------------------------------------------
(***************************************************************************)
(* The table operations keep the type of the table.                        *)
(***************************************************************************)
LEMMA Constants ==
    /\ Task \subseteq Pid /\ Gate \subseteq Pid /\ 0 \in Pid
    /\ Nobody \notin Pid /\ Idle \in Pid /\ Idle \notin Task
    /\ FileIO \in Gate /\ Proc \in Gate /\ FileIO # Proc
BY MaxProcsAssumption DEF Task, Pid, Gate, FileIO, Proc, Nobody, Idle

LEMMA EmptyRowType == EmptyRow \in Row
BY Constants DEF EmptyRow, Row, State, Reason, NoSignal, Nobody

LEMMA NewRowType ==
    ASSUME NEW b \in BOOLEAN
    PROVE  LET row == [EmptyRow EXCEPT !.state = "NEW", !.parent = Idle, !.catch = b]
           IN row \in Row /\ row.state = "NEW"
BY EmptyRowType, Constants DEF Row, State

LEMMA UnwaitedType ==
    ASSUME NEW row \in Row, NEW s \in State
    PROVE  Unwaited(row, s) \in Row /\ Unwaited(row, s).state = s
BY Constants DEF Unwaited, Row, Reason

\* Replacing one row by one that neither runs nor is NEW.
LEMMA ReplaceTame ==
    ASSUME NEW B, NEW T, Follows(T, B), NEW p \in Pid, NEW row \in Row, row.state \notin {"RUNNING", "NEW"}
    PROVE  Follows([T EXCEPT ![p] = row], B)
BY DEF Follows, Table

\* Replacing one row by one in the same state.
LEMMA SameStateTame ==
    ASSUME NEW B, NEW T, Follows(T, B), NEW p \in Pid, NEW row \in Row, row.state = T[p].state
    PROVE  Follows([T EXCEPT ![p] = row], B)
BY DEF Follows, Table

LEMMA SetWaitTame ==
    ASSUME NEW B, NEW T, Follows(T, B), NEW p \in Pid, NEW r \in Reason, NEW o \in Pid
    PROVE  Follows(SetWait(T, p, r, o), B)
BY DEF Follows, SetWait, Table, Row, State

LEMMA WakeTame ==
    ASSUME NEW B, NEW T, Follows(T, B), NEW p
    PROVE  Follows(Wake(T, p), B) /\ Follows(WakeUnchecked(T, p), B)
<1>1. CASE p \in Pid
  <2>1. T[p] \in Row  BY <1>1 DEF Follows, Table
  <2>2. Unwaited(T[p], "READY") \in Row /\ Unwaited(T[p], "READY").state = "READY"
    BY <2>1, UnwaitedType DEF State
  <2> QED  BY <1>1, <2>2, ReplaceTame DEF Wake, WakeUnchecked
<1>2. CASE p \notin Pid
  <2>1. \A x : [T EXCEPT ![p] = x] = T  BY <1>2 DEF Follows, Table
  <2> QED  BY <2>1 DEF Wake, WakeUnchecked
<1> QED  BY <1>1, <1>2

LEMMA WakeAllTame ==
    ASSUME NEW B, NEW T, Follows(T, B), NEW S
    PROVE  Follows(WakeAll(T, S), B)
<1>1. \A q \in Pid : T[q] \in Row  BY DEF Follows, Table
<1>2. \A q \in Pid : /\ Unwaited(T[q], "READY") \in Row
                     /\ Unwaited(T[q], "READY").state = "READY"
  BY <1>1, UnwaitedType DEF State
<1> QED  BY <1>1, <1>2 DEF Follows, WakeAll, Table

LEMMA DemoteTame ==
    ASSUME NEW B, NEW T, Follows(T, B), NEW p \in Pid
    PROVE  Follows(Demote(T, p), B)
BY DEF Follows, Demote, Table, Row, State

\* A pass of the signal phase revives nobody either.
LEMMA AfterSignalRow ==
    ASSUME NEW old \in Row, NEW dies \in BOOLEAN, NEW wakes \in BOOLEAN, NEW stops \in BOOLEAN
    PROVE  /\ AfterSignal(old, dies, wakes, stops) \in Row
           /\ \/ AfterSignal(old, dies, wakes, stops).state \in {"ZOMBIE", "STOPPED", "READY"}
              \/ AfterSignal(old, dies, wakes, stops).state = old.state
<1> DEFINE row == IF wakes THEN Unwaited(old, "READY") ELSE old
           quiet(r) == [r EXCEPT !.pending = NoSignal]
<1>1. row \in Row /\ (row.state = "READY" \/ row.state = old.state)
  BY UnwaitedType DEF State
<1>2. \A r \in Row : quiet(r) \in Row /\ quiet(r).state = r.state
  BY DEF Row, NoSignal
<1>3. \A s \in State : Unwaited(row, s) \in Row /\ Unwaited(row, s).state = s
  BY <1>1, UnwaitedType
<1> HIDE DEF row, quiet
<1>4. AfterSignal(old, dies, wakes, stops) =
         CASE dies -> quiet(Unwaited(row, "ZOMBIE"))
           [] ~dies /\ stops -> quiet(Unwaited(row, "STOPPED"))
           [] ~dies /\ ~stops /\ row.pending = "CONT" ->
                 quiet(IF row.state = "STOPPED" THEN Unwaited(row, "READY") ELSE row)
           [] OTHER -> row
  BY DEF AfterSignal, row, quiet
<1>5. CASE dies  BY <1>3, <1>2, <1>4, <1>5 DEF State
<1>6. CASE ~dies /\ stops  BY <1>3, <1>2, <1>4, <1>6 DEF State
<1>7. CASE ~dies /\ ~stops /\ row.pending = "CONT"
  BY <1>1, <1>3, <1>2, <1>4, <1>7 DEF State
<1>8. CASE ~dies /\ ~stops /\ row.pending # "CONT"  BY <1>1, <1>4, <1>8
<1> QED  BY <1>5, <1>6, <1>7, <1>8

LEMMA ApplySignalsTame ==
    ASSUME NEW B, NEW T, Follows(T, B), NEW own
    PROVE  Follows(ApplySignals(T, own), B)
<1> DEFINE d == SigDies(T, own)
           w == SigWakes(T, own)
           s == SigStops(T, own)
           after(q) == AfterSignal(T[q], q \in d, q \in w, q \in s)
<1>1. \A q \in Pid : T[q] \in Row  BY DEF Follows, Table
<1>2. \A q \in Pid : /\ after(q) \in Row
                     /\ \/ after(q).state \in {"ZOMBIE", "STOPPED", "READY"}
                        \/ after(q).state = T[q].state
  <2> TAKE q \in Pid
  <2>1. (q \in d) \in BOOLEAN /\ (q \in w) \in BOOLEAN /\ (q \in s) \in BOOLEAN  OBVIOUS
  <2> QED  BY <1>1, <2>1, AfterSignalRow
<1>3. ApplySignals(T, own) = [q \in Pid |-> IF q = Idle THEN T[q] ELSE after(q)]
  BY DEF ApplySignals
<1> HIDE DEF after
<1> QED  BY <1>1, <1>2, <1>3 DEF Follows, Table

----------------------------------------------------------------------------
(***************************************************************************)
(* What a step does to the core of the state, whether it ends in a         *)
(* scheduler pass or not: the program counters become pcs, except that a   *)
(* NEW process may have been started.                                      *)
(***************************************************************************)
Con == Task \cup {Nobody}

CoreOK ==
    /\ proc \in Table
    /\ wait_line \in [Gate -> Line]
    /\ active_pid \in Pid /\ sched_cursor \in Pid
    /\ pc \in [Task -> Label]
    /\ console_focus \in Con /\ console_owner \in Con

Moved(pcs) ==
    /\ CoreOK' /\ OneRunning' /\ NewRows' /\ ActiveSlot'
    /\ \A q \in Task : \/ pc'[q] = pcs[q]
                       \/ pcs[q] = "new" /\ pc'[q] \in {"user", "wild"}

LEMMA ProcTame == Inv => Tame(proc)
BY DEF Inv, TypeOK, Tame, Follows, Table

LEMMA SetRunningRows ==
    ASSUME NEW T \in Table, NEW n \in Pid
    PROVE  /\ SetRunning(T, n) \in Table
           /\ SetRunning(T, n)[n].state = "RUNNING"
           /\ \A q \in Pid \ {n} : /\ SetRunning(T, n)[q].state # "RUNNING"
                                   /\ SetRunning(T, n)[q].state = "NEW" => T[q].state = "NEW"
<1>1. \A q \in Pid, s \in State : /\ [T[q] EXCEPT !.state = s] \in Row
                                  /\ [T[q] EXCEPT !.state = s].state = s
  BY DEF Table, Row
<1> QED  BY <1>1 DEF SetRunning, Table, State

LEMMA LineType ==
    ASSUME NEW M \in Line
    PROVE  /\ \A S : Unlink(M, S) \in Line
           /\ \A p \in Task : Enqueue(M, p) \in Line
           /\ Waiters(M) \subseteq Task
BY DEF Line, Unlink, Enqueue, Waiters

LEMMA DispatchMoved ==
    ASSUME Inv, NEW T, Tame(T), NEW L \in [Gate -> Line], NEW own, NEW con \in Con,
           NEW pcs \in [Task -> Label],
           \A q \in Task : T[q].state = "NEW" => pcs[q] = "new",
           Dispatch(T, L, own, con, pcs)
    PROVE  Moved(pcs)
<1> DEFINE route == ValidRoute(T)
           owners == {own[g] : g \in Gate}
<1>1. route \in Con  BY DEF ValidRoute, Con
<1>2. console_focus' \in Con /\ console_owner' \in Con
  BY <1>1 DEF Dispatch
<1>3. PICK woken, table, n :
         /\ n \in Pid
         /\ \E S : woken = WakeAll(T, S)
         /\ table = ApplySignals(woken, owners)
         /\ proc' = SetRunning(table, n)
         /\ wait_line' = [g \in Gate |-> Unlink(L[g], SigDies(woken, owners))]
         /\ active_pid' = n
         /\ sched_cursor' = n
         /\ pc' = Resume(table, pcs, n)
  <2>1. PICK S : Select(T, L, own, pcs, S)  BY Zenon DEF Dispatch
  <2> QED  BY <2>1, Zenon DEF Select
<1>4. Follows(T, T)  BY DEF Tame, Follows
<1>5. Follows(woken, T)  BY <1>3, <1>4, WakeAllTame
<1>6. Follows(table, T)  BY <1>3, <1>5, ApplySignalsTame
<1>7. table \in Table  BY <1>6 DEF Follows
<1>8. /\ proc' \in Table /\ proc'[n].state = "RUNNING"
      /\ \A q \in Pid \ {n} : /\ proc'[q].state # "RUNNING"
                              /\ proc'[q].state = "NEW" => table[q].state = "NEW"
  <2>1. n \in Pid /\ proc' = SetRunning(table, n)  BY <1>3
  <2> QED  BY <1>7, <2>1, SetRunningRows
<1>9. wait_line' \in [Gate -> Line]  BY <1>3, LineType
<1>10. /\ pc' \in [Task -> Label]
       /\ \A q \in Task : \/ pc'[q] = pcs[q]
                          \/ pcs[q] = "new" /\ pc'[q] \in {"user", "wild"}
       /\ \A q \in Task : q # n => pc'[q] = pcs[q]
  BY <1>3, <1>6, Constants DEF Resume, Label, Follows
<1>11. n \in Pid /\ active_pid' = n /\ sched_cursor' = n  BY <1>3
<1>12. CoreOK'  BY <1>2, <1>8, <1>9, <1>10, <1>11 DEF CoreOK
<1>13. OneRunning'  BY <1>8, <1>11 DEF OneRunning
<1>14. NewRows'
  <2>1. SUFFICES ASSUME NEW q \in Task, proc'[q].state = "NEW" PROVE pc'[q] = "new"
    BY DEF NewRows
  <2>2. q # n /\ q \in Pid  BY <2>1, <1>8, Constants
  <2>3. T[q].state = "NEW"  BY <2>1, <2>2, <1>8, <1>6 DEF Follows
  <2> QED  BY <2>2, <2>3, <1>10
<1>15. ActiveSlot'  BY <1>8, <1>11 DEF ActiveSlot
<1> QED  BY <1>10, <1>12, <1>13, <1>14, <1>15 DEF Moved

LEMMA ContinueMoved ==
    ASSUME Inv, NEW p \in Task, active_pid = p, pc[p] # "new", NEW T, Tame(T),
           NEW L \in [Gate -> Line], NEW con \in Con, NEW to \in Label,
           T[p].state # "EMPTY" \/ to = "x_rel",
           Continue(p, T, L, con, to)
    PROVE  Moved(Goto(p, to))
<1>1. /\ proc' = T /\ wait_line' = L /\ console_owner' = con
      /\ pc' = [pc EXCEPT ![p] = to] /\ active_pid' = active_pid
      /\ sched_cursor' = sched_cursor /\ console_focus' = console_focus
  BY DEF Continue, cpu
<1>2. CoreOK'  BY <1>1 DEF CoreOK, Inv, TypeOK, Tame, Follows, Con
<1>3. OneRunning'  BY <1>1 DEF OneRunning, Inv, Tame, Follows
<1>4. NewRows'  BY <1>1, Constants DEF NewRows, Inv, Tame, Follows, TypeOK
<1>5. ActiveSlot'  BY <1>1 DEF ActiveSlot, Inv, TypeOK
<1> QED  BY <1>1, <1>2, <1>3, <1>4, <1>5 DEF Moved, Goto

\* A pass entered by p, which leaves its label for label to.
LEMMA DispatchGoto ==
    ASSUME Inv, NEW p \in Task, pc[p] # "new", NEW T, Tame(T),
           NEW L \in [Gate -> Line], NEW own, NEW con \in Con, NEW to \in Label,
           Dispatch(T, L, own, con, Goto(p, to))
    PROVE  Moved(Goto(p, to))
<1>1. Goto(p, to) \in [Task -> Label]  BY DEF Goto, Inv, TypeOK
<1>2. \A q \in Task : T[q].state = "NEW" => Goto(p, to)[q] = "new"
  BY Constants DEF Goto, Inv, TypeOK, Tame, Follows, NewRows
<1> QED  BY <1>1, <1>2, DispatchMoved

\* A pass entered from an interrupt.
LEMMA DispatchIrq ==
    ASSUME Inv, NEW T, Tame(T), Dispatch(T, wait_line, gate_owner, console_owner, pc)
    PROVE  Moved(pc)
<1>1. /\ pc \in [Task -> Label] /\ wait_line \in [Gate -> Line] /\ console_owner \in Con
  BY DEF Inv, TypeOK, Con
<1>2. \A q \in Task : T[q].state = "NEW" => pc[q] = "new"
  BY Constants DEF Inv, Tame, Follows, NewRows
<1> QED  BY <1>1, <1>2, DispatchMoved

----------------------------------------------------------------------------
(***************************************************************************)
(* The rest of the state, and the two ways to preserve the invariant.      *)
(***************************************************************************)
RestOK ==
    /\ fds \in [Task -> {"none", "open", "file"}]
    /\ context_owner \in [Context -> Con]
    /\ rp \in {"IDLE", "BUSY", "DONE"}
    /\ rp_route \in Routes
    /\ self_kill \in BOOLEAN

\* A step of p to label to takes and leaves gates as the label says.
GatesFollow(p, to) ==
    /\ gate_owner' \in [Gate -> Pid \cup {Nobody}]
    /\ \A g \in Gate :
          \/ gate_owner'[g] = gate_owner[g] /\ (to \in Holds(g) <=> pc[p] \in Holds(g))
          \/ gate_owner[g] = Nobody /\ gate_owner'[g] = p /\ to \in Holds(g)
          \/ gate_owner[g] = p /\ gate_owner'[g] = Nobody /\ to \notin Holds(g)

ArgsFollow(p, to) ==
    /\ arg' \in [Task -> Arg]
    /\ \A q \in Task \ {p} : arg'[q] = arg[q]
    /\ to \in Filling => arg'[p].pid # p

LEMMA LabelFacts ==
    /\ \A g \in Gate, l \in {"none", "new", "wild", "user"} : l \notin Holds(g)
    /\ \A l \in {"none", "new", "wild", "user"} : l \in Label /\ l \notin Filling
BY DEF Holds, HoldsFileIO, HoldsProc, Label, Filling

LEMMA InvStep ==
    ASSUME Inv, NEW p \in Task, NEW to \in Label, to # "new",
           Moved(Goto(p, to)), GatesFollow(p, to), ArgsFollow(p, to), RestOK'
    PROVE  Inv'
<1>1. TypeOK'  BY DEF Moved, CoreOK, GatesFollow, ArgsFollow, RestOK, TypeOK, Table, Con
<1>2. /\ pc'[p] = to
      /\ \A q \in Task \ {p} : pc'[q] = pc[q] \/ (pc[q] = "new" /\ pc'[q] \in {"user", "wild"})
  BY DEF Moved, Goto, Inv, TypeOK
<1>3. HolderOwns'
  <2>1. SUFFICES ASSUME NEW g \in Gate, NEW q \in Task
                 PROVE  (pc'[q] \in Holds(g)) <=> gate_owner'[g] = q
    BY DEF HolderOwns, Holds
  <2>2. (pc[q] \in Holds(g)) <=> gate_owner[g] = q  BY DEF Inv, HolderOwns
  <2>3. (pc[p] \in Holds(g)) <=> gate_owner[g] = p  BY DEF Inv, HolderOwns
  <2>4. CASE q = p  BY <1>2, <2>2, <2>3, <2>4, Constants DEF GatesFollow
  <2>5. CASE q # p
    <3>1. (pc'[q] \in Holds(g)) <=> (pc[q] \in Holds(g))  BY <1>2, <2>5, LabelFacts
    <3> QED  BY <2>2, <2>3, <2>5, <3>1, Constants DEF GatesFollow
  <2> QED  BY <2>4, <2>5
<1>4. SpawnTarget'
  BY <1>2, LabelFacts DEF Inv, SpawnTarget, ArgsFollow, tgt
<1> QED  BY <1>1, <1>3, <1>4 DEF Moved, Inv

\* A step of an interrupt or of the idle task moves no program counter.
LEMMA InvIrq ==
    ASSUME Inv, Moved(pc), UNCHANGED <<gate_owner, arg>>, RestOK'
    PROVE  Inv'
<1>1. TypeOK'  BY DEF Moved, CoreOK, RestOK, TypeOK, Table, Con, Inv
<1>2. \A q \in Task : pc'[q] = pc[q] \/ (pc[q] = "new" /\ pc'[q] \in {"user", "wild"})
  BY DEF Moved
<1>3. HolderOwns'
  <2>1. SUFFICES ASSUME NEW g \in Gate, NEW q \in Task
                 PROVE  (pc'[q] \in Holds(g)) <=> gate_owner'[g] = q
    BY DEF HolderOwns, Holds
  <2>2. (pc'[q] \in Holds(g)) <=> (pc[q] \in Holds(g))  BY <1>2, LabelFacts
  <2> QED  BY <2>2 DEF Inv, HolderOwns
<1>4. SpawnTarget'  BY <1>2, LabelFacts DEF Inv, SpawnTarget, tgt
<1> QED  BY <1>1, <1>3, <1>4 DEF Moved, Inv

LEMMA RestUnchanged == Inv /\ UNCHANGED others => RestOK'
BY DEF Inv, TypeOK, RestOK, others, holdings, Con

----------------------------------------------------------------------------
(***************************************************************************)
(* The building blocks of the actions.  SameGates, TakesGate and LeavesGate *)
(* are what the labels of a step must say about the gates.                 *)
(***************************************************************************)
SameGates(from, to)     == \A h \in Gate : to \in Holds(h) <=> from \in Holds(h)
TakesGate(g, from, to)  == \A h \in Gate : to \in Holds(h) <=> h = g \/ from \in Holds(h)
LeavesGate(g, from, to) == \A h \in Gate : to \in Holds(h) <=> h # g /\ from \in Holds(h)

\* The process that runs kernel code has its slot and has been started.
LEMMA RunnerFacts ==
    ASSUME Inv, NEW p \in Task, NEW from, At(p, from), from # "x_rel"
    PROVE  active_pid = p /\ pc[p] = from /\ proc[p].state # "EMPTY"
BY DEF At, Inv, ActiveSlot

LEMMA LocalInv ==
    ASSUME Inv, NEW p \in Task, NEW from \in Label \ {"new"}, NEW to \in Label \ {"new"},
           NEW T, Tame(T), T[p].state # "EMPTY" \/ to = "x_rel",
           SameGates(from, to), Local(p, from, T, to), ArgsFollow(p, to), RestOK'
    PROVE  Inv'
<1>1. active_pid = p /\ pc[p] = from /\ UNCHANGED gate_owner
  BY DEF Local, At
<1>2. Moved(Goto(p, to))
  <2>1. wait_line \in [Gate -> Line] /\ console_owner \in Con  BY DEF Inv, TypeOK, Con
  <2> QED  BY <1>1, <2>1, ContinueMoved DEF Local
<1>3. GatesFollow(p, to)  BY <1>1 DEF GatesFollow, SameGates, Inv, TypeOK
<1> QED  BY <1>2, <1>3, InvStep

LEMMA AcquireInv ==
    ASSUME Inv, NEW p \in Task, NEW g \in Gate, NEW from \in Label \ {"new", "x_rel"},
           NEW retry \in Label \ {"new"}, NEW to \in Label \ {"new"}, NEW refused,
           from \notin Holds(g), SameGates(from, retry), TakesGate(g, from, to),
           Acquire(p, g, from, retry, to, refused),
           ArgsFollow(p, to), ArgsFollow(p, retry)
    PROVE  Inv'
<1>1. active_pid = p /\ pc[p] = from /\ proc[p].state # "EMPTY"
  BY RunnerFacts DEF Acquire
<1>2. gate_owner[g] # p  BY <1>1 DEF Inv, HolderOwns
<1>3. RestOK'  BY RestUnchanged DEF Acquire
<1>4. wait_line \in [Gate -> Line] /\ console_owner \in Con /\ p \in Pid
  BY Constants DEF Inv, TypeOK, Con
<1>5. CASE /\ gate_owner[g] = Nobody
           /\ gate_owner' = [gate_owner EXCEPT ![g] = p]
           /\ Continue(p, proc, wait_line, console_owner, to)
  <2>1. Moved(Goto(p, to))  BY <1>1, <1>4, <1>5, ProcTame, ContinueMoved
  <2>2. GatesFollow(p, to)
    BY <1>1, <1>4, <1>5 DEF GatesFollow, TakesGate, Inv, TypeOK
  <2> QED  BY <1>3, <2>1, <2>2, InvStep
<1>6. CASE /\ Dispatch(SetWait(proc, p, "LOCK", g), [wait_line EXCEPT ![g] = Enqueue(@, p)],
                       gate_owner, console_owner, Goto(p, retry))
           /\ UNCHANGED gate_owner
  <2>1. Tame(SetWait(proc, p, "LOCK", g))
    BY <1>4, ProcTame, SetWaitTame, Constants DEF Tame, Reason
  <2>2. [wait_line EXCEPT ![g] = Enqueue(@, p)] \in [Gate -> Line]  BY <1>4, LineType
  <2>3. Moved(Goto(p, retry))  BY <1>1, <1>4, <1>6, <2>1, <2>2, DispatchGoto
  <2>4. GatesFollow(p, retry)  BY <1>1, <1>6 DEF GatesFollow, SameGates, Inv, TypeOK
  <2> QED  BY <1>3, <2>3, <2>4, InvStep
<1> QED  BY <1>2, <1>5, <1>6 DEF Acquire

LEMMA ReleaseTame ==
    ASSUME Inv, NEW T, Tame(T), NEW g \in Gate
    PROVE  Tame(ReleaseWake(T, g)) /\ ReleaseLine(g) \in [Gate -> Line]
<1>1. Tame(ReleaseWake(T, g))  BY WakeTame DEF ReleaseWake, Tame
<1>2. ReleaseLine(g) \in [Gate -> Line]  BY LineType DEF ReleaseLine, Inv, TypeOK
<1> QED  BY <1>1, <1>2

LEMMA ReleaseWakeSlot ==
    ASSUME NEW T \in Table, NEW g, NEW p \in Pid, T[p].state # "EMPTY"
    PROVE  ReleaseWake(T, g)[p].state # "EMPTY"
<1>1. \A q \in Pid : Unwaited(T[q], "READY").state = "READY"
  BY UnwaitedType DEF State, Table
<1>2. \A h : Wake(T, h)[p].state # "EMPTY"  BY <1>1 DEF Wake, Table
<1> QED  BY <1>2 DEF ReleaseWake

LEMMA ReleaseInv ==
    ASSUME Inv, NEW p \in Task, NEW g \in Gate, NEW from \in Label \ {"new"},
           NEW to \in Label \ {"new"}, NEW T, Tame(T), T[p].state # "EMPTY", NEW con \in Con,
           from \in Holds(g), LeavesGate(g, from, to),
           Release(p, g, T, con, from, to), ArgsFollow(p, to), RestOK'
    PROVE  Inv'
<1> DEFINE own == [gate_owner EXCEPT ![g] = Nobody]
<1>1. active_pid = p /\ pc[p] = from  BY DEF Release, At
<1>2. gate_owner[g] = p  BY <1>1 DEF Inv, HolderOwns
<1>3. gate_owner' = own  BY <1>2 DEF Release
<1>4. p \in Pid /\ T \in Table  BY Constants DEF Tame, Follows
<1>5. /\ Tame(ReleaseWake(T, g)) /\ ReleaseLine(g) \in [Gate -> Line]
      /\ ReleaseWake(T, g)[p].state # "EMPTY"
  BY <1>4, ReleaseTame, ReleaseWakeSlot
<1>6. Moved(Goto(p, to))
  <2>1. CASE Continue(p, ReleaseWake(T, g), ReleaseLine(g), con, to)
    BY <1>1, <1>5, <2>1, ContinueMoved
  <2>2. CASE Dispatch(Demote(ReleaseWake(T, g), p), ReleaseLine(g), own, con, Goto(p, to))
    <3>1. Tame(Demote(ReleaseWake(T, g), p))  BY <1>4, <1>5, DemoteTame DEF Tame
    <3> QED  BY <1>1, <1>5, <2>2, <3>1, DispatchGoto
  <2> QED  BY <1>2, <2>1, <2>2 DEF Release
<1>7. GatesFollow(p, to)
  BY <1>1, <1>2, <1>3 DEF GatesFollow, LeavesGate, Inv, TypeOK
<1> QED  BY <1>6, <1>7, InvStep

\* A step of p that ends in a pass and leaves the gates alone.
LEMMA PassInv ==
    ASSUME Inv, NEW p \in Task, NEW from \in Label \ {"new"}, NEW to \in Label \ {"new"},
           NEW T, Tame(T), At(p, from), SameGates(from, to), UNCHANGED gate_owner,
           Dispatch(T, wait_line, gate_owner, console_owner, Goto(p, to)),
           ArgsFollow(p, to), RestOK'
    PROVE  Inv'
<1>1. pc[p] = from  BY DEF At
<1>2. wait_line \in [Gate -> Line] /\ console_owner \in Con  BY DEF Inv, TypeOK, Con
<1>3. Moved(Goto(p, to))  BY <1>1, <1>2, DispatchGoto
<1>4. GatesFollow(p, to)  BY <1>1 DEF GatesFollow, SameGates, Inv, TypeOK
<1> QED  BY <1>3, <1>4, InvStep

----------------------------------------------------------------------------
(***************************************************************************)
(* What the labels of every step say, checked once for all the actions.    *)
(***************************************************************************)
KeepsFilling(from, to) == to \in Filling => from \in Filling

AcquireLabels(g, from, retry, to) ==
    /\ from \in Label \ {"new", "x_rel"} /\ {retry, to} \subseteq Label \ {"new"}
    /\ from \notin Holds(g) /\ SameGates(from, retry) /\ TakesGate(g, from, to)
    /\ KeepsFilling(from, to) /\ KeepsFilling(from, retry)

ReleaseLabels(g, from, to) ==
    /\ {from, to} \subseteq Label \ {"new"} /\ from # "x_rel"
    /\ from \in Holds(g) /\ LeavesGate(g, from, to) /\ KeepsFilling(from, to)

LocalLabels(from, to) ==
    /\ {from, to} \subseteq Label \ {"new"} /\ from # "x_rel"
    /\ SameGates(from, to) /\ KeepsFilling(from, to)

LEMMA AcquireLabelFacts ==
    /\ AcquireLabels(FileIO, "user", "f_acq", "f_req")
    /\ AcquireLabels(FileIO, "f_acq", "f_acq", "f_req")
    /\ AcquireLabels(FileIO, "user", "c_acq", "c_chk")
    /\ AcquireLabels(FileIO, "c_acq", "c_acq", "c_chk")
    /\ AcquireLabels(Proc, "user", "x_acq", "x_life")
    /\ AcquireLabels(Proc, "x_acq", "x_acq", "x_life")
    /\ AcquireLabels(FileIO, "x_facq", "x_facq", "x_close")
    /\ AcquireLabels(FileIO, "t_facq", "t_facq", "t_close")
    /\ AcquireLabels(Proc, "user", "w_acq", "w_chk")
    /\ AcquireLabels(Proc, "w_acq", "w_acq", "w_chk")
    /\ AcquireLabels(Proc, "user", "s_acq", "s_chk")
    /\ AcquireLabels(Proc, "s_acq", "s_acq", "s_chk")
    /\ AcquireLabels(Proc, "user", "p_acq", "p_alloc")
    /\ AcquireLabels(Proc, "p_acq", "p_acq", "p_alloc")
    /\ AcquireLabels(FileIO, "p_facq", "p_facq", "p_fclr")
    /\ AcquireLabels(FileIO, "p_gacq", "p_gacq", "p_clone")
BY DEF AcquireLabels, SameGates, TakesGate, KeepsFilling, Label, Filling, Holds, HoldsFileIO,
       HoldsProc, Gate, FileIO, Proc

LEMMA ReleaseLabelFacts ==
    /\ ReleaseLabels(FileIO, "f_req", "user") /\ ReleaseLabels(FileIO, "f_col", "user")
    /\ ReleaseLabels(FileIO, "c_chk", "user") /\ ReleaseLabels(FileIO, "c_chk", "c_blk")
    /\ ReleaseLabels(FileIO, "x_close", "x_zomb") /\ ReleaseLabels(FileIO, "t_close", "t_empty")
    /\ ReleaseLabels(Proc, "w_chk", "user") /\ ReleaseLabels(Proc, "w_wait", "w_acq")
    /\ ReleaseLabels(Proc, "w_con", "user")
    /\ ReleaseLabels(Proc, "s_chk", "user") /\ ReleaseLabels(Proc, "s_set", "s_ret")
    /\ ReleaseLabels(Proc, "k_clear", "s_ret") /\ ReleaseLabels(Proc, "k_parent", "s_ret")
    /\ ReleaseLabels(Proc, "k_wake", "s_ret")
    /\ ReleaseLabels(FileIO, "p_fclr", "p_gacq") /\ ReleaseLabels(FileIO, "p_con", "p_rel")
    /\ ReleaseLabels(Proc, "p_rel", "p_ret")
    /\ ReleaseLabels(FileIO, "p_back", "p_err") /\ ReleaseLabels(Proc, "p_err", "user")
BY DEF ReleaseLabels, LeavesGate, KeepsFilling, Label, Filling, Holds, HoldsFileIO, HoldsProc,
       Gate, FileIO, Proc

LEMMA LocalLabelFacts ==
    /\ LocalLabels("f_req", "f_col") /\ LocalLabels("c_blk", "c_acq")
    /\ LocalLabels("x_life", "x_facq") /\ LocalLabels("x_life", "t_facq")
    /\ LocalLabels("x_close", "x_col") /\ LocalLabels("x_col", "x_close")
    /\ LocalLabels("x_zomb", "x_parent") /\ LocalLabels("x_parent", "x_wake")
    /\ LocalLabels("x_parent", "x_rel") /\ LocalLabels("x_wake", "x_rel")
    /\ LocalLabels("t_close", "t_col") /\ LocalLabels("t_col", "t_close")
    /\ LocalLabels("t_empty", "x_rel") /\ LocalLabels("t_empty", "w_con")
    /\ LocalLabels("w_chk", "t_facq") /\ LocalLabels("w_chk", "w_wait")
    /\ LocalLabels("s_chk", "k_clear") /\ LocalLabels("s_chk", "s_set")
    /\ LocalLabels("k_clear", "k_cancel") /\ LocalLabels("k_cancel", "k_zombie")
    /\ LocalLabels("k_zombie", "k_parent") /\ LocalLabels("k_parent", "k_wake")
    /\ LocalLabels("s_ret", "user") /\ LocalLabels("user", "user")
    /\ LocalLabels("p_alloc", "p_err") /\ LocalLabels("p_clone", "p_col")
    /\ LocalLabels("p_clone", "p_back") /\ LocalLabels("p_col", "p_pub")
    /\ LocalLabels("p_col", "p_back") /\ LocalLabels("p_ret", "user")
BY DEF LocalLabels, SameGates, KeepsFilling, Label, Filling, Holds, HoldsFileIO, HoldsProc,
       Gate, FileIO, Proc

\* The operands of a call: kept, or replaced on the way to a label where no
\* child is being built.
LEMMA ArgsKept ==
    ASSUME Inv, NEW p \in Task, NEW to, KeepsFilling(pc[p], to), UNCHANGED arg
    PROVE  ArgsFollow(p, to)
BY DEF ArgsFollow, KeepsFilling, Inv, TypeOK, SpawnTarget, tgt

LEMMA ArgsReplaced ==
    ASSUME Inv, NEW p \in Task, NEW to, to \notin Filling, NEW a \in Arg,
           arg' = [arg EXCEPT ![p] = a]
    PROVE  ArgsFollow(p, to)
BY DEF ArgsFollow, Inv, TypeOK

LEMMA NoArgType == \A p \in Task : NoArg(p) \in Arg
BY DEF NoArg, Arg, NoSignal

LEMMA TargetType == Inv => \A p \in Task : tgt(p) \in Task /\ arg[p].sig \in Signal \cup {NoSignal}
BY DEF Inv, TypeOK, Arg, tgt

\* The same building blocks with the operands unchanged.
LEMMA AcquireKept ==
    ASSUME Inv, NEW p \in Task, NEW g \in Gate, NEW from, NEW retry, NEW to, NEW refused,
           AcquireLabels(g, from, retry, to), Acquire(p, g, from, retry, to, refused),
           UNCHANGED arg
    PROVE  Inv'
<1>1. pc[p] = from  BY DEF Acquire, At
<1>2. ArgsFollow(p, to) /\ ArgsFollow(p, retry)  BY <1>1, ArgsKept DEF AcquireLabels
<1> QED  BY <1>2, AcquireInv DEF AcquireLabels

LEMMA ReleaseKept ==
    ASSUME Inv, NEW p \in Task, NEW g \in Gate, NEW from, NEW to, NEW T, NEW con \in Con,
           Tame(T), T[p].state # "EMPTY", ReleaseLabels(g, from, to),
           Release(p, g, T, con, from, to), UNCHANGED arg, RestOK'
    PROVE  Inv'
<1>1. pc[p] = from  BY DEF Release, At
<1>2. ArgsFollow(p, to)  BY <1>1, ArgsKept DEF ReleaseLabels
<1> QED  BY <1>2, ReleaseInv DEF ReleaseLabels

LEMMA LocalKept ==
    ASSUME Inv, NEW p \in Task, NEW from, NEW to, NEW T, Tame(T),
           T[p].state # "EMPTY" \/ to = "x_rel",
           LocalLabels(from, to), Local(p, from, T, to), UNCHANGED arg, RestOK'
    PROVE  Inv'
<1>1. pc[p] = from  BY DEF Local, At
<1>2. ArgsFollow(p, to)  BY <1>1, ArgsKept DEF LocalLabels
<1> QED  BY <1>2, LocalInv DEF LocalLabels

LEMMA PassKept ==
    ASSUME Inv, NEW p \in Task, NEW from, NEW to, NEW T, Tame(T), At(p, from),
           LocalLabels(from, to), UNCHANGED <<gate_owner, arg>>,
           Dispatch(T, wait_line, gate_owner, console_owner, Goto(p, to)), RestOK'
    PROVE  Inv'
<1>1. pc[p] = from  BY DEF At
<1>2. ArgsFollow(p, to)  BY <1>1, ArgsKept DEF LocalLabels
<1> QED  BY <1>2, PassInv DEF LocalLabels

LEMMA RequestInv ==
    ASSUME Inv, NEW p \in Task, NEW from, NEW collect, LocalLabels(from, collect),
           RpRequest(p, from, collect), fds' \in [Task -> {"none", "open", "file"}]
    PROVE  Inv'
<1>1. p \in Pid /\ 0 \in Pid /\ "RP" \in Reason  BY Constants DEF Reason
<1>2. Tame(SetWait(proc, p, "RP", 0))  BY <1>1, ProcTame, SetWaitTame DEF Tame
<1>3. RestOK'  BY DEF RpRequest, RestOK, Inv, TypeOK, Con
<1> QED  BY <1>2, <1>3, PassKept DEF RpRequest

----------------------------------------------------------------------------
(***************************************************************************)
(* The calls, one lemma each.                                              *)
(***************************************************************************)
LEMMA CallerSlot ==
    ASSUME Inv, NEW p \in Task, NEW from, At(p, from), from # "x_rel"
    PROVE  Tame(proc) /\ proc[p].state # "EMPTY" /\ console_owner \in Con
BY RunnerFacts, ProcTame DEF Inv, TypeOK, Con

LEMMA PlainInv ==
    ASSUME Inv, NEW p \in Task, SysYield(p) \/ SysSleep(p)
    PROVE  Inv'
<1>1. At(p, "user") /\ UNCHANGED <<gate_owner, arg, others>>  BY DEF SysYield, SysSleep
<1>2. Goto(p, "user") = pc  BY <1>1 DEF At, Goto, Inv, TypeOK
<1>3. RestOK'  BY <1>1, RestUnchanged
<1>4. p \in Pid /\ 0 \in Pid /\ "TIMER" \in Reason  BY Constants DEF Reason
<1>5. Tame(Demote(proc, p)) /\ Tame(SetWait(proc, p, "TIMER", 0))
  BY <1>4, ProcTame, DemoteTame, SetWaitTame DEF Tame
<1> QED  BY <1>1, <1>2, <1>3, <1>5, PassKept, LocalLabelFacts DEF SysYield, SysSleep

LEMMA FileInv ==
    ASSUME Inv, NEW p \in Task, FileCall(p)
    PROVE  Inv'
<1>1. CASE SysFile(p)  BY <1>1, AcquireKept, AcquireLabelFacts, Constants DEF SysFile
<1>2. CASE FileLock(p)  BY <1>2, AcquireKept, AcquireLabelFacts, Constants DEF FileLock
<1>3. CASE FileExec(p)
  BY <1>3, RequestInv, LocalLabelFacts DEF FileExec, Inv, TypeOK
<1>4. CASE FileFails(p)
  <2>1. /\ Release(p, FileIO, proc, console_owner, "f_req", "user") /\ UNCHANGED arg /\ RestOK'
    BY <1>4, RestUnchanged DEF FileFails
  <2>2. Tame(proc) /\ proc[p].state # "EMPTY" /\ console_owner \in Con
    BY <2>1, CallerSlot DEF Release
  <2> QED  BY <2>1, <2>2, ReleaseKept, ReleaseLabelFacts, Constants
<1>5. CASE FileResult(p)
  <2>1. Release(p, FileIO, proc, console_owner, "f_col", "user") /\ UNCHANGED arg
    BY <1>5 DEF FileResult
  <2>2. RestOK'  BY <1>5 DEF FileResult, RestOK, Inv, TypeOK, Con
  <2>3. Tame(proc) /\ proc[p].state # "EMPTY" /\ console_owner \in Con
    BY <2>1, CallerSlot DEF Release
  <2> QED  BY <2>1, <2>2, <2>3, ReleaseKept, ReleaseLabelFacts, Constants
<1> QED  BY <1>1, <1>2, <1>3, <1>4, <1>5 DEF FileCall

LEMMA ConsoleInv ==
    ASSUME Inv, NEW p \in Task, ConsoleCall(p)
    PROVE  Inv'
<1>1. CASE SysConsole(p)  BY <1>1, AcquireKept, AcquireLabelFacts, Constants DEF SysConsole
<1>2. CASE ConsoleLock(p)  BY <1>2, AcquireKept, AcquireLabelFacts, Constants DEF ConsoleLock
<1>3. CASE ConsoleRead(p)
  <2> DEFINE quiet == [proc EXCEPT ![p].pending = NoSignal]
  <2>1. PICK T \in {proc, quiet}, con \in Con, to \in {"user", "c_blk"} :
           Release(p, FileIO, T, con, "c_chk", to)
    BY <1>3 DEF ConsoleRead, Inv, TypeOK, Con
  <2>2. UNCHANGED arg /\ RestOK'  BY <1>3, RestUnchanged DEF ConsoleRead
  <2>3. Tame(proc) /\ proc[p].state # "EMPTY"  BY <2>1, CallerSlot DEF Release
  <2>4. Tame(quiet) /\ quiet[p].state # "EMPTY"
    BY <2>3, Constants DEF Tame, Follows, Table, Row
  <2>5. Tame(T) /\ T[p].state # "EMPTY"  BY <2>1, <2>3, <2>4
  <2>6. ReleaseLabels(FileIO, "c_chk", to)  BY <2>1, ReleaseLabelFacts
  <2> QED  BY <2>1, <2>2, <2>5, <2>6, ReleaseKept, Constants
<1>4. CASE ConsoleBlock(p)
  <2>1. p \in Pid /\ 0 \in Pid /\ "CONSOLE" \in Reason  BY Constants DEF Reason
  <2>2. Tame(SetWait(proc, p, "CONSOLE", 0))  BY <2>1, ProcTame, SetWaitTame DEF Tame
  <2>3. RestOK'  BY <1>4, RestUnchanged DEF ConsoleBlock
  <2> QED  BY <1>4, <2>2, <2>3, PassKept, LocalLabelFacts DEF ConsoleBlock
<1> QED  BY <1>1, <1>2, <1>3, <1>4 DEF ConsoleCall

\* fd_close_process, for an exit and for a termination.
LEMMA CloseInv ==
    ASSUME Inv, NEW p \in Task, NEW t \in Task, NEW from, NEW collect, NEW to,
           LocalLabels(from, collect), LocalLabels(collect, from),
           ReleaseLabels(FileIO, from, to),
           \/ CloseFile(p, t, from, collect)
           \/ FileClosed(p, t, collect, from)
           \/ CloseRest(p, t, from, to)
    PROVE  Inv'
<1>1. CASE CloseFile(p, t, from, collect)
  BY <1>1, RequestInv DEF CloseFile, Inv, TypeOK
<1>2. CASE FileClosed(p, t, collect, from)
  <2>1. Local(p, collect, proc, from) /\ UNCHANGED arg  BY <1>2 DEF FileClosed
  <2>2. RestOK'  BY <1>2 DEF FileClosed, RestOK, Inv, TypeOK, Con
  <2>3. Tame(proc) /\ proc[p].state # "EMPTY"
    BY <2>1, CallerSlot DEF Local, LocalLabels
  <2> QED  BY <2>1, <2>2, <2>3, LocalKept
<1>3. CASE CloseRest(p, t, from, to)
  <2>1. Release(p, FileIO, proc, console_owner, from, to) /\ UNCHANGED arg
    BY <1>3 DEF CloseRest
  <2>2. RestOK'  BY <1>3 DEF CloseRest, RestOK, Inv, TypeOK, Con
  <2>3. Tame(proc) /\ proc[p].state # "EMPTY" /\ console_owner \in Con
    BY <2>1, CallerSlot DEF Release, ReleaseLabels
  <2> QED  BY <2>1, <2>2, <2>3, ReleaseKept, Constants
<1> QED  BY <1>1, <1>2, <1>3

\* The two releases that end in a pass of their own.
LEMMA YieldingReleaseInv ==
    ASSUME Inv, NEW p \in Task, NEW g \in Gate, NEW from \in Label \ {"new"},
           NEW to \in Label \ {"new"}, NEW T, Tame(T), At(p, from),
           from \in Holds(g), LeavesGate(g, from, to), to \notin Filling,
           gate_owner' = [gate_owner EXCEPT ![g] = Nobody],
           Dispatch(T, ReleaseLine(g), [gate_owner EXCEPT ![g] = Nobody], console_owner,
                    Goto(p, to)),
           UNCHANGED <<arg, others>>
    PROVE  Inv'
<1>1. active_pid = p /\ pc[p] = from  BY DEF At
<1>2. gate_owner[g] = p  BY <1>1 DEF Inv, HolderOwns
<1>3. ReleaseLine(g) \in [Gate -> Line] /\ console_owner \in Con
  BY ReleaseTame, ProcTame DEF Inv, TypeOK, Con
<1>4. Moved(Goto(p, to))  BY <1>1, <1>3, DispatchGoto
<1>5. GatesFollow(p, to)
  BY <1>1, <1>2 DEF GatesFollow, LeavesGate, Inv, TypeOK
<1>6. ArgsFollow(p, to)  BY DEF ArgsFollow, Inv, TypeOK
<1> QED  BY <1>4, <1>5, <1>6, InvStep, RestUnchanged

LEMMA FreeContextType ==
    ASSUME Inv, NEW t
    PROVE  FreeContext(t) \in [Context -> Con]
BY DEF FreeContext, Inv, TypeOK, Con

LEMMA ExitInv ==
    ASSUME Inv, NEW p \in Task, ExitCall(p)
    PROVE  Inv'
<1>0. p \in Pid /\ proc[p] \in Row  BY Constants DEF Inv, TypeOK
<1>1. CASE SysExit(p)  BY <1>1, AcquireKept, AcquireLabelFacts, Constants DEF SysExit
<1>2. CASE ExitLock(p)  BY <1>2, AcquireKept, AcquireLabelFacts, Constants DEF ExitLock
<1>3. CASE ExitLife(p)
  <2>1. PICK to \in {"x_facq", "t_facq"} : Local(p, "x_life", proc, to)
    BY <1>3 DEF ExitLife
  <2>2. RestOK' /\ UNCHANGED arg  BY <1>3, RestUnchanged DEF ExitLife
  <2>3. Tame(proc) /\ proc[p].state # "EMPTY"  BY <2>1, CallerSlot DEF Local
  <2> QED  BY <2>1, <2>2, <2>3, LocalKept, LocalLabelFacts
<1>4. CASE ExitFileLock(p)  BY <1>4, AcquireKept, AcquireLabelFacts, Constants DEF ExitFileLock
<1>5. CASE ExitCloseFile(p) \/ ExitFileClosed(p) \/ ExitClose(p)
  BY <1>5, CloseInv, LocalLabelFacts, ReleaseLabelFacts
  DEF ExitCloseFile, ExitFileClosed, ExitClose
<1>6. CASE ExitZombie(p)
  <2> DEFINE row == [Unwaited(proc[p], "ZOMBIE") EXCEPT !.pending = NoSignal]
  <2>1. row \in Row /\ row.state = "ZOMBIE"
    BY <1>0, UnwaitedType DEF Row, State, NoSignal
  <2> HIDE DEF row
  <2>2. Local(p, "x_zomb", [proc EXCEPT ![p] = row], "x_parent") /\ UNCHANGED arg /\ RestOK'
    BY <1>6, RestUnchanged DEF ExitZombie, row
  <2>3. Tame([proc EXCEPT ![p] = row])
    BY <1>0, <2>1, ProcTame, ReplaceTame DEF Tame
  <2>4. [proc EXCEPT ![p] = row][p].state # "EMPTY"  BY <1>0, <2>1 DEF Inv, TypeOK
  <2> QED  BY <2>2, <2>3, <2>4, LocalKept, LocalLabelFacts
<1>7. CASE ExitParent(p) \/ ExitWakeParent(p)
  <2>1. RestOK' /\ UNCHANGED arg  BY <1>7, RestUnchanged DEF ExitParent, ExitWakeParent
  <2>2. CASE ExitParent(p)
    <3>1. PICK to \in {"x_wake", "x_rel"} : Local(p, "x_parent", proc, to)
      BY <2>2 DEF ExitParent
    <3>2. Tame(proc) /\ proc[p].state # "EMPTY"  BY <3>1, CallerSlot DEF Local
    <3> QED  BY <2>1, <3>1, <3>2, LocalKept, LocalLabelFacts
  <2>3. CASE ExitWakeParent(p)
    <3> DEFINE T == WakeUnchecked(proc, proc[p].parent)
    <3>1. Local(p, "x_wake", T, "x_rel")  BY <2>3 DEF ExitWakeParent
    <3>2. Tame(T)  BY ProcTame, WakeTame DEF Tame
    <3> HIDE DEF T
    <3> QED  BY <2>1, <3>1, <3>2, LocalKept, LocalLabelFacts
  <2> QED  BY <1>7, <2>2, <2>3
<1>8. CASE ExitUnlock(p)
  <2>1. Tame(Demote(ReleaseWake(proc, Proc), p))
    BY <1>0, ProcTame, ReleaseTame, DemoteTame, Constants DEF Tame
  <2>2. "x_rel" \in Label \ {"new"} /\ "none" \in Label \ {"new"} /\ "none" \notin Filling
    BY DEF Label, Filling
  <2>3. "x_rel" \in Holds(Proc) /\ LeavesGate(Proc, "x_rel", "none")
    BY DEF Holds, HoldsProc, HoldsFileIO, LeavesGate, Gate, FileIO, Proc
  <2> QED
    BY <1>8, <2>1, <2>2, <2>3, YieldingReleaseInv, Constants DEF ExitUnlock, ReleaseAndYield
<1> QED  BY <1>1, <1>2, <1>3, <1>4, <1>5, <1>6, <1>7, <1>8 DEF ExitCall

LEMMA TerminateInv ==
    ASSUME Inv, NEW p \in Task, Terminate(p)
    PROVE  Inv'
<1>0. tgt(p) \in Task /\ tgt(p) \in Pid  BY TargetType, Constants
<1>1. CASE TermFileLock(p)  BY <1>1, AcquireKept, AcquireLabelFacts, Constants DEF TermFileLock
<1>2. CASE TermCloseFile(p) \/ TermFileClosed(p) \/ TermClose(p)
  BY <1>0, <1>2, CloseInv, LocalLabelFacts, ReleaseLabelFacts
  DEF TermCloseFile, TermFileClosed, TermClose
<1>3. CASE TermEmpty(p)
  <2> DEFINE T == [proc EXCEPT ![tgt(p)] = EmptyRow]
             to == IF tgt(p) = p THEN "x_rel" ELSE "w_con"
  <2>1. Local(p, "t_empty", T, to) /\ UNCHANGED arg  BY <1>3 DEF TermEmpty
  <2>2. RestOK'  BY <1>3, FreeContextType DEF TermEmpty, RestOK, Inv, TypeOK
  <2>3. Tame(proc) /\ proc[p].state # "EMPTY"  BY <2>1, CallerSlot DEF Local
  <2>4. EmptyRow.state = "EMPTY"  BY DEF EmptyRow
  <2>5. Tame(T)  BY <1>0, <2>3, <2>4, EmptyRowType, ReplaceTame DEF Tame
  <2>6. T[p].state # "EMPTY" \/ to = "x_rel"  BY <2>3 DEF Tame, Follows, Table
  <2>7. LocalLabels("t_empty", to)  BY LocalLabelFacts
  <2> HIDE DEF T, to
  <2> QED  BY <2>1, <2>2, <2>5, <2>6, <2>7, LocalKept
<1> QED  BY <1>1, <1>2, <1>3 DEF Terminate

LEMMA WaitpidInv ==
    ASSUME Inv, NEW p \in Task, WaitpidCall(p)
    PROVE  Inv'
<1>0. tgt(p) \in Task /\ tgt(p) \in Pid /\ p \in Pid  BY TargetType, Constants
<1>1. CASE SysWaitpid(p)
  <2>1. PICK c \in Task : /\ Acquire(p, Proc, "user", "w_acq", "w_chk", "user")
                          /\ arg' = [arg EXCEPT ![p].pid = c]
    BY <1>1 DEF SysWaitpid
  <2>2. [arg[p] EXCEPT !.pid = c] \in Arg  BY DEF Inv, TypeOK, Arg
  <2>3. "w_chk" \notin Filling /\ "w_acq" \notin Filling  BY DEF Filling
  <2>4. ArgsFollow(p, "w_chk") /\ ArgsFollow(p, "w_acq")
    BY <2>1, <2>2, <2>3, ArgsReplaced
  <2>5. AcquireLabels(Proc, "user", "w_acq", "w_chk")  BY AcquireLabelFacts
  <2> QED  BY <2>1, <2>4, <2>5, AcquireInv, Constants DEF AcquireLabels
<1>2. CASE WaitLock(p)  BY <1>2, AcquireKept, AcquireLabelFacts, Constants DEF WaitLock
<1>3. CASE WaitCheck(p)
  <2>1. At(p, "w_chk") /\ RestOK'  BY <1>3, RestUnchanged DEF WaitCheck, Local, Release
  <2>2. Tame(proc) /\ proc[p].state # "EMPTY" /\ console_owner \in Con  BY <2>1, CallerSlot
  <2>3. CASE /\ Release(p, Proc, proc, console_owner, "w_chk", "user")
             /\ arg' = [arg EXCEPT ![p] = NoArg(p)]
    <3>1. ArgsFollow(p, "user")  BY <2>3, ArgsReplaced, NoArgType, LabelFacts
    <3>2. ReleaseLabels(Proc, "w_chk", "user")  BY ReleaseLabelFacts
    <3> QED  BY <2>1, <2>2, <2>3, <3>1, <3>2, ReleaseInv, Constants DEF ReleaseLabels
  <2>4. CASE UNCHANGED arg /\ \E to \in {"t_facq", "w_wait"} : Local(p, "w_chk", proc, to)
    BY <2>1, <2>2, <2>4, LocalKept, LocalLabelFacts
  <2> QED  BY <1>3, <2>3, <2>4 DEF WaitCheck
<1>4. CASE WaitBlock(p)
  <2>1. "PROC" \in Reason  BY DEF Reason
  <2>2. Tame(SetWait(proc, p, "PROC", tgt(p)))  BY <1>0, <2>1, ProcTame, SetWaitTame DEF Tame
  <2>3. Tame(ReleaseWake(SetWait(proc, p, "PROC", tgt(p)), Proc))
    BY <2>2, ReleaseTame, Constants
  <2>4. ReleaseLabels(Proc, "w_wait", "w_acq") /\ "w_acq" \notin Filling
    BY ReleaseLabelFacts DEF Filling
  <2> QED  BY <1>4, <2>3, <2>4, YieldingReleaseInv, Constants DEF WaitBlock, ReleaseLabels
<1>5. CASE WaitReaped(p)
  <2> DEFINE con == IF console_owner = tgt(p) THEN p ELSE console_owner
  <2>1. /\ Release(p, Proc, proc, con, "w_con", "user")
        /\ arg' = [arg EXCEPT ![p] = NoArg(p)] /\ RestOK'
    BY <1>5, RestUnchanged DEF WaitReaped
  <2>2. Tame(proc) /\ proc[p].state # "EMPTY" /\ con \in Con
    BY <2>1, CallerSlot DEF Release, Con
  <2>3. ArgsFollow(p, "user")  BY <2>1, ArgsReplaced, NoArgType, LabelFacts
  <2>4. ReleaseLabels(Proc, "w_con", "user")  BY ReleaseLabelFacts
  <2> HIDE DEF con
  <2> QED  BY <2>1, <2>2, <2>3, <2>4, ReleaseInv, Constants DEF ReleaseLabels
<1> QED  BY <1>1, <1>2, <1>3, <1>4, <1>5 DEF WaitpidCall

LEMMA SignalInv ==
    ASSUME Inv, NEW p \in Task, SignalCall(p)
    PROVE  Inv'
<1> DEFINE t == tgt(p)
<1>0. t \in Task /\ t \in Pid /\ p \in Pid /\ arg[p].sig \in Signal \cup {NoSignal}
  BY TargetType, Constants
<1>a. proc \in Table /\ proc[t] \in Row  BY <1>0 DEF Inv, TypeOK, Table
<1>b. \A s \in Signal \cup {NoSignal} :
         LET T == [proc EXCEPT ![t].pending = s]
         IN Tame(T) /\ T[p].state = proc[p].state
  BY <1>0, <1>a, ProcTame DEF Tame, Follows, Table, Row
<1>1. CASE SysSignal(p)
  <2>1. PICK a \in Arg : /\ Acquire(p, Proc, "user", "s_acq", "s_chk", "user")
                         /\ arg' = [arg EXCEPT ![p] = a]
    BY <1>1, KernelAssumption DEF SysSignal, Arg
  <2>2. "s_chk" \notin Filling /\ "s_acq" \notin Filling  BY DEF Filling
  <2>3. ArgsFollow(p, "s_chk") /\ ArgsFollow(p, "s_acq")  BY <2>1, <2>2, ArgsReplaced
  <2>4. AcquireLabels(Proc, "user", "s_acq", "s_chk")  BY AcquireLabelFacts
  <2> QED  BY <2>1, <2>3, <2>4, AcquireInv, Constants DEF AcquireLabels
<1>2. CASE SignalLock(p)  BY <1>2, AcquireKept, AcquireLabelFacts, Constants DEF SignalLock
<1>3. CASE SignalCheck(p)
  <2>1. At(p, "s_chk")  BY <1>3 DEF SignalCheck, Local, Release
  <2>2. RestOK'  BY <1>3 DEF SignalCheck, RestOK, Inv, TypeOK, holdings, Con
  <2>3. Tame(proc) /\ proc[p].state # "EMPTY" /\ console_owner \in Con  BY <2>1, CallerSlot
  <2>4. CASE /\ Release(p, Proc, proc, console_owner, "s_chk", "user")
             /\ arg' = [arg EXCEPT ![p] = NoArg(p)]
    <3>1. ArgsFollow(p, "user")  BY <2>4, ArgsReplaced, NoArgType, LabelFacts
    <3>2. ReleaseLabels(Proc, "s_chk", "user")  BY ReleaseLabelFacts
    <3> QED  BY <2>2, <2>3, <2>4, <3>1, <3>2, ReleaseInv, Constants DEF ReleaseLabels
  <2>5. CASE UNCHANGED arg /\ \E to \in {"k_clear", "s_set"} : Local(p, "s_chk", proc, to)
    BY <2>2, <2>3, <2>5, LocalKept, LocalLabelFacts
  <2> QED  BY <1>3, <2>4, <2>5 DEF SignalCheck
<1>4. CASE SignalSet(p)
  <2> DEFINE T == [proc EXCEPT ![t].pending = arg[p].sig]
  <2>1. /\ Release(p, Proc, T, console_owner, "s_set", "s_ret") /\ UNCHANGED arg /\ RestOK'
    BY <1>4, RestUnchanged DEF SignalSet
  <2>2. proc[p].state # "EMPTY" /\ console_owner \in Con  BY <2>1, CallerSlot DEF Release
  <2>3. Tame(T) /\ T[p].state # "EMPTY"  BY <1>0, <1>b, <2>2
  <2> HIDE DEF T
  <2> QED  BY <2>1, <2>2, <2>3, ReleaseKept, ReleaseLabelFacts, Constants
<1>5. CASE KillClear(p)
  <2> DEFINE T == [proc EXCEPT ![t].pending = NoSignal]
  <2>1. At(p, "k_clear") /\ UNCHANGED arg /\ RestOK'
    BY <1>5, RestUnchanged DEF KillClear, Local, Release
  <2>2. Tame(proc) /\ proc[p].state # "EMPTY" /\ console_owner \in Con  BY <2>1, CallerSlot
  <2>3. CASE Release(p, Proc, proc, console_owner, "k_clear", "s_ret")
    BY <2>1, <2>2, <2>3, ReleaseKept, ReleaseLabelFacts, Constants
  <2>4. CASE Local(p, "k_clear", T, "k_cancel")
    <3>1. Tame(T) /\ T[p].state # "EMPTY"  BY <1>0, <1>b, <2>2
    <3> HIDE DEF T
    <3> QED  BY <2>1, <2>4, <3>1, LocalKept, LocalLabelFacts
  <2> QED  BY <1>5, <2>3, <2>4 DEF KillClear
<1>6. CASE KillCancel(p)
  <2> DEFINE L == [g \in Gate |-> IF proc[t].reason = "LOCK" /\ g = proc[t].object
                                  THEN Unlink(wait_line[g], {t}) ELSE wait_line[g]]
  <2>1. /\ At(p, "k_cancel") /\ Continue(p, proc, L, console_owner, "k_zombie")
        /\ UNCHANGED <<gate_owner, arg>> /\ RestOK'
    BY <1>6, RestUnchanged DEF KillCancel
  <2>2. Tame(proc) /\ proc[p].state # "EMPTY" /\ console_owner \in Con  BY <2>1, CallerSlot
  <2>3. L \in [Gate -> Line]  BY LineType DEF Inv, TypeOK
  <2>4. active_pid = p /\ pc[p] = "k_cancel"  BY <2>1 DEF At
  <2>5. LocalLabels("k_cancel", "k_zombie")  BY LocalLabelFacts
  <2> HIDE DEF L
  <2>6. Moved(Goto(p, "k_zombie"))
    BY <2>1, <2>2, <2>3, <2>4, <2>5, ContinueMoved DEF LocalLabels
  <2>7. GatesFollow(p, "k_zombie")
    BY <2>1, <2>4, <2>5 DEF GatesFollow, LocalLabels, SameGates, Inv, TypeOK
  <2>8. ArgsFollow(p, "k_zombie")  BY <2>1, <2>4, <2>5, ArgsKept DEF LocalLabels
  <2> QED  BY <2>1, <2>5, <2>6, <2>7, <2>8, InvStep DEF LocalLabels
<1>7. CASE KillZombie(p)
  <2> DEFINE row == Unwaited(proc[t], "ZOMBIE")
             T == [proc EXCEPT ![t] = row]
  <2>1. row \in Row /\ row.state = "ZOMBIE"  BY <1>a, UnwaitedType DEF State
  <2>2. Local(p, "k_zombie", T, "k_parent") /\ UNCHANGED arg /\ RestOK'
    BY <1>7, RestUnchanged DEF KillZombie
  <2> HIDE DEF row
  <2>3. Tame(T)  BY <1>0, <2>1, ProcTame, ReplaceTame DEF Tame
  <2>4. proc[p].state # "EMPTY"  BY <2>2, CallerSlot DEF Local
  <2>5. T[p].state # "EMPTY"  BY <1>0, <1>a, <2>1, <2>4 DEF Table
  <2> HIDE DEF T
  <2> QED  BY <2>2, <2>3, <2>5, LocalKept, LocalLabelFacts
<1>8. CASE KillParent(p)
  <2>1. At(p, "k_parent") /\ UNCHANGED arg /\ RestOK'
    BY <1>8, RestUnchanged DEF KillParent, Local, Release
  <2>2. Tame(proc) /\ proc[p].state # "EMPTY" /\ console_owner \in Con  BY <2>1, CallerSlot
  <2>3. CASE Local(p, "k_parent", proc, "k_wake")
    BY <2>1, <2>2, <2>3, LocalKept, LocalLabelFacts
  <2>4. CASE Release(p, Proc, proc, console_owner, "k_parent", "s_ret")
    BY <2>1, <2>2, <2>4, ReleaseKept, ReleaseLabelFacts, Constants
  <2> QED  BY <1>8, <2>3, <2>4 DEF KillParent
<1>9. CASE KillWake(p)
  <2> DEFINE q == proc[t].parent
             T == WakeUnchecked(proc, q)
  <2>1. Release(p, Proc, T, console_owner, "k_wake", "s_ret") /\ UNCHANGED arg /\ RestOK'
    BY <1>9, RestUnchanged DEF KillWake
  <2>2. Tame(proc) /\ proc[p].state # "EMPTY" /\ console_owner \in Con
    BY <2>1, CallerSlot DEF Release
  <2>3. Tame(T)  BY <2>2, WakeTame DEF Tame
  <2>4. T[p].state # "EMPTY"
    <3>1. Unwaited(proc[p], "READY").state = "READY"
      BY <1>0, <1>a, UnwaitedType DEF State, Table
    <3> QED  BY <1>0, <1>a, <2>2, <3>1 DEF WakeUnchecked, Table
  <2> HIDE DEF T
  <2> QED  BY <2>1, <2>2, <2>3, <2>4, ReleaseKept, ReleaseLabelFacts, Constants
<1>10. CASE SignalReturn(p)
  <2>1. /\ At(p, "s_ret") /\ UNCHANGED gate_owner /\ RestOK'
        /\ arg' = [arg EXCEPT ![p] = NoArg(p)]
    BY <1>10, RestUnchanged DEF SignalReturn
  <2>2. Tame(proc) /\ proc[p].state # "EMPTY"  BY <2>1, CallerSlot
  <2>3. LocalLabels("s_ret", "user") /\ ArgsFollow(p, "user")
    BY <2>1, ArgsReplaced, NoArgType, LabelFacts, LocalLabelFacts
  <2>4. CASE Dispatch(Demote(proc, p), wait_line, gate_owner, console_owner, Goto(p, "user"))
    <3>1. Tame(Demote(proc, p))  BY <1>0, <2>2, DemoteTame DEF Tame
    <3> QED  BY <2>1, <2>3, <2>4, <3>1, PassInv DEF LocalLabels
  <2>5. CASE Continue(p, proc, wait_line, console_owner, "user")
    <3>1. Local(p, "s_ret", proc, "user")  BY <2>1, <2>5 DEF Local
    <3> QED  BY <2>1, <2>2, <2>3, <3>1, LocalInv DEF LocalLabels
  <2> QED  BY <1>10, <2>4, <2>5 DEF SignalReturn
<1> QED
  BY <1>1, <1>2, <1>3, <1>4, <1>5, <1>6, <1>7, <1>8, <1>9, <1>10 DEF SignalCall

\* The steps of a spawn that build the child's slot.
LEMMA SpawnBuildInv ==
    ASSUME Inv, NEW p \in Task,
           SpawnAlloc(p) \/ SpawnClearFds(p) \/ SpawnClone(p) \/ SpawnCloneFails(p)
           \/ SpawnResult(p) \/ SpawnRollback(p)
    PROVE  Inv'
<1>0. tgt(p) \in Task /\ tgt(p) \in Pid /\ p \in Pid  BY TargetType, Constants
<1>a. proc \in Table /\ EmptyRow.state = "EMPTY"  BY DEF Inv, TypeOK, Table, EmptyRow
<1>b. pc[p] \in Filling => tgt(p) # p  BY DEF Inv, SpawnTarget
<1>1. CASE SpawnAlloc(p)
  <2>1. At(p, "p_alloc")  BY <1>1 DEF SpawnAlloc, Local
  <2>2. Tame(proc) /\ proc[p].state # "EMPTY"  BY <2>1, CallerSlot
  <2>3. ASSUME NEW t \in Task, NEW c \in Context, FreeSlot(t),
               arg' = [arg EXCEPT ![p].pid = t],
               context_owner' = [context_owner EXCEPT ![c] = t],
               Local(p, "p_alloc", [proc EXCEPT ![t] = [EmptyRow EXCEPT !.parent = p]], "p_facq")
        PROVE  Inv'
    <3> DEFINE row == [EmptyRow EXCEPT !.parent = p]
    <3>1. t # p  BY <2>2, <2>3 DEF FreeSlot
    <3>2. row \in Row /\ row.state = "EMPTY"
      BY <1>0, <1>a, EmptyRowType DEF Row
    <3> HIDE DEF row
    <3>3. Tame([proc EXCEPT ![t] = row]) /\ [proc EXCEPT ![t] = row][p].state # "EMPTY"
      BY <1>0, <1>a, <2>2, <3>1, <3>2, ReplaceTame, Constants DEF Tame, Table
    <3>4. RestOK'
      BY <1>1, <2>3 DEF SpawnAlloc, RestOK, Inv, TypeOK, Con
    <3>5. ArgsFollow(p, "p_facq")
      BY <2>3, <3>1 DEF ArgsFollow, Inv, TypeOK, Arg
    <3>6. SameGates("p_alloc", "p_facq") /\ {"p_alloc", "p_facq"} \subseteq Label \ {"new"}
      BY DEF SameGates, Holds, HoldsFileIO, HoldsProc, Gate, Label
    <3> QED  BY <2>3, <3>3, <3>4, <3>5, <3>6, LocalInv DEF row
  <2>4. ASSUME Local(p, "p_alloc", proc, "p_err"), UNCHANGED <<arg, context_owner>>
        PROVE  Inv'
    <3>1. RestOK'  BY <1>1, <2>4 DEF SpawnAlloc, RestOK, Inv, TypeOK, Con
    <3> QED  BY <2>2, <2>4, <3>1, LocalKept, LocalLabelFacts
  <2> QED  BY <1>1, <2>3, <2>4 DEF SpawnAlloc
<1>2. CASE SpawnClearFds(p)
  <2>1. PICK b \in SpawnCatch :
           Release(p, FileIO, [proc EXCEPT ![tgt(p)].catch = b], console_owner, "p_fclr", "p_gacq")
    BY <1>2 DEF SpawnClearFds
  <2> DEFINE T == [proc EXCEPT ![tgt(p)].catch = b]
  <2>2. RestOK' /\ UNCHANGED arg
    BY <1>0, <1>2 DEF SpawnClearFds, RestOK, Inv, TypeOK, Con
  <2>3. Tame(proc) /\ proc[p].state # "EMPTY" /\ console_owner \in Con
    BY <2>1, CallerSlot DEF Release
  <2>4. Tame(T) /\ T[p].state # "EMPTY"
    BY <1>0, <1>a, <2>3, KernelAssumption DEF Tame, Follows, Table, Row
  <2> HIDE DEF T
  <2> QED  BY <2>1, <2>2, <2>3, <2>4, ReleaseKept, ReleaseLabelFacts, Constants DEF T
<1>3. CASE SpawnClone(p)
  <2>1. RpRequest(p, "p_clone", "p_col") /\ fds' \in [Task -> {"none", "open", "file"}]
    BY <1>0, <1>3 DEF SpawnClone, Inv, TypeOK
  <2> QED  BY <2>1, RequestInv, LocalLabelFacts
<1>4. CASE SpawnCloneFails(p)
  <2>1. Local(p, "p_clone", proc, "p_back") /\ UNCHANGED arg
    BY <1>4 DEF SpawnCloneFails
  <2>2. RestOK'  BY <1>0, <1>4 DEF SpawnCloneFails, RestOK, Inv, TypeOK, Con
  <2>3. Tame(proc) /\ proc[p].state # "EMPTY"  BY <2>1, CallerSlot DEF Local
  <2> QED  BY <2>1, <2>2, <2>3, LocalKept, LocalLabelFacts
<1>5. CASE SpawnResult(p)
  <2>1. PICK to \in {"p_pub", "p_back"} : Local(p, "p_col", proc, to)  BY <1>5 DEF SpawnResult
  <2>2. RestOK' /\ UNCHANGED arg
    BY <1>5 DEF SpawnResult, RestOK, Inv, TypeOK, holdings, Con
  <2>3. Tame(proc) /\ proc[p].state # "EMPTY"  BY <2>1, CallerSlot DEF Local
  <2> QED  BY <2>1, <2>2, <2>3, LocalKept, LocalLabelFacts
<1>6. CASE SpawnRollback(p)
  <2> DEFINE T == [proc EXCEPT ![tgt(p)] = EmptyRow]
  <2>1. Release(p, FileIO, T, console_owner, "p_back", "p_err") /\ UNCHANGED arg
    BY <1>6 DEF SpawnRollback
  <2>2. RestOK'
    BY <1>0, <1>6, FreeContextType DEF SpawnRollback, RestOK, Inv, TypeOK
  <2>3. Tame(proc) /\ proc[p].state # "EMPTY" /\ console_owner \in Con
    BY <2>1, CallerSlot DEF Release
  <2>4. tgt(p) # p  BY <1>b, <2>1 DEF Release, At, Filling
  <2>5. Tame(T) /\ T[p].state # "EMPTY"
    BY <1>0, <1>a, <2>3, <2>4, EmptyRowType, ReplaceTame DEF Tame, Table
  <2> HIDE DEF T
  <2> QED  BY <2>1, <2>2, <2>3, <2>5, ReleaseKept, ReleaseLabelFacts, Constants
<1> QED  BY <1>1, <1>2, <1>3, <1>4, <1>5, <1>6

\* Publishing moves two program counters: the publisher owns both gates, so
\* the child's slot is inside no gate's code.
LEMMA SpawnPublishInv ==
    ASSUME Inv, NEW p \in Task, SpawnPublish(p)
    PROVE  Inv'
<1> DEFINE t == tgt(p)
<1>1. t \in Task /\ t \in Pid /\ active_pid = p /\ pc[p] = "p_pub"
  BY TargetType, Constants DEF SpawnPublish, At
<1>2. t # p  BY <1>1 DEF Inv, SpawnTarget, Filling
<1>3. /\ proc' = [proc EXCEPT ![t].state = "NEW"]
      /\ pc' = [pc EXCEPT ![p] = "p_con", ![t] = "new"]
      /\ arg' = [arg EXCEPT ![t] = NoArg(t)]
      /\ UNCHANGED <<gate_owner, wait_line, active_pid, sched_cursor, console_focus,
                     console_owner, fds, context_owner, rp, rp_route, self_kill>>
  BY DEF SpawnPublish, cpu, others, holdings
<1>4. pc'[p] = "p_con" /\ pc'[t] = "new" /\ \A q \in Task \ {p, t} : pc'[q] = pc[q]
  BY <1>1, <1>2, <1>3 DEF Inv, TypeOK
<1>5. proc' \in Table /\ proc'[t].state = "NEW" /\ \A q \in Pid \ {t} : proc'[q] = proc[q]
  BY <1>1, <1>3 DEF Inv, TypeOK, Table, Row, State
<1>6. pc' \in [Task -> Label]  BY <1>3 DEF Inv, TypeOK, Label
<1>7. TypeOK'  BY <1>1, <1>3, <1>5, <1>6, NoArgType DEF Inv, TypeOK, Table
<1>8. OneRunning'  BY <1>3, <1>5 DEF Inv, OneRunning
<1>9. HolderOwns'
  <2>1. SUFFICES ASSUME NEW g \in Gate, NEW q \in Task
                 PROVE  (pc'[q] \in Holds(g)) <=> gate_owner'[g] = q
    BY DEF HolderOwns, Holds
  <2>2. "p_pub" \in Holds(g) /\ "p_con" \in Holds(g)  BY DEF Holds, HoldsFileIO, HoldsProc
  <2>3. gate_owner[g] = p /\ gate_owner'[g] = p
    BY <1>1, <1>3, <2>2 DEF Inv, HolderOwns
  <2>4. (pc[q] \in Holds(g)) <=> gate_owner[g] = q  BY DEF Inv, HolderOwns
  <2> QED  BY <1>2, <1>4, <2>2, <2>3, <2>4, LabelFacts
<1>10. NewRows'  BY <1>1, <1>4, <1>5, Constants DEF Inv, NewRows
<1>11. ActiveSlot'  BY <1>1, <1>2, <1>3, <1>4, <1>5, Constants DEF Inv, ActiveSlot
<1>12. SpawnTarget'
  BY <1>1, <1>3, <1>4, LabelFacts DEF Inv, SpawnTarget, tgt, TypeOK, Filling
<1> QED  BY <1>7, <1>8, <1>9, <1>10, <1>11, <1>12 DEF Inv

LEMMA SpawnInv ==
    ASSUME Inv, NEW p \in Task, SpawnCall(p)
    PROVE  Inv'
<1>1. CASE SysSpawn(p)  BY <1>1, AcquireKept, AcquireLabelFacts, Constants DEF SysSpawn
<1>2. CASE SpawnLock(p)  BY <1>2, AcquireKept, AcquireLabelFacts, Constants DEF SpawnLock
<1>3. CASE SpawnFileLock(p)  BY <1>3, AcquireKept, AcquireLabelFacts, Constants DEF SpawnFileLock
<1>4. CASE SpawnFileLockAgain(p)
  BY <1>4, AcquireKept, AcquireLabelFacts, Constants DEF SpawnFileLockAgain
<1>5. CASE SpawnConsole(p)
  <2>1. PICK con \in {tgt(p), console_owner} : Release(p, FileIO, proc, con, "p_con", "p_rel")
    BY <1>5 DEF SpawnConsole
  <2>2. RestOK' /\ UNCHANGED arg  BY <1>5, RestUnchanged DEF SpawnConsole
  <2>3. Tame(proc) /\ proc[p].state # "EMPTY" /\ con \in Con
    BY <2>1, CallerSlot, TargetType DEF Release, Con
  <2> QED  BY <2>1, <2>2, <2>3, ReleaseKept, ReleaseLabelFacts, Constants
<1>6. CASE SpawnUnlock(p)
  <2>1. Release(p, Proc, proc, console_owner, "p_rel", "p_ret") /\ UNCHANGED arg /\ RestOK'
    BY <1>6, RestUnchanged DEF SpawnUnlock
  <2>2. Tame(proc) /\ proc[p].state # "EMPTY" /\ console_owner \in Con
    BY <2>1, CallerSlot DEF Release
  <2> QED  BY <2>1, <2>2, ReleaseKept, ReleaseLabelFacts, Constants
<1>7. CASE SpawnReturn(p)
  <2>1. /\ Local(p, "p_ret", proc, "user") /\ RestOK'
        /\ arg' = [arg EXCEPT ![p] = NoArg(p)]
    BY <1>7, RestUnchanged DEF SpawnReturn
  <2>2. Tame(proc) /\ proc[p].state # "EMPTY"  BY <2>1, CallerSlot DEF Local
  <2>3. LocalLabels("p_ret", "user") /\ ArgsFollow(p, "user")
    BY <2>1, ArgsReplaced, NoArgType, LabelFacts, LocalLabelFacts
  <2> QED  BY <2>1, <2>2, <2>3, LocalInv DEF LocalLabels
<1>8. CASE SpawnFail(p)
  <2>1. /\ Release(p, Proc, proc, console_owner, "p_err", "user") /\ RestOK'
        /\ arg' = [arg EXCEPT ![p] = NoArg(p)]
    BY <1>8, RestUnchanged DEF SpawnFail
  <2>2. Tame(proc) /\ proc[p].state # "EMPTY" /\ console_owner \in Con
    BY <2>1, CallerSlot DEF Release
  <2>3. ReleaseLabels(Proc, "p_err", "user") /\ ArgsFollow(p, "user")
    BY <2>1, ArgsReplaced, NoArgType, LabelFacts, ReleaseLabelFacts
  <2> QED  BY <2>1, <2>2, <2>3, ReleaseInv, Constants DEF ReleaseLabels
<1> QED
  BY <1>1, <1>2, <1>3, <1>4, <1>5, <1>6, <1>7, <1>8, SpawnBuildInv, SpawnPublishInv
  DEF SpawnCall

----------------------------------------------------------------------------
(***************************************************************************)
(* The idle task and the interrupts.                                       *)
(***************************************************************************)
LEMMA StillMoved ==
    ASSUME Inv, NEW T, Tame(T), NEW L \in [Gate -> Line],
           active_pid \in Task => T[active_pid].state = proc[active_pid].state,
           proc' = T, wait_line' = L, UNCHANGED <<pc, cpu, console_owner>>
    PROVE  Moved(pc)
<1>1. UNCHANGED <<active_pid, sched_cursor, console_focus>>  BY DEF cpu
<1>2. CoreOK'  BY <1>1 DEF CoreOK, Inv, TypeOK, Tame, Follows, Con
<1>3. OneRunning'  BY <1>1 DEF OneRunning, Inv, Tame, Follows
<1>4. NewRows'  BY Constants DEF NewRows, Inv, Tame, Follows
<1>5. ActiveSlot'  BY <1>1 DEF ActiveSlot, Inv
<1> QED  BY <1>2, <1>3, <1>4, <1>5 DEF Moved

LEMMA IdleReapInv == Inv /\ IdleReap => Inv'
<1> SUFFICES ASSUME Inv, IdleReap PROVE Inv'  OBVIOUS
<1>1. PICK z \in Task : /\ proc' = [ReleaseWake(proc, FileIO) EXCEPT ![z] = EmptyRow]
                        /\ fds' = [fds EXCEPT ![z] = "none"]
                        /\ context_owner' = FreeContext(z)
  BY DEF IdleReap
<1>2. z \in Pid /\ EmptyRow.state = "EMPTY"  BY Constants DEF EmptyRow
<1>3. Tame(ReleaseWake(proc, FileIO)) /\ ReleaseLine(FileIO) \in [Gate -> Line]
  BY ProcTame, ReleaseTame, Constants
<1>4. Tame([ReleaseWake(proc, FileIO) EXCEPT ![z] = EmptyRow])
  BY <1>2, <1>3, EmptyRowType, ReplaceTame DEF Tame
<1>5. Moved(pc)  BY <1>1, <1>3, <1>4, StillMoved, Constants DEF IdleReap
<1>6. RestOK'  BY <1>1, FreeContextType DEF IdleReap, RestOK, Inv, TypeOK
<1> QED  BY <1>5, <1>6, InvIrq DEF IdleReap

LEMMA InterruptInv == Inv /\ (TimerIrq \/ ConsoleBreak \/ FsDone \/ RpRoute) => Inv'
<1> SUFFICES ASSUME Inv, TimerIrq \/ ConsoleBreak \/ FsDone \/ RpRoute PROVE Inv'  OBVIOUS
<1>0. active_pid \in Pid /\ Tame(proc)  BY ProcTame DEF Inv, TypeOK
<1>1. CASE TimerIrq
  <2>1. Tame(Demote(proc, active_pid))  BY <1>0, DemoteTame DEF Tame
  <2>2. Moved(pc)  BY <1>1, <2>1, DispatchIrq DEF TimerIrq
  <2>3. RestOK'  BY <1>1, RestUnchanged DEF TimerIrq
  <2> QED  BY <1>1, <2>2, <2>3, InvIrq DEF TimerIrq
<1>2. CASE ConsoleBreak
  <2> DEFINE T == [proc EXCEPT ![console_owner].pending = "INT"]
  <2>1. Tame(T)
    BY <1>0, <1>2, Constants DEF ConsoleBreak, Tame, Follows, Table, Row, Signal
  <2> HIDE DEF T
  <2>2. Tame(Demote(T, active_pid))  BY <1>0, <2>1, DemoteTame DEF Tame
  <2>3. Moved(pc)  BY <1>2, <2>2, DispatchIrq DEF ConsoleBreak, T
  <2>4. RestOK'  BY <1>2, RestUnchanged DEF ConsoleBreak
  <2> QED  BY <1>2, <2>3, <2>4, InvIrq DEF ConsoleBreak
<1>3. CASE FsDone
  <2> DEFINE o == gate_owner[FileIO]
  <2>1. Tame(Demote(Wake(proc, o), active_pid))
    BY <1>0, WakeTame, DemoteTame DEF Tame
  <2>2. Moved(pc)
    <3>1. CASE Dispatch(Demote(Wake(proc, o), active_pid), wait_line, gate_owner,
                        console_owner, pc)
      BY <2>1, <3>1, DispatchIrq
    <3>2. CASE UNCHANGED <<proc, wait_line, pc, cpu, console_owner>>
      BY <1>0, <3>2, StillMoved DEF Inv, TypeOK
    <3> QED  BY <1>3, <3>1, <3>2 DEF FsDone
  <2>3. RestOK'  BY <1>3 DEF FsDone, RestOK, Inv, TypeOK, holdings, Con
  <2> QED  BY <1>3, <2>2, <2>3, InvIrq DEF FsDone
<1>4. CASE RpRoute
  <2>1. Moved(pc)  BY <1>0, <1>4, StillMoved DEF RpRoute, Inv, TypeOK
  <2>2. RestOK'  BY <1>4 DEF RpRoute, RestOK, Inv, TypeOK, holdings, Con
  <2> QED  BY <1>4, <2>1, <2>2, InvIrq DEF RpRoute
<1> QED  BY <1>1, <1>2, <1>3, <1>4

----------------------------------------------------------------------------
(***************************************************************************)
(* The theorems.                                                           *)
(***************************************************************************)
LEMMA InitInv == Init => Inv
<1> SUFFICES ASSUME Init PROVE Inv  OBVIOUS
<1> DEFINE boot(q) == IF q = Idle THEN [EmptyRow EXCEPT !.state = "RUNNING"]
                      ELSE IF q \in BootTasks
                      THEN [EmptyRow EXCEPT !.state = "NEW", !.parent = Idle,
                                            !.catch = q \in BootCatch]
                      ELSE EmptyRow
           st(q) == IF q = Idle THEN "RUNNING" ELSE IF q \in BootTasks THEN "NEW" ELSE "EMPTY"
<1>0. proc = [q \in Pid |-> boot(q)]  BY DEF Init
<1>1. \A q \in Pid : proc[q] \in Row /\ proc[q].state = st(q)
  <2> TAKE q \in Pid
  <2>1. (q \in BootCatch) \in BOOLEAN  OBVIOUS
  <2>2. \A b \in BOOLEAN :
           LET row == [EmptyRow EXCEPT !.state = "NEW", !.parent = Idle, !.catch = b]
           IN row \in Row /\ row.state = "NEW"
    BY NewRowType
  <2>3. /\ [EmptyRow EXCEPT !.state = "RUNNING"] \in Row
        /\ [EmptyRow EXCEPT !.state = "RUNNING"].state = "RUNNING"
        /\ EmptyRow \in Row /\ EmptyRow.state = "EMPTY"
    BY Constants DEF EmptyRow, Row, State, Reason, NoSignal, Nobody
  <2>4. boot(q) \in Row /\ boot(q).state = st(q)  BY <2>1, <2>2, <2>3, Zenon
  <2> QED  BY <1>0, <2>4
<1> HIDE DEF boot
<1>2. proc \in [Pid -> Row]  BY <1>0, <1>1
<1>3. pc \in [Task -> Label] /\ \A q \in Task : pc[q] = IF q \in BootTasks THEN "new" ELSE "none"
  BY DEF Init, Label
<1>4. arg \in [Task -> Arg]  BY NoArgType DEF Init
<1>5. fds \in [Task -> {"none", "open", "file"}] /\ wait_line \in [Gate -> Line]
  BY DEF Init, Line
<1>6. context_owner \in [Context -> Task \cup {Nobody}]
  BY KernelAssumption DEF Init
<1>7. gate_owner \in [Gate -> Pid \cup {Nobody}] /\ \A g \in Gate : gate_owner[g] = Nobody
  BY DEF Init
<1>8. TypeOK
  BY <1>2, <1>3, <1>4, <1>5, <1>6, <1>7, Constants DEF Init, TypeOK
<1>9. OneRunning
  <2>1. active_pid = Idle  BY DEF Init
  <2> QED  BY <1>1, <2>1 DEF OneRunning
<1>10. HolderOwns  BY <1>3, <1>7, LabelFacts, Constants DEF HolderOwns
<1>11. NewRows  BY <1>1, <1>3, Constants DEF NewRows
<1>12. ActiveSlot  BY Constants DEF Init, ActiveSlot
<1>13. SpawnTarget  BY <1>3, LabelFacts DEF SpawnTarget
<1> QED  BY <1>8, <1>9, <1>10, <1>11, <1>12, <1>13 DEF Inv

LEMMA StutterInv == Inv /\ UNCHANGED vars => Inv'
BY DEF Inv, vars, TypeOK, OneRunning, HolderOwns, NewRows, ActiveSlot, SpawnTarget, tgt

LEMMA StepInv ==
    ASSUME Inv, NEW p \in Task, Step(p)
    PROVE  Inv'
BY PlainInv, FileInv, ConsoleInv, ExitInv, TerminateInv, WaitpidInv, SignalInv, SpawnInv
DEF Step

LEMMA NextInv == Inv /\ [Next]_vars => Inv'
BY StepInv, IdleReapInv, InterruptInv, StutterInv DEF Next

LEMMA Invariant == Spec => []Inv
BY InitInv, NextInv, PTL DEF Spec

\* Every variable keeps its type in every behaviour of the kernel: the table
\* updates of the scheduler, of the signal phase and of the lifecycle code
\* never write a value outside the range of their byte arrays.
THEOREM TypeCorrect == Spec => []TypeOK
<1>1. Inv => TypeOK  BY DEF Inv
<1> QED  BY <1>1, Invariant, PTL

\* At most one row is RUNNING, and it is the one of the process that has the
\* CPU, however signals, exits and wakes interleave with the scheduler.
THEOREM SingleRunning == Spec => []OneRunning
<1>1. Inv => OneRunning  BY DEF Inv
<1> QED  BY <1>1, Invariant, PTL

\* Whoever is inside code that FILE_IO or PROC protects owns the gate, for
\* any number of processes, across preemption, kills and PID reuse.
THEOREM GateExclusion == Spec => []HolderOwns
<1>1. Inv => HolderOwns  BY DEF Inv
<1> QED  BY <1>1, Invariant, PTL
=============================================================================
