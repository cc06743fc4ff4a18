-------------------------- MODULE KernelWaitProofs --------------------------
(***************************************************************************)
(* Who waits for what.  A KILL breaks these facts on purpose (it unlinks   *)
(* its target from a gate's line a few instructions before it ends it, and *)
(* wakes a parent it looked at earlier), so they are proved for systems in *)
(* which no process sends KILL; console breaks, INT, STOP and CONT may     *)
(* happen at any time.  The two last theorems are about who has been woken *)
(* and has not yet run, so they also ask that no process dies of a default *)
(* INT and, for the gates, that none is stopped.                           *)
(***************************************************************************)
EXTENDS KernelSlotProofs

NoKill == "signal" \in Syscalls => "KILL" \notin SentSignals

\* A label, with the operands of the call, on the way to no KILL.
Mild(l, a) == l \notin Kill /\ (l \in {"s_acq", "s_chk"} => a.sig # "KILL")
NoKillCalls == \A p \in Task : Mild(pc[p], arg[p])

\* Where a process blocked for reason r on object o goes on when it is woken.
Place(r, o, l) ==
    \/ r = "LOCK" /\ o \in Gate /\ l \in Retries(o)
    \/ r = "RP" /\ l \in Collecting
    \/ r = "CONSOLE" /\ l = "c_acq"
    \/ r = "PROC" /\ l = "w_acq"
    \/ r = "TIMER" /\ l = "user"

\* Process q with this row and label fits the lines L, the gate owners own
\* and the mailbox state mail: it stands in the line of a gate exactly while
\* it is blocked on it, it sleeps in WAIT_RP exactly while its request is
\* outstanding, and a gate it owns does not outlive it.
FitRow(q, row, L, own, mail, l) ==
    /\ \A g \in Gate : q \in Waiters(L[g]) <=>
                       row.state = "BLOCKED" /\ row.reason = "LOCK" /\ row.object = g
    /\ row.state = "BLOCKED" => Place(row.reason, row.object, l)
    /\ row.state = "BLOCKED" /\ row.reason = "RP" <=> mail = "BUSY" /\ own[FileIO] = q
    /\ (\E g \in Gate : own[g] = q) =>
          \/ row.state \in {"READY", "RUNNING", "BLOCKED"}
          \/ row.state \in Dead /\ l \in {"x_parent", "x_wake", "x_rel"}

\* Every set of waiters has a head, so a release always finds the process
\* that has waited longest.
Ordered(L) ==
    \A g \in Gate, S \in SUBSET Task :
        S # {} /\ S \subseteq Waiters(L[g]) => \E h \in S : \A w \in S : <<h, w>> \in L[g]

Fit == /\ Ordered(wait_line)
       /\ \A q \in Task : FitRow(q, proc[q], wait_line, gate_owner, rp, pc[q])

\* The process that has the CPU is RUNNING, or has just ended itself.
RunsAt(row, l) == row.state = "RUNNING" \/ (row.state \in Dead /\ l \in {"x_parent", "x_wake", "x_rel"})
ActiveRuns == active_pid \in Task => RunsAt(proc[active_pid], pc[active_pid])

WaitInv == SlotInv /\ NoKill /\ NoKillCalls /\ Fit /\ ActiveRuns

----------------------------------------------------------------------------
(***************************************************************************)
(* The lines.                                                              *)
(***************************************************************************)
LEMMA UnlinkWaiters ==
    ASSUME NEW M, NEW D
    PROVE  Waiters(Unlink(M, D)) = Waiters(M) \ D
BY DEF Waiters, Unlink

LEMMA EnqueueWaiters ==
    ASSUME NEW M, NEW p \in Task
    PROVE  Waiters(Enqueue(M, p)) = Waiters(M) \cup {p}
BY DEF Waiters, Enqueue

LEMMA UnlinkOrdered ==
    ASSUME NEW L \in [Gate -> Line], NEW M \in [Gate -> Line], Ordered(L),
           \A g \in Gate : \E D : M[g] = Unlink(L[g], D)
    PROVE  Ordered(M)
<1> SUFFICES ASSUME NEW g \in Gate, NEW S \in SUBSET Task, S # {}, S \subseteq Waiters(M[g])
             PROVE  \E h \in S : \A w \in S : <<h, w>> \in M[g]
  BY DEF Ordered
<1>1. PICK D : M[g] = Unlink(L[g], D)  OBVIOUS
<1>2. S \subseteq Waiters(L[g]) /\ S \cap D = {}  BY <1>1, UnlinkWaiters
<1>3. PICK h \in S : \A w \in S : <<h, w>> \in L[g]  BY <1>2 DEF Ordered
<1>4. \A w \in S : <<h, w>> \in M[g]  BY <1>1, <1>2, <1>3 DEF Unlink
<1> QED  BY <1>4

LEMMA EnqueueOrdered ==
    ASSUME NEW L \in [Gate -> Line], Ordered(L), NEW g \in Gate, NEW p \in Task
    PROVE  Ordered([L EXCEPT ![g] = Enqueue(@, p)])
<1> DEFINE M == [L EXCEPT ![g] = Enqueue(@, p)]
<1> SUFFICES ASSUME NEW f \in Gate, NEW S \in SUBSET Task, S # {}, S \subseteq Waiters(M[f])
             PROVE  \E h \in S : \A w \in S : <<h, w>> \in M[f]
  BY DEF Ordered
<1>1. CASE f # g  BY <1>1 DEF Ordered
<1>2. CASE f = g
  <2>1. M[f] = Enqueue(L[g], p)  BY <1>2
  <2>2. S \subseteq Waiters(L[g]) \cup {p}  BY <2>1, EnqueueWaiters
  <2>3. CASE S \ {p} = {}
    BY <2>1, <2>3 DEF Enqueue
  <2>4. CASE S \ {p} # {}
    <3>1. S \ {p} \in SUBSET Task /\ S \ {p} \subseteq Waiters(L[g])  BY <2>2
    <3>2. PICK h \in S \ {p} : \A w \in S \ {p} : <<h, w>> \in L[g]
      BY <2>4, <3>1 DEF Ordered
    <3>3. \A w \in S : <<h, w>> \in M[f]
      BY <2>1, <3>1, <3>2 DEF Enqueue
    <3> QED  BY <3>2, <3>3
  <2> QED  BY <2>3, <2>4
<1> QED  BY <1>1, <1>2

LEMMA HeadWaits ==
    ASSUME NEW L \in [Gate -> Line], Ordered(L), NEW g \in Gate, Waiters(L[g]) # {}
    PROVE  HeadOf(L[g]) \in Waiters(L[g])
<1>1. Waiters(L[g]) \in SUBSET Task  BY DEF Waiters
<1>2. \E h \in Waiters(L[g]) : \A w \in Waiters(L[g]) : <<h, w>> \in L[g]
  BY <1>1 DEF Ordered
<1> QED  BY <1>2 DEF HeadOf

----------------------------------------------------------------------------
(***************************************************************************)
(* One row.                                                                *)
(***************************************************************************)

\* Changes of a row that its line, its gates and the mailbox do not notice.
Eased(r, s) ==
    \/ s.state = r.state /\ (r.state = "BLOCKED" => s.reason = r.reason /\ s.object = r.object)
    \/ r.state = "BLOCKED" /\ r.reason \notin {"LOCK", "RP"} /\ s.state = "READY"
    \/ r.state \in Active /\ s.state \in Active
    \/ r.state \in Dead /\ s.state \in Dead

LEMMA EasedFits ==
    ASSUME NEW q, NEW r, NEW s, NEW L, NEW own, NEW mail, NEW l,
           FitRow(q, r, L, own, mail, l), Eased(r, s)
    PROVE  FitRow(q, s, L, own, mail, l)
BY DEF FitRow, Eased, Active, Dead

\* The row of a process that is not blocked.
LEMMA AwakeFits ==
    ASSUME NEW q, NEW row, NEW L, NEW own, NEW mail, NEW l, row.state # "BLOCKED",
           \A g \in Gate : q \notin Waiters(L[g]), ~(mail = "BUSY" /\ own[FileIO] = q),
           \/ row.state \in Active
           \/ row.state \in Dead /\ l \in {"x_parent", "x_wake", "x_rel"}
           \/ \A g \in Gate : own[g] # q
    PROVE  FitRow(q, row, L, own, mail, l)
BY DEF FitRow, Active

\* The table T and the lines L that p hands to a pass on its way to label to.
Prepared(p, to, T, L) ==
    /\ Ordered(L)
    /\ \A q \in Task : FitRow(q, T[q], L, gate_owner', rp', IF q = p THEN to ELSE pc[q])

LEMMA SettledFits ==
    ASSUME NEW p, NEW to, NEW T \in Table, NEW L \in [Gate -> Line], NEW D,
           Prepared(p, to, T, L), Settled(T, L, D), Goes(p, to), to # "new"
    PROVE  Fit'
<1>1. /\ wait_line' = [g \in Gate |-> Unlink(L[g], D)]
      /\ \A g \in Gate : wait_line'[g] = Unlink(L[g], D)
  BY DEF Settled
<1>2. Ordered(wait_line')
  <2>1. wait_line' \in [Gate -> Line]  BY <1>1, LineType
  <2> QED  BY <1>1, <2>1, UnlinkOrdered DEF Prepared
<1>3. ASSUME NEW q \in Task
      PROVE  FitRow(q, proc'[q], wait_line', gate_owner', rp', pc'[q])
  <2> DEFINE l == IF q = p THEN to ELSE pc[q]
  <2>1. FitRow(q, T[q], L, gate_owner', rp', l)  BY DEF Prepared
  <2>2. pc'[q] = l \/ (l = "new" /\ pc'[q] \in {"user", "wild"})  BY DEF Goes
  <2>3. \A g \in Gate : q \in Waiters(wait_line'[g]) <=> q \in Waiters(L[g]) /\ q \notin D
    BY <1>1, UnlinkWaiters
  <2>4. (\E g \in Gate : gate_owner'[g] = q) <=> q \in Owners  BY DEF Owners
  <2> HIDE DEF l
  <2>5. T[q].state = "BLOCKED" => l # "new"
    BY <2>1 DEF FitRow, Place, Retries, Collecting
  <2>6. CASE q \in D
    <3>1. proc'[q].state = "ZOMBIE" /\ q \notin Owners
      BY <2>6 DEF Settled, RowAfter, SigDies
    <3>2. ~(rp' = "BUSY" /\ gate_owner'[FileIO] = q)  BY <2>4, <3>1, Constants
    <3> QED  BY <2>3, <2>4, <2>6, <3>1, <3>2 DEF FitRow
  <2>7. CASE q \notin D
    <3>1. /\ proc'[q] \in Row
          /\ Survives(T[q], proc'[q], T[q].pending = "STOP" /\ q \notin Owners)
      BY <2>7 DEF Settled, RowAfter
    <3>2. \A g \in Gate : q \in Waiters(wait_line'[g]) <=>
             proc'[q].state = "BLOCKED" /\ proc'[q].reason = "LOCK" /\ proc'[q].object = g
      BY <2>1, <2>3, <2>7, <3>1 DEF FitRow, Survives
    <3>3. proc'[q].state = "BLOCKED" => Place(proc'[q].reason, proc'[q].object, pc'[q])
      BY <2>1, <2>2, <2>5, <3>1 DEF FitRow, Survives
    <3>4. proc'[q].state = "BLOCKED" /\ proc'[q].reason = "RP" <=>
             rp' = "BUSY" /\ gate_owner'[FileIO] = q
      BY <2>1, <3>1 DEF FitRow, Survives
    <3>5. q \in Owners =>
             \/ proc'[q].state \in {"READY", "RUNNING", "BLOCKED"}
             \/ proc'[q].state \in Dead /\ pc'[q] \in {"x_parent", "x_wake", "x_rel"}
      <4>1. SUFFICES ASSUME q \in Owners
                     PROVE  \/ proc'[q].state \in {"READY", "RUNNING", "BLOCKED"}
                            \/ proc'[q].state \in Dead /\ pc'[q] \in {"x_parent", "x_wake", "x_rel"}
        OBVIOUS
      <4>2. CASE T[q].state \in {"READY", "RUNNING", "BLOCKED"}
        BY <3>1, <4>1, <4>2 DEF Survives, Dead, Active, Row, State
      <4>3. CASE T[q].state \in Dead /\ l \in {"x_parent", "x_wake", "x_rel"}
        BY <2>2, <3>1, <4>3 DEF Survives
      <4> QED  BY <2>1, <2>4, <4>1, <4>2, <4>3 DEF FitRow
    <3> QED  BY <2>4, <3>2, <3>3, <3>4, <3>5 DEF FitRow
  <2> QED  BY <2>6, <2>7
<1> QED  BY <1>2, <1>3 DEF Fit, FitRow, Ordered

----------------------------------------------------------------------------
(***************************************************************************)
(* A step of p, or of an interrupt (p = Idle), that hands T and L on.      *)
(***************************************************************************)
MildStep(p, to) == ArgsStay(p) /\ (p \in Task => Mild(to, arg'[p]))

LEMMA WaitStep ==
    ASSUME WaitInv, SlotInv', NEW p \in Pid, NEW to, to # "new", NEW T \in Table,
           NEW L \in [Gate -> Line], NEW D, Prepared(p, to, T, L), Settled(T, L, D),
           Goes(p, to), MildStep(p, to),
           \/ proc'[active_pid'].state = "RUNNING"
           \/ active_pid' = p /\ proc' = T /\ RunsAt(T[p], to)
           \/ active_pid' \notin Task
    PROVE  WaitInv'
<1>1. Fit'  BY SettledFits
<1>2. NoKillCalls'
  <2>1. SUFFICES ASSUME NEW q \in Task PROVE Mild(pc'[q], arg'[q])
    BY DEF NoKillCalls, Mild
  <2>2. CASE q = p  BY <2>2 DEF MildStep, Goes
  <2>3. CASE q # p
    <3>1. Mild(pc[q], arg[q]) /\ arg'[q] = arg[q]
      BY <2>3 DEF WaitInv, NoKillCalls, MildStep, ArgsStay
    <3>2. pc'[q] = pc[q] \/ pc'[q] \in {"user", "wild"}  BY <2>3 DEF Goes
    <3> QED  BY <3>1, <3>2 DEF Mild, Kill
  <2> QED  BY <2>2, <2>3
<1>3. ActiveRuns'  BY DEF ActiveRuns, RunsAt, Goes
<1> QED  BY <1>1, <1>2, <1>3 DEF WaitInv, NoKill

LEMMA ContinueFacts ==
    ASSUME Inv, NEW p \in Task, NEW T \in Table, NEW L \in [Gate -> Line], NEW con, NEW to,
           Continue(p, T, L, con, to)
    PROVE  Settled(T, L, {}) /\ Goes(p, to) /\ active_pid' = active_pid /\ proc' = T
<1>1. proc' = T /\ wait_line' = L /\ active_pid' = active_pid /\ pc' = [pc EXCEPT ![p] = to]
  BY DEF Continue, cpu
<1>2. Goes(p, to)  BY <1>1 DEF Goes, Inv, TypeOK
<1> QED  BY <1>1, <1>2, ContinueSettled

LEMMA PassFacts ==
    ASSUME Inv, Inv', NEW p \in Task, pc[p] # "new", NEW T, Tame(T), NEW L \in [Gate -> Line],
           NEW con \in Con, NEW to \in Label \ {"new"}, NEW own, gate_owner' = own,
           Dispatch(T, L, own, con, Goto(p, to))
    PROVE  /\ T \in Table /\ Settled(T, L, SigDies(T, Owners)) /\ Goes(p, to)
           /\ proc'[active_pid'].state = "RUNNING"
<1>1. Goes(p, to)  BY GoesFrom, DispatchGoto
<1>2. T \in Table /\ gate_owner' \in [Gate -> Pid \cup {Nobody}]  BY DEF Tame, Follows, Inv, TypeOK
<1> QED  BY <1>1, <1>2, DispatchSettled

\* The caller p goes on, with a row that still runs or has just ended.
LEMMA ContinueWaits ==
    ASSUME WaitInv, SlotInv', NEW p \in Task, active_pid = p, NEW T \in Table,
           NEW L \in [Gate -> Line], NEW con, NEW to, to # "new",
           Prepared(p, to, T, L), RunsAt(T[p], to), MildStep(p, to), Continue(p, T, L, con, to)
    PROVE  WaitInv'
<1>1. Inv /\ p \in Pid  BY Constants DEF WaitInv, SlotInv
<1>2. Settled(T, L, {}) /\ Goes(p, to) /\ active_pid' = p /\ proc' = T  BY <1>1, ContinueFacts
<1> QED  BY <1>1, <1>2, WaitStep

LEMMA PassWaits ==
    ASSUME WaitInv, SlotInv', NEW p \in Task, pc[p] # "new", NEW T, Tame(T), NEW L \in [Gate -> Line],
           NEW con \in Con, NEW to \in Label \ {"new"}, NEW own, gate_owner' = own,
           Prepared(p, to, T, L), MildStep(p, to), Dispatch(T, L, own, con, Goto(p, to))
    PROVE  WaitInv'
<1>1. Inv /\ Inv' /\ p \in Pid  BY Constants DEF WaitInv, SlotInv
<1>2. /\ T \in Table /\ Settled(T, L, SigDies(T, Owners)) /\ Goes(p, to)
      /\ proc'[active_pid'].state = "RUNNING"
  BY <1>1, PassFacts
<1> QED  BY <1>1, <1>2, WaitStep

----------------------------------------------------------------------------
(***************************************************************************)
(* What p may do to the gates and the mailbox: the other processes do not  *)
(* notice.                                                                 *)
(***************************************************************************)
OwnGates(p) == \A g \in Gate, q \in Task \ {p} : gate_owner'[g] = q <=> gate_owner[g] = q
OwnMail(p) == (rp' = "BUSY" <=> rp = "BUSY") \/ gate_owner[FileIO] = p

\* A table whose rows, but for p's, are as good as the present ones.
Others(p, T) == \A q \in Task \ {p} : Eased(proc[q], T[q])

LEMMA OtherFits ==
    ASSUME Inv, NEW p, OwnGates(p), OwnMail(p), NEW q \in Task \ {p}, NEW row, NEW L, NEW l,
           FitRow(q, row, L, gate_owner, rp, l)
    PROVE  FitRow(q, row, L, gate_owner', rp', l)
<1>1. \A g \in Gate : gate_owner'[g] = q <=> gate_owner[g] = q  BY DEF OwnGates
<1>2. rp' = "BUSY" /\ gate_owner'[FileIO] = q <=> rp = "BUSY" /\ gate_owner[FileIO] = q
  BY <1>1, Constants DEF OwnMail
<1> QED  BY <1>1, <1>2 DEF FitRow

\* A running process is in no line, and no request of its own is pending.
LEMMA CallerFree ==
    ASSUME WaitInv, NEW p \in Task, active_pid = p
    PROVE  /\ proc[p].state # "BLOCKED" /\ \A g \in Gate : p \notin Waiters(wait_line[g])
           /\ rp = "BUSY" => gate_owner[FileIO] \in Task \ {p}
           /\ pc[p] \notin {"x_parent", "x_wake", "x_rel"} => proc[p].state = "RUNNING"
<1>1. RunsAt(proc[p], pc[p])  BY DEF WaitInv, ActiveRuns
<1>2. FitRow(p, proc[p], wait_line, gate_owner, rp, pc[p])  BY DEF WaitInv, Fit
<1>3. rp = "BUSY" => gate_owner[FileIO] \in Task
  <2>1. SUFFICES ASSUME rp = "BUSY" PROVE gate_owner[FileIO] \in Task  OBVIOUS
  <2>2. PICK q \in Task : pc[q] \in Collecting  BY <2>1 DEF WaitInv, SlotInv, Mailbox
  <2>3. pc[q] \in Holds(FileIO)  BY <2>2, LabelSets, Constants DEF Holds
  <2> QED  BY <2>3, Constants DEF WaitInv, SlotInv, Inv, HolderOwns
<1> QED  BY <1>1, <1>2, <1>3 DEF RunsAt, FitRow, Dead

\* The table T without a change of line, for a caller that stays awake.
LEMMA AwakePrepared ==
    ASSUME WaitInv, NEW p \in Task, active_pid = p, NEW T, Others(p, T), OwnGates(p), OwnMail(p),
           NEW to, ~(rp' = "BUSY" /\ gate_owner'[FileIO] = p), T[p].state # "BLOCKED",
           \/ T[p].state \in Active
           \/ T[p].state \in Dead /\ to \in {"x_parent", "x_wake", "x_rel"}
    PROVE  Prepared(p, to, T, wait_line)
<1>1. Inv /\ Ordered(wait_line)  BY DEF WaitInv, SlotInv, Fit
<1>2. ASSUME NEW q \in Task, q # p
      PROVE  FitRow(q, T[q], wait_line, gate_owner', rp', pc[q])
  <2>1. FitRow(q, proc[q], wait_line, gate_owner, rp, pc[q])  BY DEF WaitInv, Fit
  <2>2. Eased(proc[q], T[q])  BY <1>2 DEF Others
  <2>3. FitRow(q, T[q], wait_line, gate_owner, rp, pc[q])  BY <2>1, <2>2, EasedFits
  <2> QED  BY <1>1, <1>2, <2>3, OtherFits
<1>3. FitRow(p, T[p], wait_line, gate_owner', rp', to)  BY CallerFree, AwakeFits
<1> QED  BY <1>1, <1>2, <1>3 DEF Prepared

\* The same for a caller that blocks without joining a line.
LEMMA AsleepPrepared ==
    ASSUME WaitInv, NEW p \in Task, active_pid = p, OwnGates(p), OwnMail(p), NEW to,
           NEW r \in {"RP", "CONSOLE", "TIMER", "PROC"}, NEW o, Place(r, o, to),
           r = "RP" <=> rp' = "BUSY" /\ gate_owner'[FileIO] = p
    PROVE  Prepared(p, to, SetWait(proc, p, r, o), wait_line)
<1> DEFINE T == SetWait(proc, p, r, o)
<1>1. Inv /\ Ordered(wait_line) /\ p \in Pid /\ p # Idle
  BY Constants DEF WaitInv, SlotInv, Fit
<1>2. /\ T[p].state = "BLOCKED" /\ T[p].reason = r /\ T[p].object = o
      /\ \A q \in Task : q # p => T[q] = proc[q]
  BY <1>1, Constants DEF SetWait, Inv, TypeOK, Row
<1> HIDE DEF T
<1>3. ASSUME NEW q \in Task, q # p
      PROVE  FitRow(q, T[q], wait_line, gate_owner', rp', pc[q])
  <2>1. FitRow(q, T[q], wait_line, gate_owner, rp, pc[q])  BY <1>2, <1>3 DEF WaitInv, Fit
  <2> QED  BY <1>1, <1>3, <2>1, OtherFits
<1>4. FitRow(p, T[p], wait_line, gate_owner', rp', to)
  <2>1. \A g \in Gate : p \notin Waiters(wait_line[g])  BY CallerFree
  <2> QED  BY <1>2, <2>1 DEF FitRow
<1>5. Prepared(p, to, T, wait_line)  BY <1>1, <1>3, <1>4 DEF Prepared
<1> QED  BY <1>5 DEF T

\* Joining the line of a gate.
LEMMA LinedPrepared ==
    ASSUME WaitInv, NEW p \in Task, active_pid = p, UNCHANGED <<gate_owner, rp>>, NEW to,
           NEW g \in Gate, to \in Retries(g)
    PROVE  Prepared(p, to, SetWait(proc, p, "LOCK", g), [wait_line EXCEPT ![g] = Enqueue(@, p)])
<1> DEFINE T == SetWait(proc, p, "LOCK", g)
           L == [wait_line EXCEPT ![g] = Enqueue(@, p)]
<1>1. Inv /\ Ordered(wait_line) /\ p \in Pid /\ p # Idle /\ wait_line \in [Gate -> Line]
  BY Constants DEF WaitInv, SlotInv, Fit, Inv, TypeOK
<1>2. /\ T[p].state = "BLOCKED" /\ T[p].reason = "LOCK" /\ T[p].object = g
      /\ \A q \in Task : q # p => T[q] = proc[q]
  BY <1>1, Constants DEF SetWait, Inv, TypeOK, Row
<1>3. Ordered(L)  BY <1>1, EnqueueOrdered
<1>4. \A f \in Gate : Waiters(L[f]) = IF f = g THEN Waiters(wait_line[f]) \cup {p}
                                      ELSE Waiters(wait_line[f])
  BY <1>1, EnqueueWaiters
<1> HIDE DEF T, L
<1>5. ASSUME NEW q \in Task, q # p
      PROVE  FitRow(q, T[q], L, gate_owner', rp', pc[q])
  <2>1. FitRow(q, T[q], wait_line, gate_owner, rp, pc[q])  BY <1>2, <1>5 DEF WaitInv, Fit
  <2>2. \A f \in Gate : q \in Waiters(L[f]) <=> q \in Waiters(wait_line[f])  BY <1>4, <1>5
  <2> QED  BY <2>1, <2>2 DEF FitRow
<1>6. FitRow(p, T[p], L, gate_owner', rp', to)
  <2>1. \A f \in Gate : p \notin Waiters(wait_line[f])  BY CallerFree
  <2>2. \A f \in Gate : p \in Waiters(L[f]) <=> f = g  BY <1>4, <2>1
  <2>3. ~(rp' = "BUSY" /\ gate_owner'[FileIO] = p)  BY CallerFree
  <2> QED  BY <1>2, <2>2, <2>3 DEF FitRow, Place
<1>7. Prepared(p, to, T, L)  BY <1>3, <1>5, <1>6 DEF Prepared
<1> QED  BY <1>7 DEF T, L

\* Releasing a gate: the head of its line is woken and leaves the line.
LEMMA ReleasePrepared ==
    ASSUME NEW p, NEW to, NEW T \in Table, wait_line \in [Gate -> Line], Prepared(p, to, T, wait_line),
           NEW g \in Gate
    PROVE  Prepared(p, to, ReleaseWake(T, g), ReleaseLine(g))
<1> DEFINE h == HeadOf(wait_line[g])
<1>1. CASE Waiters(wait_line[g]) = {}
  BY <1>1 DEF ReleaseWake, ReleaseLine
<1>2. CASE Waiters(wait_line[g]) # {}
  <2>1. Ordered(wait_line)  BY DEF Prepared
  <2>2. h \in Waiters(wait_line[g])  BY <1>2, <2>1, HeadWaits
  <2>3. h \in Task  BY <2>2 DEF Waiters
  <2> DEFINE l(q) == IF q = p THEN to ELSE pc[q]
  <2>4. \A q \in Task : FitRow(q, T[q], wait_line, gate_owner', rp', l(q))  BY DEF Prepared
  <2> HIDE DEF h, l
  <2>5. T[h].state = "BLOCKED" /\ T[h].reason = "LOCK" /\ T[h].object = g
    BY <2>2, <2>3, <2>4 DEF FitRow
  <2> DEFINE U == Wake(T, h)
             L == [wait_line EXCEPT ![g] = Unlink(@, {h})]
  <2>6. U[h].state = "READY" /\ \A q \in Task : q # h => U[q] = T[q]
    BY <2>3, <2>5, UnwaitedRow, Constants DEF Wake, Table, State
  <2>7. \A f \in Gate : Waiters(L[f]) = IF f = g THEN Waiters(wait_line[f]) \ {h}
                                        ELSE Waiters(wait_line[f])
    BY UnlinkWaiters
  <2>8. Ordered(L)
    <3>1. L \in [Gate -> Line]  BY LineType
    <3>2. \A f \in Gate : L[f] = Unlink(wait_line[f], IF f = g THEN {h} ELSE {})
      BY DEF Unlink
    <3> QED  BY <2>1, <3>1, <3>2, UnlinkOrdered
  <2>9. ReleaseWake(T, g) = U /\ ReleaseLine(g) = L
    BY <1>2 DEF ReleaseWake, ReleaseLine, h
  <2> HIDE DEF U, L
  <2>10. ASSUME NEW q \in Task, q # h
         PROVE  FitRow(q, U[q], L, gate_owner', rp', l(q))
    <3>1. FitRow(q, U[q], wait_line, gate_owner', rp', l(q))  BY <2>4, <2>6, <2>10
    <3>2. \A f \in Gate : q \in Waiters(L[f]) <=> q \in Waiters(wait_line[f])  BY <2>7, <2>10
    <3> QED  BY <3>1, <3>2 DEF FitRow
  <2>11. FitRow(h, U[h], L, gate_owner', rp', l(h))
    <3>1. FitRow(h, T[h], wait_line, gate_owner', rp', l(h))  BY <2>3, <2>4
    <3>2. \A f \in Gate : h \notin Waiters(L[f])  BY <2>5, <2>7, <3>1 DEF FitRow
    <3>3. ~(rp' = "BUSY" /\ gate_owner'[FileIO] = h)  BY <2>5, <3>1 DEF FitRow
    <3> QED  BY <2>6, <3>2, <3>3 DEF FitRow
  <2> QED  BY <2>8, <2>9, <2>10, <2>11 DEF Prepared, l
<1> QED  BY <1>1, <1>2

\* The rows may be eased further.
LEMMA EasedPrepared ==
    ASSUME NEW p, NEW to, NEW T, NEW U, NEW L, Prepared(p, to, T, L),
           \A q \in Task : Eased(T[q], U[q])
    PROVE  Prepared(p, to, U, L)
<1>1. \A q \in Task : FitRow(q, U[q], L, gate_owner', rp', IF q = p THEN to ELSE pc[q])
  BY EasedFits DEF Prepared
<1> QED  BY <1>1 DEF Prepared

LEMMA EasedSelf == \A r : Eased(r, r)
BY DEF Eased

LEMMA EasedDemote ==
    ASSUME NEW T \in Table, NEW p \in Pid
    PROVE  \A q \in Task : Eased(T[q], Demote(T, p)[q])
BY Constants DEF Eased, Demote, Table, Row, Active

----------------------------------------------------------------------------
(***************************************************************************)
(* The building blocks of the calls.                                       *)
(***************************************************************************)
LEMMA AcquireWaits ==
    ASSUME WaitInv, SlotInv', NEW p \in Task, NEW g \in Gate, NEW from, NEW retry, NEW to, NEW refused,
           AcquireLabels(g, from, retry, to), from \notin {"x_parent", "x_wake", "x_rel"}, retry \in Retries(g),
           MildStep(p, to), MildStep(p, retry), Acquire(p, g, from, retry, to, refused)
    PROVE  WaitInv'
<1>1. active_pid = p /\ pc[p] = from /\ p \in Pid /\ rp' = rp
  BY Constants DEF Acquire, At, others
<1>2. Inv /\ proc[p].state = "RUNNING"  BY <1>1, CallerFree DEF WaitInv, SlotInv
<1>3. gate_owner[g] # p  BY <1>1, <1>2 DEF AcquireLabels, Inv, HolderOwns
<1>4. Tame(proc) /\ proc \in Table /\ wait_line \in [Gate -> Line] /\ console_owner \in Con
  BY <1>2, ProcTame DEF Inv, TypeOK, Table, Con
<1>5. CASE /\ gate_owner[g] = Nobody
           /\ gate_owner' = [gate_owner EXCEPT ![g] = p]
           /\ Continue(p, proc, wait_line, console_owner, to)
  <2>1. OwnGates(p) /\ OwnMail(p)
    BY <1>1, <1>2, <1>5, Constants DEF OwnGates, OwnMail, Inv, TypeOK
  <2>2. ~(rp' = "BUSY" /\ gate_owner'[FileIO] = p)
    BY <1>1, <1>2, <1>5, CallerFree, Constants DEF Inv, TypeOK
  <2>3. Others(p, proc)  BY EasedSelf DEF Others
  <2>4. Prepared(p, to, proc, wait_line)
    BY <1>1, <1>2, <2>1, <2>2, <2>3, AwakePrepared DEF Active
  <2> QED  BY <1>1, <1>2, <1>4, <1>5, <2>4, ContinueWaits DEF RunsAt, AcquireLabels
<1>6. CASE /\ Dispatch(SetWait(proc, p, "LOCK", g), [wait_line EXCEPT ![g] = Enqueue(@, p)],
                       gate_owner, console_owner, Goto(p, retry))
           /\ UNCHANGED gate_owner
  <2>1. Tame(SetWait(proc, p, "LOCK", g))
    BY <1>1, <1>4, SetWaitTame, Constants DEF Tame, Reason
  <2>2. [wait_line EXCEPT ![g] = Enqueue(@, p)] \in [Gate -> Line]  BY <1>4, LineType
  <2>3. Prepared(p, retry, SetWait(proc, p, "LOCK", g), [wait_line EXCEPT ![g] = Enqueue(@, p)])
    BY <1>1, <1>6, LinedPrepared
  <2>4. pc[p] # "new" /\ retry \in Label \ {"new"}  BY <1>1 DEF AcquireLabels
  <2> QED  BY <1>4, <1>6, <2>1, <2>2, <2>3, <2>4, PassWaits
<1> QED  BY <1>3, <1>5, <1>6 DEF Acquire

\* A release by a caller that has prepared the table T.
LEMMA ReleaseWaits ==
    ASSUME WaitInv, SlotInv', NEW p \in Task, NEW g \in Gate, NEW from, NEW to, NEW T, Tame(T),
           NEW con \in Con, ReleaseLabels(g, from, to), from \notin {"x_parent", "x_wake", "x_rel"}, Others(p, T),
           T[p].state = "RUNNING", rp' = rp \/ (rp' = "IDLE" /\ gate_owner[FileIO] = p),
           MildStep(p, to), Release(p, g, T, con, from, to)
    PROVE  WaitInv'
<1>1. active_pid = p /\ pc[p] = from /\ p \in Pid  BY Constants DEF Release, At
<1>2. Inv  BY DEF WaitInv, SlotInv
<1>3. gate_owner[g] = p  BY <1>1, <1>2 DEF ReleaseLabels, Inv, HolderOwns
<1> DEFINE own == [gate_owner EXCEPT ![g] = Nobody]
<1>4. gate_owner' = own  BY <1>3 DEF Release
<1>5. /\ T \in Table /\ Tame(ReleaseWake(T, g)) /\ ReleaseLine(g) \in [Gate -> Line]
      /\ wait_line \in [Gate -> Line] /\ ReleaseWake(T, g) \in Table
  BY <1>2, ReleaseTame DEF Tame, Follows, Inv, TypeOK
<1>6. OwnGates(p) /\ OwnMail(p) /\ ~(rp' = "BUSY" /\ gate_owner'[FileIO] = p)
  <2>1. OwnGates(p)  BY <1>2, <1>3, <1>4, Constants DEF OwnGates, Inv, TypeOK
  <2>2. OwnMail(p)  BY DEF OwnMail
  <2>3. ~(rp' = "BUSY" /\ gate_owner'[FileIO] = p)
    <3>1. rp = "BUSY" => gate_owner[FileIO] # p  BY <1>1, CallerFree
    <3>2. gate_owner'[FileIO] = p => gate_owner[FileIO] = p
      BY <1>2, <1>4, Constants DEF Inv, TypeOK
    <3> QED  BY <3>1, <3>2
  <2> QED  BY <2>1, <2>2, <2>3
<1>7. Prepared(p, to, T, wait_line)  BY <1>1, <1>6, AwakePrepared DEF Active
<1>8. Prepared(p, to, ReleaseWake(T, g), ReleaseLine(g))  BY <1>5, <1>7, ReleasePrepared
<1>9. CASE Continue(p, ReleaseWake(T, g), ReleaseLine(g), con, to)
  <2>1. ReleaseWake(T, g)[p].state = "RUNNING"
    BY <1>5, Constants DEF ReleaseWake, Wake, Table
  <2> QED  BY <1>1, <1>5, <1>8, <1>9, <2>1, ContinueWaits DEF RunsAt, ReleaseLabels
<1>10. CASE Dispatch(Demote(ReleaseWake(T, g), p), ReleaseLine(g), own, con, Goto(p, to))
  <2>1. Tame(Demote(ReleaseWake(T, g), p))
    BY <1>1, <1>5, DemoteTame DEF Tame
  <2>2. Prepared(p, to, Demote(ReleaseWake(T, g), p), ReleaseLine(g))
    BY <1>1, <1>5, <1>8, EasedDemote, EasedPrepared
  <2>3. pc[p] # "new" /\ to \in Label \ {"new"}  BY <1>1 DEF ReleaseLabels
  <2> QED  BY <1>4, <1>5, <1>10, <2>1, <2>2, <2>3, PassWaits
<1> QED  BY <1>3, <1>9, <1>10 DEF Release

\* A step without gates or a pass.
LEMMA LocalWaits ==
    ASSUME WaitInv, SlotInv', NEW p \in Task, NEW from, NEW to, to # "new", NEW T \in Table,
           Others(p, T), RunsAt(T[p], to), rp' = rp \/ (rp' = "IDLE" /\ gate_owner[FileIO] = p),
           MildStep(p, to), Local(p, from, T, to)
    PROVE  WaitInv'
<1>1. active_pid = p /\ pc[p] = from /\ gate_owner' = gate_owner  BY DEF Local, At
<1>2. OwnGates(p) /\ OwnMail(p) /\ ~(rp' = "BUSY" /\ gate_owner'[FileIO] = p)
  BY <1>1, CallerFree DEF OwnGates, OwnMail
<1>3. T[p].state # "BLOCKED" /\ (T[p].state \in Active \/ (T[p].state \in Dead /\ to \in {"x_parent", "x_wake", "x_rel"}))
  BY DEF RunsAt, Active, Dead
<1>4. Prepared(p, to, T, wait_line)  BY <1>1, <1>2, <1>3, AwakePrepared
<1>5. wait_line \in [Gate -> Line]  BY DEF WaitInv, SlotInv, Inv, TypeOK
<1> QED  BY <1>1, <1>4, <1>5, ContinueWaits DEF Local

\* A caller that blocks without a line: for the RP, the console or a timer.
LEMMA BlockWaits ==
    ASSUME WaitInv, SlotInv', NEW p \in Task, NEW from, NEW to, LocalLabels(from, to), At(p, from),
           NEW r \in {"RP", "CONSOLE", "TIMER"}, Place(r, 0, to), UNCHANGED gate_owner,
           IF r = "RP" THEN rp' = "BUSY" /\ gate_owner[FileIO] = p ELSE rp' = rp, MildStep(p, to),
           Dispatch(SetWait(proc, p, r, 0), wait_line, gate_owner, console_owner, Goto(p, to))
    PROVE  WaitInv'
<1>1. active_pid = p /\ pc[p] = from /\ p \in Pid /\ r \in Reason
  BY Constants DEF At, Reason
<1>2. Inv /\ Tame(proc) /\ wait_line \in [Gate -> Line] /\ console_owner \in Con
  BY ProcTame DEF WaitInv, SlotInv, Inv, TypeOK, Con
<1>3. OwnGates(p) /\ OwnMail(p) /\ (r = "RP" <=> rp' = "BUSY" /\ gate_owner'[FileIO] = p)
  BY <1>1, CallerFree DEF OwnGates, OwnMail
<1>4. Prepared(p, to, SetWait(proc, p, r, 0), wait_line)  BY <1>1, <1>3, AsleepPrepared
<1>5. Tame(SetWait(proc, p, r, 0))  BY <1>1, <1>2, SetWaitTame, Constants DEF Tame
<1>6. pc[p] # "new" /\ to \in Label \ {"new"}  BY <1>1 DEF LocalLabels
<1> QED  BY <1>2, <1>4, <1>5, <1>6, PassWaits

LEMMA RequestWaits ==
    ASSUME WaitInv, SlotInv', NEW p \in Task, NEW from, NEW collect, LocalLabels(from, collect),
           collect \in Collecting, RpRequest(p, from, collect)
    PROVE  WaitInv'
<1>1. Place("RP", 0, collect)  BY DEF Place
<1>2. MildStep(p, collect)
  <2>1. arg' = arg  BY DEF RpRequest
  <2> QED  BY <2>1 DEF MildStep, ArgsStay, Mild, Kill, Collecting
<1> QED  BY <1>1, <1>2, BlockWaits DEF RpRequest, MayRequest

\* A label that has nothing to do with signals.
Plain(l) == l \notin Kill \cup {"s_acq", "s_chk"}

LEMMA PlainMild ==
    ASSUME WaitInv, NEW p \in Task, NEW to, Plain(to),
           UNCHANGED arg \/ \E a : arg' = [arg EXCEPT ![p] = a]
    PROVE  MildStep(p, to)
<1>1. arg \in [Task -> Arg]  BY DEF WaitInv, SlotInv, Inv, TypeOK
<1> QED  BY <1>1 DEF MildStep, ArgsStay, Mild, Plain

LEMMA PlainLabels ==
    \A l \in {"user", "none", "f_acq", "f_req", "f_col", "c_acq", "c_chk", "c_blk", "x_acq", "x_life",
              "x_facq", "x_close", "x_col", "x_zomb", "x_parent", "x_wake", "x_rel", "t_facq", "t_close", "t_col",
              "t_empty", "w_acq", "w_chk", "w_wait", "w_con", "s_set", "s_ret", "p_acq", "p_alloc",
              "p_facq", "p_fclr", "p_gacq", "p_clone", "p_col", "p_pub", "p_con", "p_rel", "p_ret",
              "p_back", "p_err"} : Plain(l)
BY DEF Plain, Kill

LEMMA RetryLabels ==
    /\ \A l \in {"f_acq", "c_acq", "x_facq", "t_facq", "p_facq", "p_gacq"} : l \in Retries(FileIO)
    /\ \A l \in {"x_acq", "w_acq", "s_acq", "p_acq"} : l \in Retries(Proc)
BY Constants DEF Retries

\* A caller that takes a gate and goes on with the operands it has.
LEMMA AcquireKeptWaits ==
    ASSUME WaitInv, SlotInv', NEW p \in Task, NEW g \in Gate, NEW from, NEW retry, NEW to, NEW refused,
           AcquireLabels(g, from, retry, to), from \notin {"x_parent", "x_wake", "x_rel"}, retry \in Retries(g),
           Plain(to), Plain(retry), Acquire(p, g, from, retry, to, refused), UNCHANGED arg
    PROVE  WaitInv'
<1>1. MildStep(p, to) /\ MildStep(p, retry)  BY PlainMild
<1> QED  BY <1>1, AcquireWaits

\* A release with the table untouched.
LEMMA ReleasePlainWaits ==
    ASSUME WaitInv, SlotInv', NEW p \in Task, NEW g \in Gate, NEW from, NEW to, NEW con \in Con,
           ReleaseLabels(g, from, to), from \notin {"x_parent", "x_wake", "x_rel"}, Plain(to),
           rp' = rp \/ (rp' = "IDLE" /\ gate_owner[FileIO] = p),
           UNCHANGED arg \/ \E a : arg' = [arg EXCEPT ![p] = a],
           Release(p, g, proc, con, from, to)
    PROVE  WaitInv'
<1>1. MildStep(p, to)  BY PlainMild
<1>2. Others(p, proc) /\ Tame(proc)  BY EasedSelf, ProcTame DEF Others, WaitInv, SlotInv
<1>3. proc[p].state = "RUNNING"  BY CallerFree DEF Release, At
<1> QED  BY <1>1, <1>2, <1>3, ReleaseWaits

LEMMA LocalPlainWaits ==
    ASSUME WaitInv, SlotInv', NEW p \in Task, NEW from, NEW to, to # "new", Plain(to),
           from \notin {"x_parent", "x_wake", "x_rel"}, rp' = rp \/ (rp' = "IDLE" /\ gate_owner[FileIO] = p),
           UNCHANGED arg \/ \E a : arg' = [arg EXCEPT ![p] = a], Local(p, from, proc, to)
    PROVE  WaitInv'
<1>1. MildStep(p, to)  BY PlainMild
<1>2. Others(p, proc) /\ proc \in Table
  BY EasedSelf DEF Others, WaitInv, SlotInv, Inv, TypeOK, Table
<1>3. RunsAt(proc[p], to)  BY CallerFree DEF Local, At, RunsAt
<1> QED  BY <1>1, <1>2, <1>3, LocalWaits

----------------------------------------------------------------------------
(***************************************************************************)
(* The calls.                                                              *)
(***************************************************************************)

\* The caller yields the CPU and goes on at label to when it is selected.
LEMMA YieldWaits ==
    ASSUME WaitInv, SlotInv', NEW p \in Task, active_pid = p, pc[p] # "new", NEW to \in Label \ {"new"},
           pc[p] \notin {"x_parent", "x_wake", "x_rel"}, MildStep(p, to), UNCHANGED <<gate_owner, rp>>,
           Dispatch(Demote(proc, p), wait_line, gate_owner, console_owner, Goto(p, to))
    PROVE  WaitInv'
<1>1. Inv /\ Tame(proc) /\ proc \in Table /\ p \in Pid /\ wait_line \in [Gate -> Line] /\ console_owner \in Con
  BY ProcTame, Constants DEF WaitInv, SlotInv, Inv, TypeOK, Con, Table
<1>2. proc[p].state = "RUNNING" /\ Others(p, proc)  BY CallerFree, EasedSelf DEF Others
<1>3. OwnGates(p) /\ OwnMail(p) /\ ~(rp' = "BUSY" /\ gate_owner'[FileIO] = p)
  BY CallerFree DEF OwnGates, OwnMail
<1>4. Prepared(p, to, proc, wait_line)  BY <1>2, <1>3, AwakePrepared DEF Active
<1>5. Prepared(p, to, Demote(proc, p), wait_line)  BY <1>1, <1>4, EasedDemote, EasedPrepared
<1>6. Tame(Demote(proc, p))  BY <1>1, DemoteTame DEF Tame
<1> QED  BY <1>1, <1>5, <1>6, PassWaits

LEMMA PlainWaits ==
    ASSUME WaitInv, SlotInv', NEW p \in Task, SysYield(p) \/ SysSleep(p)
    PROVE  WaitInv'
<1>1. At(p, "user") /\ active_pid = p /\ pc[p] = "user" /\ UNCHANGED <<gate_owner, arg, rp>>
  BY DEF SysYield, SysSleep, At, others
<1>2. Goto(p, "user") = pc  BY <1>1 DEF Goto, WaitInv, SlotInv, Inv, TypeOK
<1>3. MildStep(p, "user")  BY <1>1, PlainMild, PlainLabels
<1>4. CASE SysYield(p)
  <2>1. Dispatch(Demote(proc, p), wait_line, gate_owner, console_owner, Goto(p, "user"))
    BY <1>2, <1>4 DEF SysYield
  <2> QED  BY <1>1, <1>3, <2>1, YieldWaits DEF Label
<1>5. CASE SysSleep(p)
  <2>1. Dispatch(SetWait(proc, p, "TIMER", 0), wait_line, gate_owner, console_owner, Goto(p, "user"))
    BY <1>2, <1>5 DEF SysSleep
  <2>2. Place("TIMER", 0, "user")  BY DEF Place
  <2> QED  BY <1>1, <1>3, <2>1, <2>2, BlockWaits, LocalLabelFacts
<1> QED  BY <1>4, <1>5

LEMMA FileWaits ==
    ASSUME WaitInv, SlotInv', NEW p \in Task, FileCall(p)
    PROVE  WaitInv'
<1>0. console_owner \in Con  BY DEF WaitInv, SlotInv, Inv, TypeOK, Con
<1>1. CASE SysFile(p)
  BY <1>1, AcquireKeptWaits, AcquireLabelFacts, PlainLabels, RetryLabels, Constants DEF SysFile
<1>2. CASE FileLock(p)
  BY <1>2, AcquireKeptWaits, AcquireLabelFacts, PlainLabels, RetryLabels, Constants DEF FileLock
<1>3. CASE FileFails(p)
  BY <1>0, <1>3, ReleasePlainWaits, ReleaseLabelFacts, PlainLabels, Constants DEF FileFails, others
<1>4. CASE FileExec(p)
  BY <1>4, RequestWaits, LocalLabelFacts DEF FileExec, Collecting
<1>5. CASE FileResult(p)
  <2>1. gate_owner[FileIO] = p
    BY <1>5, Constants DEF FileResult, Release, At, WaitInv, SlotInv, Inv, HolderOwns, Holds, HoldsFileIO
  <2> QED  BY <1>0, <1>5, <2>1, ReleasePlainWaits, ReleaseLabelFacts, PlainLabels, Constants DEF FileResult
<1> QED  BY <1>1, <1>2, <1>3, <1>4, <1>5 DEF FileCall

\* Another pending signal does not move anybody.
LEMMA PendingEased ==
    ASSUME Inv, NEW t \in Task, NEW s \in Signal \cup {NoSignal}
    PROVE  LET T == [proc EXCEPT ![t].pending = s] IN
           Tame(T) /\ \A q \in Task : Eased(proc[q], T[q]) /\ T[q].state = proc[q].state
<1> DEFINE T == [proc EXCEPT ![t].pending = s]
<1>1. \A q \in Task : /\ T[q].state = proc[q].state /\ T[q].reason = proc[q].reason
                      /\ T[q].object = proc[q].object
  BY Constants DEF Inv, TypeOK, Row
<1>2. Tame(T)  BY PendingLike
<1> HIDE DEF T
<1>3. \A q \in Task : Eased(proc[q], T[q])  BY <1>1 DEF Eased
<1> QED  BY <1>1, <1>2, <1>3 DEF T

LEMMA ConsoleWaits ==
    ASSUME WaitInv, SlotInv', NEW p \in Task, ConsoleCall(p)
    PROVE  WaitInv'
<1>0. Inv /\ Tame(proc) /\ console_owner \in Con  BY ProcTame DEF WaitInv, SlotInv, Inv, TypeOK, Con
<1>1. CASE SysConsole(p)
  BY <1>1, AcquireKeptWaits, AcquireLabelFacts, PlainLabels, RetryLabels, Constants DEF SysConsole
<1>2. CASE ConsoleLock(p)
  BY <1>2, AcquireKeptWaits, AcquireLabelFacts, PlainLabels, RetryLabels, Constants DEF ConsoleLock
<1>3. CASE ConsoleRead(p)
  <2> DEFINE quiet == [proc EXCEPT ![p].pending = NoSignal]
  <2>1. PICK T \in {proc, quiet}, con \in Con, to \in {"user", "c_blk"} :
           Release(p, FileIO, T, con, "c_chk", to)
    BY <1>0, <1>3 DEF ConsoleRead, Inv, TypeOK, Con
  <2>2. rp' = rp /\ MildStep(p, to)  BY <1>3, <2>1, PlainMild, PlainLabels DEF ConsoleRead, others
  <2>3. /\ Tame(quiet) /\ quiet[p].state = proc[p].state
        /\ \A q \in Task : Eased(proc[q], quiet[q])
    BY <1>0, PendingEased
  <2> HIDE DEF quiet
  <2>4. proc[p].state = "RUNNING"  BY <2>1, CallerFree DEF Release, At
  <2>5. Tame(T) /\ Others(p, T) /\ T[p].state = "RUNNING"
    BY <1>0, <2>1, <2>3, <2>4, EasedSelf DEF Others
  <2>6. ReleaseLabels(FileIO, "c_chk", to)  BY <2>1, ReleaseLabelFacts
  <2> QED  BY <2>1, <2>2, <2>5, <2>6, ReleaseWaits, Constants
<1>4. CASE ConsoleBlock(p)
  <2>1. Place("CONSOLE", 0, "c_acq")  BY DEF Place
  <2>2. MildStep(p, "c_acq")  BY <1>4, PlainMild, PlainLabels DEF ConsoleBlock
  <2> QED  BY <1>4, <2>1, <2>2, BlockWaits, LocalLabelFacts DEF ConsoleBlock, others
<1> QED  BY <1>1, <1>2, <1>3, <1>4 DEF ConsoleCall

\* The descriptors of t are closed one after the other.
LEMMA CloseWaits ==
    ASSUME WaitInv, SlotInv', NEW p \in Task, NEW t \in Task, NEW from, NEW collect, NEW to,
           LocalLabels(from, collect), LocalLabels(collect, from), ReleaseLabels(FileIO, from, to),
           collect \in Collecting, {from, collect} \cap {"x_parent", "x_wake", "x_rel"} = {}, Plain(from), Plain(to),
           \/ CloseFile(p, t, from, collect)
           \/ FileClosed(p, t, collect, from)
           \/ CloseRest(p, t, from, to)
    PROVE  WaitInv'
<1>0. Inv /\ console_owner \in Con  BY DEF WaitInv, SlotInv, Inv, TypeOK, Con
<1>1. CASE CloseFile(p, t, from, collect)  BY <1>1, RequestWaits DEF CloseFile
<1>2. CASE FileClosed(p, t, collect, from)
  <2>1. gate_owner[FileIO] = p
    BY <1>0, <1>2, LabelSets, Constants DEF FileClosed, Local, At, Inv, HolderOwns, Holds
  <2> QED  BY <1>2, <2>1, LocalPlainWaits DEF FileClosed, LocalLabels
<1>3. CASE CloseRest(p, t, from, to)
  BY <1>0, <1>3, ReleasePlainWaits, Constants DEF CloseRest
<1> QED  BY <1>1, <1>2, <1>3

LEMMA ExitWaits ==
    ASSUME WaitInv, SlotInv', NEW p \in Task, ExitCall(p)
    PROVE  WaitInv'
<1>0. Inv /\ p \in Pid /\ proc \in Table /\ proc[p] \in Row /\ console_owner \in Con
  BY Constants DEF WaitInv, SlotInv, Inv, TypeOK, Table, Con
<1>1. CASE SysExit(p)
  BY <1>1, AcquireKeptWaits, AcquireLabelFacts, PlainLabels, RetryLabels, Constants DEF SysExit
<1>2. CASE ExitLock(p)
  BY <1>2, AcquireKeptWaits, AcquireLabelFacts, PlainLabels, RetryLabels, Constants DEF ExitLock
<1>3. CASE ExitFileLock(p)
  BY <1>3, AcquireKeptWaits, AcquireLabelFacts, PlainLabels, RetryLabels, Constants DEF ExitFileLock
<1>4. CASE ExitLife(p)
  <2>1. PICK to \in {"x_facq", "t_facq"} : Local(p, "x_life", proc, to)  BY <1>4 DEF ExitLife
  <2> QED  BY <1>4, <2>1, LocalPlainWaits, PlainLabels DEF ExitLife, others
<1>5. CASE ExitCloseFile(p) \/ ExitFileClosed(p) \/ ExitClose(p)
  BY <1>5, CloseWaits, LocalLabelFacts, ReleaseLabelFacts, PlainLabels
     DEF ExitCloseFile, ExitFileClosed, ExitClose, Collecting
<1>6. CASE ExitZombie(p)
  <2> DEFINE row == [Unwaited(proc[p], "ZOMBIE") EXCEPT !.pending = NoSignal]
             T == [proc EXCEPT ![p] = row]
  <2>1. row.state = "ZOMBIE" /\ row \in Row
    BY <1>0, UnwaitedRow DEF Row, State, NoSignal
  <2>2. Local(p, "x_zomb", T, "x_parent") /\ UNCHANGED <<arg, rp>>
    BY <1>6 DEF ExitZombie, others
  <2> HIDE DEF row
  <2>3. T \in Table /\ T[p] = row /\ \A q \in Task \ {p} : T[q] = proc[q]
    BY <1>0, <2>1, Constants DEF Table
  <2> HIDE DEF T
  <2>4. Others(p, T)  BY <2>3, EasedSelf DEF Others
  <2>5. RunsAt(T[p], "x_parent")  BY <2>1, <2>3 DEF RunsAt, Dead
  <2>6. MildStep(p, "x_parent")  BY <2>2, PlainMild, PlainLabels
  <2> QED  BY <2>2, <2>3, <2>4, <2>5, <2>6, LocalWaits
<1>7. CASE ExitParent(p)
  <2>1. PICK to \in {"x_wake", "x_rel"} : Local(p, "x_parent", proc, to)  BY <1>7 DEF ExitParent
  <2>2. UNCHANGED <<arg, rp>>  BY <1>7 DEF ExitParent, others
  <2>3. active_pid = p /\ pc[p] = "x_parent"  BY <2>1 DEF Local, At
  <2>4. RunsAt(proc[p], to)  BY <2>3, <2>1 DEF WaitInv, ActiveRuns, RunsAt
  <2>5. MildStep(p, to) /\ Others(p, proc)
    BY <2>1, <2>2, PlainMild, PlainLabels, EasedSelf DEF Others
  <2> QED  BY <1>0, <2>1, <2>2, <2>4, <2>5, LocalWaits
<1>8. CASE ExitWakeParent(p)
  <2> DEFINE q == proc[p].parent
             T == WakeUnchecked(proc, q)
  <2>1. Local(p, "x_wake", T, "x_rel") /\ UNCHANGED <<arg, rp>>
    BY <1>8 DEF ExitWakeParent, others
  <2>2. active_pid = p /\ pc[p] = "x_wake"  BY <2>1 DEF Local, At
  <2>3. RunsAt(proc[p], "x_rel") /\ proc[p].state # "BLOCKED"
    BY <2>2, CallerFree DEF WaitInv, ActiveRuns, RunsAt
  <2>4. /\ q \in Task /\ proc[q].state = "BLOCKED" /\ proc[q].reason = "PROC" /\ q # p
        /\ T = [proc EXCEPT ![q] = Unwaited(proc[q], "READY")]
    BY <2>2, <2>3
    DEF WakeUnchecked, WaitInv, SlotInv, Fates, WakeSure, Waited, WaitsFor, BlockedOn
  <2>5. Unwaited(proc[q], "READY") \in Row /\ Unwaited(proc[q], "READY").state = "READY"
    BY <1>0, <2>4, UnwaitedRow, Constants DEF Table, State
  <2> HIDE DEF T, q
  <2>6. T \in Table /\ T[q].state = "READY" /\ \A r \in Task \ {q} : T[r] = proc[r]
    BY <1>0, <2>4, <2>5, Constants DEF Table
  <2>7. T[p] = proc[p] /\ Others(p, T)  BY <2>4, <2>6, EasedSelf DEF Others, Eased
  <2>8. MildStep(p, "x_rel")  BY <2>1, PlainMild, PlainLabels
  <2> QED  BY <2>1, <2>3, <2>6, <2>7, <2>8, LocalWaits
<1>9. CASE ExitUnlock(p)
  <2> DEFINE own == [gate_owner EXCEPT ![Proc] = Nobody]
             W == ReleaseWake(proc, Proc)
  <2>1. /\ active_pid = p /\ pc[p] = "x_rel" /\ gate_owner[Proc] = p /\ gate_owner' = own
        /\ Dispatch(Demote(W, p), ReleaseLine(Proc), own, console_owner, Goto(p, "none"))
        /\ UNCHANGED <<arg, rp>>
    BY <1>9 DEF ExitUnlock, ReleaseAndYield, At, others
  <2>2. OwnGates(p) /\ OwnMail(p) /\ gate_owner[FileIO] # p
    <3>1. gate_owner[FileIO] # p
      BY <1>0, <2>1, Constants DEF Inv, HolderOwns, Holds, HoldsFileIO
    <3> QED  BY <1>0, <2>1, <3>1, Constants DEF OwnGates, OwnMail, Inv, TypeOK
  <2>3. \A g \in Gate : gate_owner'[g] # p
    BY <1>0, <2>1, <2>2, Constants DEF Gate, Inv, TypeOK
  <2>4. Prepared(p, "none", proc, wait_line)
    <3>1. Ordered(wait_line)  BY DEF WaitInv, Fit
    <3>2. ASSUME NEW q \in Task, q # p
          PROVE  FitRow(q, proc[q], wait_line, gate_owner', rp', pc[q])
      <4>1. FitRow(q, proc[q], wait_line, gate_owner, rp, pc[q])  BY DEF WaitInv, Fit
      <4> QED  BY <1>0, <2>2, <3>2, <4>1, OtherFits
    <3>3. FitRow(p, proc[p], wait_line, gate_owner', rp', "none")
      BY <2>1, <2>3, CallerFree, AwakeFits, Constants
    <3> QED  BY <3>1, <3>2, <3>3 DEF Prepared
  <2>5. Tame(proc) /\ wait_line \in [Gate -> Line]  BY <1>0, ProcTame DEF Inv, TypeOK
  <2>6. Tame(W) /\ W \in Table /\ ReleaseLine(Proc) \in [Gate -> Line]
    BY <1>0, <2>5, ReleaseTame, Constants DEF Tame, Follows
  <2>7. Prepared(p, "none", W, ReleaseLine(Proc))
    BY <1>0, <2>4, <2>5, ReleasePrepared, Constants
  <2> HIDE DEF W, own
  <2>8. Prepared(p, "none", Demote(W, p), ReleaseLine(Proc)) /\ Tame(Demote(W, p))
    BY <1>0, <2>6, <2>7, EasedDemote, EasedPrepared, DemoteTame DEF Tame
  <2>9. MildStep(p, "none") /\ "none" \in Label \ {"new"}
    BY <2>1, PlainMild, PlainLabels DEF Label
  <2> QED  BY <1>0, <2>1, <2>6, <2>8, <2>9, PassWaits
<1> QED  BY <1>1, <1>2, <1>3, <1>4, <1>5, <1>6, <1>7, <1>8, <1>9 DEF ExitCall

LEMMA TerminateWaits ==
    ASSUME WaitInv, SlotInv', NEW p \in Task, Terminate(p)
    PROVE  WaitInv'
<1>0. Inv /\ tgt(p) \in Task /\ proc \in Table
  BY TargetType DEF WaitInv, SlotInv, Inv, TypeOK, Table
<1>1. CASE TermFileLock(p)
  BY <1>1, AcquireKeptWaits, AcquireLabelFacts, PlainLabels, RetryLabels, Constants DEF TermFileLock
<1>2. CASE TermCloseFile(p) \/ TermFileClosed(p) \/ TermClose(p)
  BY <1>0, <1>2, CloseWaits, LocalLabelFacts, ReleaseLabelFacts, PlainLabels
     DEF TermCloseFile, TermFileClosed, TermClose, Collecting
<1>3. CASE TermEmpty(p)
  <2> DEFINE t == tgt(p)
             T == [proc EXCEPT ![t] = EmptyRow]
             to == IF t = p THEN "x_rel" ELSE "w_con"
  <2>1. Local(p, "t_empty", T, to) /\ UNCHANGED <<arg, rp>>  BY <1>3 DEF TermEmpty
  <2>2. active_pid = p /\ pc[p] = "t_empty"  BY <2>1 DEF Local, At
  <2>3. /\ T \in Table /\ T[t].state = "EMPTY" /\ \A q \in Task \ {t} : T[q] = proc[q]
    <3>1. EmptyRow.state = "EMPTY"  BY DEF EmptyRow
    <3> QED  BY <1>0, <3>1, EmptyRowType, Constants DEF Table
  <2> HIDE DEF T
  <2>4. proc[p].state = "RUNNING"  BY <2>2, CallerFree
  <2>5. t # p => proc[t].state = "ZOMBIE"
    BY <2>2 DEF WaitInv, SlotInv, Fates, Reaped, Term
  <2>6. Others(p, T)
    <3>1. SUFFICES ASSUME NEW q \in Task \ {p} PROVE Eased(proc[q], T[q])  BY DEF Others
    <3>2. CASE q = t  BY <2>3, <2>5, <3>2 DEF Eased, Dead
    <3>3. CASE q # t  BY <2>3, <3>3, EasedSelf
    <3> QED  BY <3>2, <3>3
  <2>7. RunsAt(T[p], to)  BY <2>3, <2>4 DEF RunsAt, Dead
  <2>8. MildStep(p, to) /\ to # "new"  BY <2>1, PlainMild, PlainLabels
  <2> HIDE DEF to
  <2> QED  BY <2>1, <2>3, <2>6, <2>7, <2>8, LocalWaits
<1> QED  BY <1>1, <1>2, <1>3 DEF Terminate

LEMMA WaitpidWaits ==
    ASSUME WaitInv, SlotInv', NEW p \in Task, WaitpidCall(p)
    PROVE  WaitInv'
<1>0. /\ Inv /\ p \in Pid /\ tgt(p) \in Pid /\ proc \in Table /\ console_owner \in Con
      /\ Tame(proc) /\ wait_line \in [Gate -> Line]
  BY TargetType, ProcTame, Constants DEF WaitInv, SlotInv, Inv, TypeOK, Table, Con
<1>1. CASE SysWaitpid(p)
  <2>1. PICK a : /\ Acquire(p, Proc, "user", "w_acq", "w_chk", "user")
                 /\ arg' = [arg EXCEPT ![p] = a]
    BY <1>1 DEF SysWaitpid
  <2>2. MildStep(p, "w_acq") /\ MildStep(p, "w_chk")  BY <2>1, PlainMild, PlainLabels
  <2> QED  BY <2>1, <2>2, AcquireWaits, AcquireLabelFacts, RetryLabels, Constants
<1>2. CASE WaitLock(p)
  BY <1>2, AcquireKeptWaits, AcquireLabelFacts, PlainLabels, RetryLabels, Constants DEF WaitLock
<1>3. CASE WaitCheck(p)
  <2>1. rp' = rp  BY <1>3 DEF WaitCheck, others
  <2>2. CASE /\ Release(p, Proc, proc, console_owner, "w_chk", "user")
             /\ arg' = [arg EXCEPT ![p] = NoArg(p)]
    BY <1>0, <2>1, <2>2, ReleasePlainWaits, ReleaseLabelFacts, PlainLabels, Constants
  <2>3. CASE UNCHANGED arg /\ \E to \in {"t_facq", "w_wait"} : Local(p, "w_chk", proc, to)
    BY <2>1, <2>3, LocalPlainWaits, PlainLabels
  <2> QED  BY <1>3, <2>2, <2>3 DEF WaitCheck
<1>4. CASE WaitBlock(p)
  <2> DEFINE own == [gate_owner EXCEPT ![Proc] = Nobody]
             S == SetWait(proc, p, "PROC", tgt(p))
             T == ReleaseWake(S, Proc)
  <2>1. /\ active_pid = p /\ pc[p] = "w_wait" /\ gate_owner' = own
        /\ Dispatch(T, ReleaseLine(Proc), own, console_owner, Goto(p, "w_acq"))
        /\ UNCHANGED <<arg, rp>>
    BY <1>4 DEF WaitBlock, At, others
  <2>2. gate_owner[Proc] = p /\ gate_owner[FileIO] # p
    BY <1>0, <2>1, Constants DEF Inv, HolderOwns, Holds, HoldsFileIO, HoldsProc
  <2>3. OwnGates(p) /\ OwnMail(p) /\ gate_owner'[FileIO] # p
    BY <1>0, <2>1, <2>2, Constants DEF OwnGates, OwnMail, Inv, TypeOK
  <2>4. Place("PROC", tgt(p), "w_acq")  BY DEF Place
  <2>5. Prepared(p, "w_acq", S, wait_line)  BY <2>1, <2>3, <2>4, AsleepPrepared
  <2>6. "PROC" \in Reason /\ "w_acq" \in Label \ {"new"} /\ MildStep(p, "w_acq")
    BY <2>1, PlainMild, PlainLabels DEF Reason, Label
  <2>7. Tame(S) /\ S \in Table  BY <1>0, <2>6, SetWaitTame DEF Tame, Follows
  <2> HIDE DEF S, own
  <2>8. Tame(T) /\ ReleaseLine(Proc) \in [Gate -> Line]  BY <1>0, <2>7, ReleaseTame, Constants
  <2>9. Prepared(p, "w_acq", T, ReleaseLine(Proc))
    BY <1>0, <2>5, <2>7, ReleasePrepared, Constants
  <2> HIDE DEF T
  <2> QED  BY <1>0, <2>1, <2>6, <2>8, <2>9, PassWaits
<1>5. CASE WaitReaped(p)
  <2>1. PICK con \in Con : Release(p, Proc, proc, con, "w_con", "user")
    BY <1>0, <1>5 DEF WaitReaped, Con
  <2>2. arg' = [arg EXCEPT ![p] = NoArg(p)] /\ rp' = rp  BY <1>5 DEF WaitReaped, others
  <2> QED  BY <2>1, <2>2, ReleasePlainWaits, ReleaseLabelFacts, PlainLabels, Constants
<1> QED  BY <1>1, <1>2, <1>3, <1>4, <1>5 DEF WaitpidCall

\* Without KILL a signal only becomes pending.
LEMMA SignalWaits ==
    ASSUME WaitInv, SlotInv', NEW p \in Task, SignalCall(p)
    PROVE  WaitInv'
<1>0. /\ Inv /\ tgt(p) \in Task /\ arg[p].sig \in Signal \cup {NoSignal} /\ console_owner \in Con
      /\ NoKill /\ Mild(pc[p], arg[p]) /\ arg \in [Task -> Arg] /\ proc \in Table
  BY TargetType DEF WaitInv, SlotInv, Inv, TypeOK, Con, NoKillCalls, Table
<1>1. CASE SysSignal(p)
  <2>1. PICK t \in Task, s \in SentSignals :
           /\ "signal" \in Syscalls /\ Acquire(p, Proc, "user", "s_acq", "s_chk", "user")
           /\ arg' = [arg EXCEPT ![p] = [pid |-> t, sig |-> s]]
    BY <1>1 DEF SysSignal
  <2>2. s # "KILL"  BY <1>0, <2>1 DEF NoKill
  <2>3. arg'[p].sig = s /\ ArgsStay(p)  BY <1>0, <2>1 DEF ArgsStay
  <2>4. MildStep(p, "s_acq") /\ MildStep(p, "s_chk")  BY <2>2, <2>3 DEF MildStep, Mild, Kill
  <2> QED  BY <2>1, <2>4, AcquireWaits, AcquireLabelFacts, RetryLabels, Constants
<1>2. CASE SignalLock(p)
  <2>1. pc[p] = "s_acq" /\ UNCHANGED arg  BY <1>2 DEF SignalLock, Acquire, At
  <2>2. MildStep(p, "s_acq") /\ MildStep(p, "s_chk")
    BY <1>0, <2>1 DEF MildStep, Mild, Kill, ArgsStay
  <2> QED  BY <1>2, <2>2, AcquireWaits, AcquireLabelFacts, RetryLabels, Constants DEF SignalLock
<1>3. CASE SignalCheck(p)
  <2>1. rp' = rp  BY <1>3 DEF SignalCheck
  <2>2. CASE /\ Release(p, Proc, proc, console_owner, "s_chk", "user")
             /\ arg' = [arg EXCEPT ![p] = NoArg(p)]
    BY <1>0, <2>1, <2>2, ReleasePlainWaits, ReleaseLabelFacts, PlainLabels, Constants
  <2>3. CASE /\ Local(p, "s_chk", proc, IF arg[p].sig = "KILL" THEN "k_clear" ELSE "s_set")
             /\ UNCHANGED arg
    <3>1. arg[p].sig # "KILL"  BY <1>0, <2>3 DEF Mild, Local, At
    <3> QED  BY <2>1, <2>3, <3>1, LocalPlainWaits, PlainLabels
  <2> QED  BY <1>3, <2>2, <2>3 DEF SignalCheck
<1>4. CASE SignalSet(p)
  <2> DEFINE T == [proc EXCEPT ![tgt(p)].pending = arg[p].sig]
  <2>1. /\ Release(p, Proc, T, console_owner, "s_set", "s_ret") /\ UNCHANGED <<arg, rp>>
    BY <1>4 DEF SignalSet, others
  <2>2. Tame(T) /\ \A q \in Task : Eased(proc[q], T[q]) /\ T[q].state = proc[q].state
    BY <1>0, PendingEased
  <2> HIDE DEF T
  <2>3. proc[p].state = "RUNNING"  BY <2>1, CallerFree DEF Release, At
  <2>4. Others(p, T) /\ T[p].state = "RUNNING"  BY <2>2, <2>3 DEF Others
  <2>5. MildStep(p, "s_ret")  BY <2>1, PlainMild, PlainLabels
  <2> QED  BY <1>0, <2>1, <2>2, <2>4, <2>5, ReleaseWaits, ReleaseLabelFacts, Constants
<1>5. CASE KillClear(p) \/ KillCancel(p) \/ KillZombie(p) \/ KillParent(p) \/ KillWake(p)
  <2>1. pc[p] \in Kill
    BY <1>5 DEF KillClear, KillCancel, KillZombie, KillParent, KillWake, Local, Release, At, Kill
  <2> QED  BY <1>0, <2>1 DEF Mild
<1>6. CASE SignalReturn(p)
  <2>1. /\ active_pid = p /\ pc[p] = "s_ret" /\ arg' = [arg EXCEPT ![p] = NoArg(p)]
        /\ UNCHANGED <<gate_owner, rp>>
    BY <1>6 DEF SignalReturn, At, others
  <2>2. MildStep(p, "user") /\ "user" \in Label \ {"new"}
    BY <2>1, PlainMild, PlainLabels DEF Label
  <2>3. CASE Dispatch(Demote(proc, p), wait_line, gate_owner, console_owner, Goto(p, "user"))
    BY <2>1, <2>2, <2>3, YieldWaits
  <2>4. CASE Continue(p, proc, wait_line, console_owner, "user")
    <3>1. Local(p, "s_ret", proc, "user")  BY <2>1, <2>4 DEF Local, At
    <3> QED  BY <2>1, <3>1, LocalPlainWaits, PlainLabels
  <2> QED  BY <1>6, <2>3, <2>4 DEF SignalReturn
<1> QED  BY <1>1, <1>2, <1>3, <1>4, <1>5, <1>6 DEF SignalCall

\* Replacing the EMPTY row of a slot that is being built, or finishing it.
LEMMA BuildTable ==
    ASSUME WaitInv, NEW p \in Task, NEW t \in Task \ {p}, active_pid = p,
           pc[p] \notin {"x_parent", "x_wake", "x_rel"}, proc[t].state = "EMPTY",
           NEW row \in Row, row.state = "EMPTY"
    PROVE  LET T == [proc EXCEPT ![t] = row] IN
           Tame(T) /\ T \in Table /\ Others(p, T) /\ T[p].state = "RUNNING"
<1> DEFINE T == [proc EXCEPT ![t] = row]
<1>1. Inv /\ Tame(proc) /\ proc \in Table  BY ProcTame DEF WaitInv, SlotInv, Inv, TypeOK, Table
<1>2. T[t] = row /\ T[p] = proc[p] /\ \A q \in Task \ {t} : T[q] = proc[q]
  BY <1>1, Constants DEF Table
<1>3. Tame(T) /\ T \in Table  BY <1>1, ReplaceTame, Constants DEF Tame, Follows
<1> HIDE DEF T
<1>4. Others(p, T)
  <2>1. SUFFICES ASSUME NEW q \in Task \ {p} PROVE Eased(proc[q], T[q])  BY DEF Others
  <2>2. CASE q = t  BY <1>2, <2>2 DEF Eased
  <2>3. CASE q # t  BY <1>2, <2>3, EasedSelf
  <2> QED  BY <2>2, <2>3
<1>5. T[p].state = "RUNNING"  BY <1>2, CallerFree
<1> QED  BY <1>3, <1>4, <1>5 DEF T

LEMMA SpawnPublishWaits ==
    ASSUME WaitInv, SlotInv', NEW p \in Task, SpawnPublish(p)
    PROVE  WaitInv'
<1> DEFINE t == tgt(p)
<1>1. /\ active_pid = p /\ pc[p] = "p_pub" /\ active_pid' = p
      /\ proc' = [proc EXCEPT ![t].state = "NEW"]
      /\ pc' = [pc EXCEPT ![p] = "p_con", ![t] = "new"]
      /\ arg' = [arg EXCEPT ![t] = NoArg(t)]
      /\ UNCHANGED <<gate_owner, wait_line, rp>>
  BY DEF SpawnPublish, At, cpu, others
<1>2. Inv /\ t \in Task /\ proc[t].state = "EMPTY" /\ t # p
  BY <1>1, TargetType DEF WaitInv, SlotInv, Inv, Slots, Built, SpawnTarget, Filling
<1>3. \A g \in Gate : gate_owner[g] = p
  BY <1>1, <1>2 DEF Inv, HolderOwns, Holds, HoldsFileIO, HoldsProc
<1>4. proc'[t].state = "NEW" /\ \A q \in Task \ {t} : proc'[q] = proc[q]
  BY <1>1, <1>2, Constants DEF Inv, TypeOK, Row
<1>5. /\ pc'[p] = "p_con" /\ pc'[t] = "new" /\ \A q \in Task \ {p, t} : pc'[q] = pc[q]
      /\ \A q \in Task \ {t} : arg'[q] = arg[q]
  BY <1>1, <1>2 DEF Inv, TypeOK
<1>6. proc[p].state = "RUNNING" /\ \A g \in Gate : p \notin Waiters(wait_line[g])
  BY <1>1, CallerFree
<1>7. rp # "BUSY"
  <2>1. rp = "BUSY" => gate_owner[FileIO] # p  BY <1>1, CallerFree
  <2> QED  BY <1>3, <2>1, Constants
<1> HIDE DEF t
<1>8. Fit'
  <2>1. ASSUME NEW q \in Task
        PROVE  FitRow(q, proc'[q], wait_line', gate_owner', rp', pc'[q])
    <3>1. FitRow(q, proc[q], wait_line, gate_owner, rp, pc[q])  BY DEF WaitInv, Fit
    <3>2. CASE q = t
      <4>1. \A g \in Gate : q \notin Waiters(wait_line'[g])  BY <1>1, <1>2, <3>1, <3>2 DEF FitRow
      <4>2. \A g \in Gate : gate_owner'[g] # q  BY <1>1, <1>2, <1>3, <3>2
      <4>3. rp' # "BUSY" /\ proc'[q].state # "BLOCKED"  BY <1>1, <1>4, <1>7, <3>2
      <4> QED  BY <4>1, <4>2, <4>3, AwakeFits
    <3>3. CASE q = p
      <4>1. proc'[p] = proc[p]  BY <1>2, <1>4
      <4> QED  BY <1>1, <1>6, <1>7, <3>3, <4>1, AwakeFits DEF Active
    <3>4. CASE q \notin {p, t}  BY <1>1, <1>4, <1>5, <3>1, <3>4
    <3> QED  BY <3>2, <3>3, <3>4
  <2>2. Ordered(wait_line')  BY <1>1 DEF WaitInv, Fit
  <2> QED  BY <2>1, <2>2 DEF Fit, FitRow, Ordered
<1>9. NoKillCalls'
  <2>1. SUFFICES ASSUME NEW q \in Task PROVE Mild(pc'[q], arg'[q])  BY DEF NoKillCalls, Mild
  <2> QED  BY <1>5 DEF WaitInv, NoKillCalls, Mild, Kill
<1>10. ActiveRuns'  BY <1>1, <1>2, <1>4, <1>6 DEF ActiveRuns, RunsAt
<1> QED  BY <1>8, <1>9, <1>10 DEF WaitInv, NoKill

LEMMA SpawnWaits ==
    ASSUME WaitInv, SlotInv', NEW p \in Task, SpawnCall(p)
    PROVE  WaitInv'
<1>0. /\ Inv /\ tgt(p) \in Task /\ proc \in Table /\ console_owner \in Con
      /\ pc[p] \in Filling => tgt(p) # p /\ proc[tgt(p)].state = "EMPTY"
  BY TargetType DEF WaitInv, SlotInv, Inv, TypeOK, Table, Con, Slots, Built, SpawnTarget
<1>1. CASE SysSpawn(p)
  BY <1>1, AcquireKeptWaits, AcquireLabelFacts, PlainLabels, RetryLabels, Constants DEF SysSpawn
<1>2. CASE SpawnLock(p)
  BY <1>2, AcquireKeptWaits, AcquireLabelFacts, PlainLabels, RetryLabels, Constants DEF SpawnLock
<1>3. CASE SpawnAlloc(p)
  <2>1. rp' = rp  BY <1>3 DEF SpawnAlloc
  <2>2. CASE Local(p, "p_alloc", proc, "p_err") /\ UNCHANGED arg
    BY <2>1, <2>2, LocalPlainWaits, PlainLabels
  <2>3. CASE \E t \in Task : /\ FreeSlot(t) /\ arg' = [arg EXCEPT ![p].pid = t]
                             /\ Local(p, "p_alloc", [proc EXCEPT ![t] = [EmptyRow EXCEPT !.parent = p]], "p_facq")
    <3> DEFINE row == [EmptyRow EXCEPT !.parent = p]
    <3>1. PICK t \in Task : /\ FreeSlot(t) /\ arg' = [arg EXCEPT ![p].pid = t]
                            /\ Local(p, "p_alloc", [proc EXCEPT ![t] = row], "p_facq")
      BY <2>3
    <3>2. row \in Row /\ row.state = "EMPTY"
      BY Constants DEF EmptyRow, Row, State, Reason, NoSignal, Nobody
    <3> HIDE DEF row
    <3>3. active_pid = p /\ pc[p] = "p_alloc"  BY <3>1 DEF Local, At
    <3>4. proc[t].state = "EMPTY" /\ t # p  BY <3>1, <3>3, CallerFree DEF FreeSlot
    <3> DEFINE T == [proc EXCEPT ![t] = row]
    <3>5. T \in Table /\ Others(p, T) /\ T[p].state = "RUNNING"
      BY <3>2, <3>3, <3>4, BuildTable
    <3>6. Local(p, "p_alloc", T, "p_facq")  BY <3>1
    <3> HIDE DEF T
    <3>7. MildStep(p, "p_facq")  BY <3>1, PlainMild, PlainLabels
    <3> QED  BY <2>1, <3>5, <3>6, <3>7, LocalWaits DEF RunsAt
  <2> QED  BY <1>3, <2>2, <2>3 DEF SpawnAlloc
<1>4. CASE SpawnFileLock(p)
  BY <1>4, AcquireKeptWaits, AcquireLabelFacts, PlainLabels, RetryLabels, Constants DEF SpawnFileLock
<1>5. CASE SpawnClearFds(p)
  <2>1. PICK b \in BOOLEAN :
           Release(p, FileIO, [proc EXCEPT ![tgt(p)].catch = b], console_owner, "p_fclr", "p_gacq")
    BY <1>5, KernelAssumption DEF SpawnClearFds
  <2>2. UNCHANGED <<arg, rp>>  BY <1>5 DEF SpawnClearFds
  <2>3. active_pid = p /\ pc[p] = "p_fclr"  BY <2>1 DEF Release, At
  <2>4. tgt(p) # p /\ proc[tgt(p)].state = "EMPTY"  BY <1>0, <2>3 DEF Filling
  <2> DEFINE row == [proc[tgt(p)] EXCEPT !.catch = b]
             T == [proc EXCEPT ![tgt(p)] = row]
  <2>5. row \in Row /\ row.state = "EMPTY"  BY <1>0, <2>4, Constants DEF Table, Row
  <2>6. Release(p, FileIO, T, console_owner, "p_fclr", "p_gacq")  BY <2>1
  <2> HIDE DEF row
  <2>7. Tame(T) /\ Others(p, T) /\ T[p].state = "RUNNING"
    BY <1>0, <2>3, <2>4, <2>5, BuildTable
  <2> HIDE DEF T
  <2>8. MildStep(p, "p_gacq")  BY <2>2, PlainMild, PlainLabels
  <2> QED  BY <1>0, <2>2, <2>6, <2>7, <2>8, ReleaseWaits, ReleaseLabelFacts, Constants
<1>6. CASE SpawnFileLockAgain(p)
  BY <1>6, AcquireKeptWaits, AcquireLabelFacts, PlainLabels, RetryLabels, Constants DEF SpawnFileLockAgain
<1>7. CASE SpawnClone(p)
  BY <1>7, RequestWaits, LocalLabelFacts DEF SpawnClone, Collecting
<1>8. CASE SpawnCloneFails(p)
  BY <1>8, LocalPlainWaits, PlainLabels DEF SpawnCloneFails
<1>9. CASE SpawnResult(p)
  <2>1. PICK to \in {"p_pub", "p_back"} : Local(p, "p_col", proc, to)  BY <1>9 DEF SpawnResult
  <2>2. gate_owner[FileIO] = p
    BY <1>0, <2>1, Constants DEF Local, At, Inv, HolderOwns, Holds, HoldsFileIO
  <2> QED  BY <1>9, <2>1, <2>2, LocalPlainWaits, PlainLabels DEF SpawnResult
<1>10. CASE SpawnPublish(p)  BY <1>10, SpawnPublishWaits
<1>11. CASE SpawnConsole(p)
  <2>1. PICK con \in Con : Release(p, FileIO, proc, con, "p_con", "p_rel")
    BY <1>0, <1>11 DEF SpawnConsole, Con
  <2> QED  BY <1>11, <2>1, ReleasePlainWaits, ReleaseLabelFacts, PlainLabels, Constants
           DEF SpawnConsole, others
<1>12. CASE SpawnUnlock(p)
  BY <1>0, <1>12, ReleasePlainWaits, ReleaseLabelFacts, PlainLabels, Constants DEF SpawnUnlock, others
<1>13. CASE SpawnReturn(p)
  BY <1>13, LocalPlainWaits, PlainLabels DEF SpawnReturn, others
<1>14. CASE SpawnRollback(p)
  <2> DEFINE T == [proc EXCEPT ![tgt(p)] = EmptyRow]
  <2>1. Release(p, FileIO, T, console_owner, "p_back", "p_err") /\ UNCHANGED <<arg, rp>>
    BY <1>14 DEF SpawnRollback
  <2>2. active_pid = p /\ pc[p] = "p_back"  BY <2>1 DEF Release, At
  <2>3. tgt(p) # p /\ proc[tgt(p)].state = "EMPTY"  BY <1>0, <2>2 DEF Filling
  <2>4. EmptyRow \in Row /\ EmptyRow.state = "EMPTY"  BY EmptyRowType DEF EmptyRow
  <2>5. Tame(T) /\ Others(p, T) /\ T[p].state = "RUNNING"
    BY <1>0, <2>2, <2>3, <2>4, BuildTable
  <2> HIDE DEF T
  <2>6. MildStep(p, "p_err")  BY <2>1, PlainMild, PlainLabels
  <2> QED  BY <1>0, <2>1, <2>5, <2>6, ReleaseWaits, ReleaseLabelFacts, Constants
<1>15. CASE SpawnFail(p)
  BY <1>0, <1>15, ReleasePlainWaits, ReleaseLabelFacts, PlainLabels, Constants DEF SpawnFail, others
<1> QED  BY <1>1, <1>2, <1>3, <1>4, <1>5, <1>6, <1>7, <1>8, <1>9, <1>10, <1>11, <1>12, <1>13,
            <1>14, <1>15 DEF SpawnCall

----------------------------------------------------------------------------
(***************************************************************************)
(* The idle loop and the interrupts: a step of nobody.                     *)
(***************************************************************************)
LEMMA NobodyPrepared ==
    ASSUME WaitInv, UNCHANGED <<gate_owner, rp>>
    PROVE  Prepared(Idle, "none", proc, wait_line)
BY Constants DEF WaitInv, Fit, Prepared

LEMMA IdleReapWaits ==
    ASSUME WaitInv, SlotInv', IdleReap
    PROVE  WaitInv'
<1>0. Inv /\ proc \in Table /\ Tame(proc) /\ wait_line \in [Gate -> Line]
  BY ProcTame DEF WaitInv, SlotInv, Inv, TypeOK, Table
<1> DEFINE W == ReleaseWake(proc, FileIO)
           L == ReleaseLine(FileIO)
<1>1. PICK z \in Task : proc' = [W EXCEPT ![z] = EmptyRow] /\ proc[z].state = "ZOMBIE"
  BY DEF IdleReap, Orphan
<1>2. active_pid' = Idle /\ wait_line' = L /\ UNCHANGED <<gate_owner, pc, arg, rp>>
  BY DEF IdleReap, cpu
<1>3. W \in Table /\ L \in [Gate -> Line]
  BY <1>0, ReleaseTame, Constants DEF Tame, Follows
<1>4. W[z].state = "ZOMBIE"
  <2>1. Like(proc, W)  BY <1>0, LikeRelease
  <2> QED  BY <1>1, <2>1 DEF Like
<1>5. Prepared(Idle, "none", W, L)
  BY <1>0, <1>2, NobodyPrepared, ReleasePrepared, Constants
<1> HIDE DEF W, L
<1> DEFINE T == [W EXCEPT ![z] = EmptyRow]
<1>6. T \in Table /\ T[z] = EmptyRow /\ \A q \in Task \ {z} : T[q] = W[q]
  BY <1>3, EmptyRowType, Constants DEF Table
<1>7. proc' = T  BY <1>1
<1> HIDE DEF T
<1>8. \A q \in Task : Eased(W[q], T[q])
  <2> TAKE q \in Task
  <2>1. CASE q = z  BY <1>4, <1>6, <2>1 DEF Eased, Dead, EmptyRow
  <2>2. CASE q # z  BY <1>6, <2>2, EasedSelf
  <2> QED  BY <2>1, <2>2
<1>9. Prepared(Idle, "none", T, L)  BY <1>5, <1>8, EasedPrepared
<1>10. Settled(T, L, {})  BY <1>2, <1>3, <1>6, <1>7, ContinueSettled
<1>11. Goes(Idle, "none") /\ MildStep(Idle, "none")
  BY <1>2, Constants DEF Goes, MildStep, ArgsStay
<1> QED  BY <1>2, <1>3, <1>6, <1>9, <1>10, <1>11, WaitStep, Constants

LEMMA IrqWaits ==
    ASSUME WaitInv, SlotInv', NEW T, Tame(T), Prepared(Idle, "none", T, wait_line),
           UNCHANGED <<gate_owner, arg>>,
           Dispatch(Demote(T, active_pid), wait_line, gate_owner, console_owner, pc)
    PROVE  WaitInv'
<1> DEFINE U == Demote(T, active_pid)
<1>0. /\ Inv /\ Inv' /\ active_pid \in Pid /\ T \in Table /\ wait_line \in [Gate -> Line]
      /\ gate_owner' = gate_owner
  BY DEF WaitInv, SlotInv, Inv, TypeOK, Tame, Follows
<1>1. Tame(U) /\ U \in Table  BY <1>0, DemoteTame DEF Tame, Follows
<1>2. Prepared(Idle, "none", U, wait_line)  BY <1>0, EasedDemote, EasedPrepared
<1> HIDE DEF U
<1>3. Dispatch(U, wait_line, gate_owner, console_owner, pc)  BY DEF U
<1>4. Moved(pc)  BY <1>0, <1>1, <1>3, DispatchIrq
<1>5. Goes(Idle, "none") /\ MildStep(Idle, "none")
  BY <1>4, Constants DEF Goes, Moved, MildStep, ArgsStay
<1>6. Settled(U, wait_line, SigDies(U, Owners)) /\ proc'[active_pid'].state = "RUNNING"
  <2>1. gate_owner' \in [Gate -> Pid \cup {Nobody}]  BY <1>0 DEF Inv, TypeOK
  <2> QED  BY <1>0, <1>1, <1>3, <2>1, DispatchSettled
<1> QED  BY <1>0, <1>1, <1>2, <1>5, <1>6, WaitStep, Constants

\* The request in the mailbox is that of a FILE_IO owner in WAIT_RP.
LEMMA RequestOwner ==
    ASSUME WaitInv, rp = "BUSY"
    PROVE  gate_owner[FileIO] \in Task /\ BlockedOn(proc, gate_owner[FileIO], "RP")
<1>1. PICK q \in Task : pc[q] \in Collecting  BY DEF WaitInv, SlotInv, Mailbox
<1>2. gate_owner[FileIO] = q
  BY <1>1, LabelSets, Constants DEF WaitInv, SlotInv, Inv, HolderOwns, Holds
<1> QED  BY <1>2 DEF WaitInv, Fit, FitRow, BlockedOn

LEMMA InterruptWaits ==
    ASSUME WaitInv, SlotInv', TimerIrq \/ ConsoleBreak \/ FsDone \/ RpRoute
    PROVE  WaitInv'
<1>0. /\ Inv /\ proc \in Table /\ Tame(proc) /\ wait_line \in [Gate -> Line]
      /\ UNCHANGED <<gate_owner, arg>>
  BY ProcTame DEF WaitInv, SlotInv, Inv, TypeOK, Table, TimerIrq, ConsoleBreak, FsDone, RpRoute
<1>1. CASE TimerIrq
  <2>1. Prepared(Idle, "none", proc, wait_line)
    BY <1>0, <1>1, NobodyPrepared DEF TimerIrq, others
  <2> QED  BY <1>0, <1>1, <2>1, IrqWaits DEF TimerIrq
<1>2. CASE ConsoleBreak
  <2> DEFINE T == [proc EXCEPT ![console_owner].pending = "INT"]
  <2>1. Dispatch(Demote(T, active_pid), wait_line, gate_owner, console_owner, pc) /\ rp' = rp
    BY <1>2 DEF ConsoleBreak, others
  <2>2. Tame(T) /\ \A q \in Task : Eased(proc[q], T[q])
    BY <1>0, <1>2, PendingEased DEF ConsoleBreak, Signal
  <2> HIDE DEF T
  <2>3. Prepared(Idle, "none", T, wait_line)
    BY <1>0, <2>1, <2>2, NobodyPrepared, EasedPrepared
  <2> QED  BY <1>0, <2>1, <2>2, <2>3, IrqWaits
<1>3. CASE FsDone
  <2> DEFINE o == gate_owner[FileIO]
             T == Wake(proc, o)
  <2>1. rp = "BUSY" /\ rp' = "DONE"  BY <1>3 DEF FsDone
  <2>2. o \in Task /\ BlockedOn(proc, o, "RP")  BY <2>1, RequestOwner
  <2>3. Dispatch(Demote(T, active_pid), wait_line, gate_owner, console_owner, pc)
    BY <1>3, <2>2, Constants DEF FsDone
  <2>4. Tame(T)  BY <1>0, WakeTame DEF Tame
  <2>5. T[o].state = "READY" /\ \A q \in Task \ {o} : T[q] = proc[q]
    <3>1. Unwaited(proc[o], "READY").state = "READY"
      BY <1>0, <2>2, UnwaitedRow, Constants DEF Table, State
    <3> QED  BY <1>0, <2>2, <3>1, Constants DEF Wake, BlockedOn, Table
  <2> HIDE DEF T
  <2>6. Prepared(Idle, "none", T, wait_line)
    <3>1. \A q \in Task : FitRow(q, proc[q], wait_line, gate_owner, rp, pc[q])
      BY DEF WaitInv, Fit
    <3>2. ASSUME NEW q \in Task \ {o}
          PROVE  FitRow(q, T[q], wait_line, gate_owner', rp', pc[q])
      <4>1. FitRow(q, T[q], wait_line, gate_owner, rp, pc[q])  BY <2>5, <3>1
      <4> QED  BY <1>0, <2>1, <4>1 DEF FitRow
    <3>3. FitRow(o, T[o], wait_line, gate_owner', rp', pc[o])
      <4>1. FitRow(o, proc[o], wait_line, gate_owner, rp, pc[o])  BY <2>2, <3>1
      <4>2. \A g \in Gate : o \notin Waiters(wait_line[g])
        BY <2>2, <4>1 DEF FitRow, BlockedOn
      <4> QED  BY <2>1, <2>5, <4>2, AwakeFits DEF Active
    <3>4. Ordered(wait_line)  BY DEF WaitInv, Fit
    <3> QED  BY <2>2, <3>2, <3>3, <3>4, Constants DEF Prepared
  <2> QED  BY <1>0, <2>3, <2>4, <2>6, IrqWaits
<1>4. CASE RpRoute
  <2>1. UNCHANGED <<proc, wait_line, pc, active_pid, rp>>  BY <1>4 DEF RpRoute, cpu
  <2>2. Fit'  BY <1>0, <2>1 DEF WaitInv, Fit, FitRow, Ordered
  <2>3. NoKillCalls' /\ ActiveRuns'
    BY <1>0, <2>1 DEF WaitInv, NoKillCalls, Mild, ActiveRuns, RunsAt
  <2> QED  BY <2>2, <2>3 DEF WaitInv, NoKill
<1> QED  BY <1>1, <1>2, <1>3, <1>4

----------------------------------------------------------------------------
(***************************************************************************)
(* The theorems.                                                           *)
(***************************************************************************)
LEMMA InitWaits == Init /\ NoKill => WaitInv
<1> SUFFICES ASSUME Init, NoKill PROVE WaitInv  OBVIOUS
<1>1. SlotInv  BY InitSlots
<1>2. /\ \A q \in Task : pc[q] \in {"new", "none"}
      /\ rp = "IDLE" /\ active_pid = Idle
      /\ \A g \in Gate : gate_owner[g] = Nobody /\ wait_line[g] = {}
  BY DEF Init
<1>3. \A q \in Task : proc[q].state \in {"NEW", "EMPTY"}
  <2> DEFINE new(b) == [EmptyRow EXCEPT !.state = "NEW", !.parent = Idle, !.catch = b]
  <2>1. \A b : new(b).state = "NEW"  BY DEF EmptyRow
  <2>2. EmptyRow.state = "EMPTY"  BY DEF EmptyRow
  <2>3. \A q \in Task : proc[q] = IF q \in BootTasks THEN new(q \in BootCatch) ELSE EmptyRow
    BY Constants DEF Init
  <2> HIDE DEF new
  <2> QED  BY <2>1, <2>2, <2>3
<1>4. \A g \in Gate : Waiters(wait_line[g]) = {}  BY <1>2 DEF Waiters
<1>5. Fit
  <2>1. Ordered(wait_line)  BY <1>4 DEF Ordered
  <2>2. ASSUME NEW q \in Task PROVE FitRow(q, proc[q], wait_line, gate_owner, rp, pc[q])
    <3>1. proc[q].state # "BLOCKED" /\ rp # "BUSY" /\ \A g \in Gate : gate_owner[g] # q
      BY <1>2, <1>3, Constants
    <3> QED  BY <1>4, <3>1, AwakeFits
  <2> QED  BY <2>1, <2>2 DEF Fit
<1>6. NoKillCalls  BY <1>2 DEF NoKillCalls, Mild, Kill
<1>7. ActiveRuns  BY <1>2, Constants DEF ActiveRuns
<1> QED  BY <1>1, <1>5, <1>6, <1>7 DEF WaitInv

LEMMA NextWaits == WaitInv /\ [Next]_vars => WaitInv'
<1> SUFFICES ASSUME WaitInv, [Next]_vars PROVE WaitInv'  OBVIOUS
<1>1. SlotInv'  BY NextSlots DEF WaitInv
<1>2. CASE UNCHANGED vars
  <2>1. Fit'  BY <1>2 DEF WaitInv, Fit, FitRow, Ordered, vars
  <2>2. NoKillCalls' /\ ActiveRuns'
    BY <1>2 DEF WaitInv, NoKillCalls, Mild, ActiveRuns, RunsAt, vars
  <2> QED  BY <1>1, <2>1, <2>2 DEF WaitInv, NoKill
<1>3. ASSUME NEW p \in Task, Step(p) PROVE WaitInv'
  BY <1>1, <1>3, PlainWaits, FileWaits, ConsoleWaits, ExitWaits, TerminateWaits, WaitpidWaits,
     SignalWaits, SpawnWaits DEF Step
<1> QED  BY <1>1, <1>2, <1>3, IdleReapWaits, InterruptWaits DEF Next

LEMMA WaitInvariant == Spec /\ NoKill => []WaitInv
BY InitWaits, NextWaits, PTL DEF Spec

\* A process stands in a gate's FIFO exactly while it is blocked on that
\* gate: every wake, break, stop and exit unlinks whom it takes out of the
\* wait, and nobody is left behind in a line or asleep outside it.  For every
\* number of processes, as long as no process sends KILL.
THEOREM LinesMatchWaits == Spec /\ NoKill => []LineMatchesWaits
<1>1. WaitInv => LineMatchesWaits  BY DEF WaitInv, Fit, FitRow, LineMatchesWaits, BlockedOn
<1> QED  BY <1>1, WaitInvariant, PTL

\* While the RP works on a request, the process that made it owns FILE_IO and
\* sleeps in WAIT_RP, so the FS_DONE interrupt always finds whom to wake.
THEOREM RequestsHaveOwners == Spec /\ NoKill => []RequestHasOwner
<1>1. WaitInv => RequestHasOwner  BY RequestOwner DEF RequestHasOwner
<1> QED  BY <1>1, WaitInvariant, PTL

\* No gate owner is stuck: it is runnable, or the RP owes it an answer, or it
\* owns PROC and waits in FILE_IO's line (never the other way round), or it is
\* an exiting process about to give up PROC.
THEOREM OwnersCanRun == Spec /\ NoKill => []OwnerCanRun
<1>1. WaitInv => OwnerCanRun
  <2> SUFFICES ASSUME WaitInv, NEW g \in Gate, NEW p \in Task, gate_owner[g] = p
               PROVE  \/ proc[p].state \in {"READY", "RUNNING"}
                      \/ BlockedOn(proc, p, "RP") /\ rp = "BUSY" /\ gate_owner[FileIO] = p
                      \/ /\ g = Proc /\ gate_owner[FileIO] # p
                         /\ BlockedOn(proc, p, "LOCK") /\ proc[p].object = FileIO
                      \/ g = Proc /\ proc[p].state \in Dead /\ pc[p] \in {"x_parent", "x_wake", "x_rel"}
    BY DEF OwnerCanRun
  <2>1. FitRow(p, proc[p], wait_line, gate_owner, rp, pc[p])  BY DEF WaitInv, Fit
  <2>2. pc[p] \in Holds(g) /\ \A h \in Gate : pc[p] \in Holds(h) <=> gate_owner[h] = p
    BY DEF WaitInv, SlotInv, Inv, HolderOwns
  <2>3. /\ FileIO \in Gate /\ Proc \in Gate /\ FileIO # Proc /\ g \in {FileIO, Proc}
        /\ Holds(Proc) = HoldsProc /\ Holds(FileIO) = HoldsFileIO
    BY Constants DEF Gate, Holds
  <2>4. CASE proc[p].state \in Dead /\ pc[p] \in {"x_parent", "x_wake", "x_rel"}
    BY <2>2, <2>3, <2>4 DEF HoldsFileIO
  <2>5. CASE proc[p].state = "BLOCKED"
    <3>1. Place(proc[p].reason, proc[p].object, pc[p])  BY <2>1, <2>5 DEF FitRow
    <3>2. CASE proc[p].reason = "RP"  BY <2>1, <2>5, <3>2 DEF FitRow, BlockedOn
    <3>3. CASE proc[p].reason = "LOCK" /\ proc[p].object \in Gate /\ pc[p] \in Retries(proc[p].object)
      BY <2>2, <2>3, <2>5, <3>3 DEF Retries, HoldsFileIO, HoldsProc, BlockedOn
    <3>4. CASE pc[p] \in {"c_acq", "w_acq", "user"}
      BY <2>2, <2>3, <3>4 DEF HoldsFileIO, HoldsProc
    <3> QED  BY <3>1, <3>2, <3>3, <3>4 DEF Place
  <2> QED  BY <2>1, <2>4, <2>5 DEF FitRow
<1> QED  BY <1>1, WaitInvariant, PTL

\* A zombie stays a zombie until its slot is emptied: no late wake, CONT or
\* scheduler pass puts it back into scheduling.
THEOREM ZombiesStayDead == Spec /\ NoKill => ZombieStaysDead
<1> DEFINE Body == \A p \in Task : proc[p].state = "ZOMBIE" => proc'[p].state \in Dead
<1>1. WaitInv /\ Next => Body
  <2>1. WaitInv => \A k \in Task : ~At(k, "k_wake")
    BY DEF WaitInv, NoKillCalls, Mild, Kill, At
  <2>2. WaitInv /\ Next => ZombiesStay  BY ActionSlots DEF WaitInv, LifeStep
  <2> QED  BY <2>1, <2>2 DEF ZombiesStay
<1>2. WaitInv /\ [Next]_vars => [Body]_vars  BY <1>1
<1> HIDE DEF Body
<1>3. Spec /\ NoKill => [][Body]_vars  BY <1>2, WaitInvariant, PTL DEF Spec
<1> QED  BY <1>3 DEF Body, ZombieStaysDead

----------------------------------------------------------------------------
(***************************************************************************)
(* Nothing is lost.  A default INT ends a process wherever it is, and a    *)
(* STOP takes a woken process out of scheduling: the first loses a child's *)
(* exit on its way to waitpid, either loses a gate that has been handed    *)
(* over.  Where no process is exposed to them, neither is ever lost.       *)
(***************************************************************************)

\* The signals that can become pending.
Sendable == (IF "signal" \in Syscalls THEN SentSignals ELSE {}) \cup (IF Breaks THEN {"INT"} ELSE {})

\* Every process catches INT, or INT is never raised.
NoDefaultInt == "INT" \in Sendable => BootCatch = BootTasks /\ SpawnCatch \subseteq {TRUE}
NoStop == "STOP" \notin Sendable

\* Nobody in the table T dies of a signal.
SoberRow(r) == /\ r.pending \in Sendable \cup {NoSignal}
               /\ "INT" \in Sendable /\ r.state \notin Dead => r.catch
Sober(T) == \A q \in Task : SoberRow(T[q])

\* The labels of a spawn whose child has its flags, and those of a signal
\* call that has its operands.
Flagged == {"p_gacq", "p_clone", "p_col", "p_pub"}
Sending == {"s_acq", "s_chk", "s_set"}

ChildCatches == \A p \in Task : pc[p] \in Flagged /\ "INT" \in Sendable => proc[tgt(p)].catch
SentOnly == \A p \in Task : pc[p] \in Sending => arg[p].sig \in Sendable

\* A parent asleep in waitpid waits for a child of its own, which is alive or
\* has the wake still ahead of it.
Awaited ==
    \A q \in Task : BlockedOn(proc, q, "PROC") =>
        LET c == proc[q].object IN
        c \in Task /\ proc[c].parent = q /\ (proc[c].state \notin Dead \/ pc[c] \in AtExit)

\* The child has been found alive and PROC is held since; an exit that goes
\* straight to proc_terminate has no parent to wake.
ChildLives == \A p \in Task : pc[p] = "w_wait" => proc[tgt(p)].parent = p /\ proc[tgt(p)].state \notin Dead
OrphanEnds == \A p \in Task : pc[p] \in Term /\ tgt(p) = p => ~LiveParent(p)

\* A free gate with a line has been handed to somebody who can run.
Retried ==
    \A g \in Gate : gate_owner[g] = Nobody /\ Waiters(wait_line[g]) # {} =>
        \E q \in Task : pc[q] \in Retries(g) /\ proc[q].state \in Active

CalmInv ==
    /\ NoDefaultInt /\ Sober(proc) /\ ChildCatches /\ SentOnly
    /\ Awaited /\ ChildLives /\ OrphanEnds
    /\ NoStop => Retried

----------------------------------------------------------------------------
(***************************************************************************)
(* One row: changes that neither end nor revive a process nor let it wait  *)
(* for a child.                                                            *)
(***************************************************************************)
Sways(r, s) ==
    /\ s.parent = r.parent /\ s.catch = r.catch
    /\ s.pending \in Sendable \cup {NoSignal, r.pending}
    /\ r.state \in Dead \/ s.state \in Dead => s.state = r.state
    /\ s.state = "BLOCKED" /\ s.reason = "PROC" =>
          r.state = "BLOCKED" /\ r.reason = "PROC" /\ r.object = s.object

LEMMA SwaysSelf == \A r : Sways(r, r)
BY DEF Sways

LEMMA SwaysTrans ==
    ASSUME NEW r, NEW s, NEW t, Sways(r, s), Sways(s, t)
    PROVE  Sways(r, t)
BY DEF Sways

LEMMA SwaysSober ==
    ASSUME NEW r, NEW s, Sways(r, s), SoberRow(r)
    PROVE  SoberRow(s)
BY DEF Sways, SoberRow

LEMMA SwaysWake ==
    ASSUME NEW T \in Table, NEW h \in Pid
    PROVE  \A q \in Task : Sways(T[q], Wake(T, h)[q])
<1>1. CASE T[h].state = "BLOCKED"
  <2> DEFINE u == Unwaited(T[h], "READY")
  <2>1. u.state = "READY" /\ u.parent = T[h].parent /\ u.catch = T[h].catch /\ u.pending = T[h].pending
    BY UnwaitedRow DEF Table, State
  <2>2. Wake(T, h) = [T EXCEPT ![h] = u]  BY <1>1 DEF Wake
  <2> HIDE DEF u
  <2>3. Sways(T[h], u)  BY <1>1, <2>1 DEF Sways, Dead
  <2> QED  BY <2>2, <2>3, SwaysSelf, Constants DEF Table
<1>2. CASE T[h].state # "BLOCKED"  BY <1>2, SwaysSelf DEF Wake
<1> QED  BY <1>1, <1>2

LEMMA SwaysDemote ==
    ASSUME NEW T \in Table, NEW p \in Pid
    PROVE  \A q \in Task : Sways(T[q], Demote(T, p)[q])
<1>1. CASE p # Idle /\ T[p].state = "RUNNING"
  <2>1. Demote(T, p) = [T EXCEPT ![p] = [T[p] EXCEPT !.state = "READY"]]  BY <1>1 DEF Demote
  <2> DEFINE u == [T[p] EXCEPT !.state = "READY"]
  <2>2. u.state = "READY" /\ u.parent = T[p].parent /\ u.catch = T[p].catch /\ u.pending = T[p].pending
    BY DEF Table, Row
  <2> HIDE DEF u
  <2>3. Sways(T[p], u)  BY <1>1, <2>2 DEF Sways, Dead
  <2> QED  BY <2>1, <2>3, SwaysSelf, Constants DEF Table, u
<1>2. CASE ~(p # Idle /\ T[p].state = "RUNNING")  BY <1>2, SwaysSelf DEF Demote
<1> QED  BY <1>1, <1>2

\* A block for anything but a child.
LEMMA SwaysSetWait ==
    ASSUME NEW T \in Table, NEW p \in Task, T[p].state = "RUNNING",
           NEW r \in {"LOCK", "RP", "CONSOLE", "TIMER"}, NEW o
    PROVE  \A q \in Task : Sways(T[q], SetWait(T, p, r, o)[q])
<1> DEFINE u == [T[p] EXCEPT !.state = "BLOCKED", !.reason = r, !.object = o]
<1>1. SetWait(T, p, r, o) = [T EXCEPT ![p] = u]  BY Constants DEF SetWait
<1>2. /\ u.state = "BLOCKED" /\ u.reason = r /\ u.parent = T[p].parent /\ u.catch = T[p].catch
      /\ u.pending = T[p].pending
  BY Constants DEF Table, Row
<1> HIDE DEF u
<1>3. Sways(T[p], u)  BY <1>2 DEF Sways, Dead
<1> QED  BY <1>1, <1>3, SwaysSelf, Constants DEF Table

LEMMA SwaysPending ==
    ASSUME NEW T \in Table, NEW t \in Task, NEW s \in Sendable \cup {NoSignal}
    PROVE  \A q \in Task : Sways(T[q], [T EXCEPT ![t].pending = s][q])
<1> DEFINE u == [T[t] EXCEPT !.pending = s]
<1>1. /\ u.state = T[t].state /\ u.reason = T[t].reason /\ u.object = T[t].object
      /\ u.parent = T[t].parent /\ u.catch = T[t].catch /\ u.pending = s
  BY Constants DEF Table, Row
<1> HIDE DEF u
<1>2. Sways(T[t], u)  BY <1>1 DEF Sways
<1> QED  BY <1>2, SwaysSelf, Constants DEF Table, u

----------------------------------------------------------------------------
(***************************************************************************)
(* A step of p to label to, seen from the table T it hands on.             *)
(***************************************************************************)

\* The gates p leaves behind: whoever has been handed a free gate can run.
Ready(p, to, T, L) ==
    \A g \in Gate : gate_owner'[g] = Nobody /\ Waiters(L[g]) # {} =>
        \E q \in Task : (IF q = p THEN to ELSE pc[q]) \in Retries(g) /\ T[q].state \in Active

Gentle(p, to, T) ==
    /\ Goes(p, to)
    /\ \A q \in Task : Sways(T[q], proc'[q])
    /\ NoStop /\ Retried => Retried'

LEMMA SettledCalm ==
    ASSUME NEW p, NEW to, to # "new", NEW T \in Table, NEW L \in [Gate -> Line], NEW D, Sober(T),
           Settled(T, L, D), Goes(p, to), NoStop /\ Retried => Ready(p, to, T, L)
    PROVE  Gentle(p, to, T)
<1>1. D = {}
  <2>1. \A q \in D : q \in Task /\ T[q].pending = "INT" /\ ~T[q].catch /\ T[q].state \notin Dead
    BY DEF Settled, SigDies
  <2> QED  BY <2>1 DEF Sober, SoberRow, NoSignal
<1>2. \A q \in Task : RowAfter(T[q], proc'[q], FALSE, T[q].pending = "STOP" /\ q \notin Owners)
  BY <1>1 DEF Settled, RowAfter
<1>3. \A q \in Task : Sways(T[q], proc'[q])
  <2> TAKE q \in Task
  <2> QED  BY <1>2 DEF RowAfter, Survives, Sways, Dead
<1>4. ASSUME NoStop, Retried PROVE Retried'
  <2>1. \A q \in Task : T[q].pending # "STOP"
    BY <1>4 DEF Sober, SoberRow, NoStop, NoSignal
  <2>2. \A q \in Task : T[q].state \in Active => proc'[q].state \in Active
    BY <1>2, <2>1 DEF RowAfter, Survives
  <2>3. \A g \in Gate : Waiters(wait_line'[g]) = Waiters(L[g])
    <3>1. \A g \in Gate : wait_line'[g] = Unlink(L[g], {})  BY <1>1 DEF Settled
    <3> QED  BY <3>1, UnlinkWaiters
  <2>4. Ready(p, to, T, L)  BY <1>4
  <2> SUFFICES ASSUME NEW g \in Gate, gate_owner'[g] = Nobody, Waiters(wait_line'[g]) # {}
               PROVE  \E q \in Task : pc'[q] \in Retries(g) /\ proc'[q].state \in Active
    BY DEF Retried
  <2>5. PICK q \in Task : (IF q = p THEN to ELSE pc[q]) \in Retries(g) /\ T[q].state \in Active
    BY <2>3, <2>4 DEF Ready
  <2>6. "new" \notin Retries(g)  BY DEF Retries
  <2>7. pc'[q] \in Retries(g)  BY <2>5, <2>6 DEF Goes
  <2> QED  BY <2>2, <2>5, <2>7
<1> QED  BY <1>3, <1>4 DEF Gentle

----------------------------------------------------------------------------
(***************************************************************************)
(* The building blocks of the calls, once more.                            *)
(***************************************************************************)
Retrying == {"f_acq", "c_acq", "x_facq", "t_facq", "p_facq", "p_gacq", "x_acq", "w_acq", "s_acq", "p_acq"}

LEMMA RetrySets ==
    /\ \A g \in Gate : Retries(g) \subseteq Retrying
    /\ \A l : \A g, f \in Gate : l \in Retries(g) /\ l \in Retries(f) => f = g
BY Constants DEF Retries, Retrying, Gate

LEMMA EasedActive ==
    ASSUME NEW r, NEW s, Eased(r, s), r.state \in Active
    PROVE  s.state \in Active
BY DEF Eased, Active, Dead

\* p is not at an acquire, and leaves the gates and the lines alone.
LEMMA KeepsReady ==
    ASSUME Retried, NEW p, p \in Task => pc[p] \notin Retrying, NEW to, NEW T,
           UNCHANGED gate_owner,
           \A q \in Task \ {p} : proc[q].state \in Active => T[q].state \in Active
    PROVE  Ready(p, to, T, wait_line)
<1> SUFFICES ASSUME NEW g \in Gate, gate_owner'[g] = Nobody, Waiters(wait_line[g]) # {}
             PROVE  \E q \in Task : (IF q = p THEN to ELSE pc[q]) \in Retries(g) /\ T[q].state \in Active
  BY DEF Ready
<1>1. PICK q \in Task : pc[q] \in Retries(g) /\ proc[q].state \in Active  BY DEF Retried
<1>2. q # p  BY <1>1, RetrySets
<1> QED  BY <1>1, <1>2

LEMMA ContinueCalm ==
    ASSUME Inv, NEW p \in Task, NEW T \in Table, NEW L \in [Gate -> Line], NEW con, NEW to,
           to # "new", Sober(T), NoStop /\ Retried => Ready(p, to, T, L), Continue(p, T, L, con, to)
    PROVE  Gentle(p, to, T)
<1>1. Settled(T, L, {}) /\ Goes(p, to)  BY ContinueFacts
<1> QED  BY <1>1, SettledCalm

LEMMA PassCalm ==
    ASSUME Inv, Inv', NEW p \in Task, pc[p] # "new", NEW T, Tame(T), NEW L \in [Gate -> Line],
           NEW con \in Con, NEW to \in Label \ {"new"}, NEW own, gate_owner' = own, Sober(T),
           NoStop /\ Retried => Ready(p, to, T, L), Dispatch(T, L, own, con, Goto(p, to))
    PROVE  Gentle(p, to, T)
<1>1. T \in Table /\ Settled(T, L, SigDies(T, Owners)) /\ Goes(p, to)  BY PassFacts
<1> QED  BY <1>1, SettledCalm

\* A table that sways from a sober one is as good as that one.
LEMMA CalmFrom ==
    ASSUME NEW p, NEW to, NEW T, NEW U, Gentle(p, to, U), \A q \in Task : Sways(T[q], U[q])
    PROVE  Gentle(p, to, T)
BY SwaysTrans DEF Gentle

LEMMA SoberFrom ==
    ASSUME NEW T, NEW U, Sober(T), \A q \in Task : Sways(T[q], U[q])
    PROVE  Sober(U)
BY SwaysSober DEF Sober

LEMMA AcquireCalm ==
    ASSUME WaitInv, SlotInv', Sober(proc), NEW p \in Task, NEW g \in Gate, NEW from, NEW retry,
           NEW to, NEW refused, AcquireLabels(g, from, retry, to), from \notin {"x_parent", "x_wake", "x_rel"},
           from \in Retries(g) \cup {"user"}, Acquire(p, g, from, retry, to, refused)
    PROVE  \E l \in {to, retry} : Gentle(p, l, proc)
<1>1. active_pid = p /\ pc[p] = from /\ p \in Pid  BY Constants DEF Acquire, At
<1>2. Inv /\ Inv' /\ proc[p].state = "RUNNING"  BY <1>1, CallerFree DEF WaitInv, SlotInv
<1>3. gate_owner[g] # p  BY <1>1, <1>2 DEF AcquireLabels, Inv, HolderOwns
<1>4. Tame(proc) /\ proc \in Table /\ wait_line \in [Gate -> Line] /\ console_owner \in Con
  BY <1>2, ProcTame DEF Inv, TypeOK, Table, Con
<1>5. \A f \in Gate : f # g => pc[p] \notin Retries(f)
  <2>1. \A f \in Gate : "user" \notin Retries(f)  BY DEF Retries
  <2> QED  BY <1>1, <2>1, RetrySets
<1>6. CASE /\ gate_owner[g] = Nobody
           /\ gate_owner' = [gate_owner EXCEPT ![g] = p]
           /\ Continue(p, proc, wait_line, console_owner, to)
  <2>1. ASSUME Retried PROVE Ready(p, to, proc, wait_line)
    <3> SUFFICES ASSUME NEW f \in Gate, gate_owner'[f] = Nobody, Waiters(wait_line[f]) # {}
                 PROVE  \E q \in Task : (IF q = p THEN to ELSE pc[q]) \in Retries(f) /\ proc[q].state \in Active
      BY DEF Ready
    <3>1. f # g  BY <1>1, <1>2, <1>6, Constants DEF Inv, TypeOK
    <3>2. gate_owner[f] = Nobody  BY <1>2, <1>6, <3>1 DEF Inv, TypeOK
    <3>3. PICK q \in Task : pc[q] \in Retries(f) /\ proc[q].state \in Active
      BY <2>1, <3>2 DEF Retried
    <3> QED  BY <1>5, <3>1, <3>3
  <2>2. Gentle(p, to, proc)  BY <1>2, <1>4, <1>6, <2>1, ContinueCalm DEF AcquireLabels
  <2> QED  BY <2>2
<1>7. CASE /\ gate_owner[g] \notin {Nobody, p}
           /\ Dispatch(SetWait(proc, p, "LOCK", g), [wait_line EXCEPT ![g] = Enqueue(@, p)],
                       gate_owner, console_owner, Goto(p, retry))
           /\ UNCHANGED gate_owner
  <2> DEFINE T == SetWait(proc, p, "LOCK", g)
             L == [wait_line EXCEPT ![g] = Enqueue(@, p)]
  <2>1. Tame(T)  BY <1>1, <1>4, SetWaitTame, Constants DEF Tame, Reason
  <2>2. L \in [Gate -> Line]  BY <1>4, LineType
  <2>3. \A q \in Task : Sways(proc[q], T[q])  BY <1>2, <1>4, SwaysSetWait
  <2>4. \A q \in Task : q # p => T[q] = proc[q]  BY <1>1, <1>4, Constants DEF SetWait, Table
  <2>5. \A f \in Gate : f # g => L[f] = wait_line[f]  BY <1>4
  <2>6. Dispatch(T, L, gate_owner, console_owner, Goto(p, retry))  BY <1>7
  <2> HIDE DEF T, L
  <2>7. ASSUME Retried PROVE Ready(p, retry, T, L)
    <3> SUFFICES ASSUME NEW f \in Gate, gate_owner'[f] = Nobody, Waiters(L[f]) # {}
                 PROVE  \E q \in Task : (IF q = p THEN retry ELSE pc[q]) \in Retries(f) /\ T[q].state \in Active
      BY DEF Ready
    <3>1. f # g /\ gate_owner[f] = Nobody /\ Waiters(wait_line[f]) # {}  BY <1>7, <2>5
    <3>2. PICK q \in Task : pc[q] \in Retries(f) /\ proc[q].state \in Active
      BY <2>7, <3>1 DEF Retried
    <3>3. q # p  BY <1>5, <3>1, <3>2
    <3> QED  BY <2>4, <3>2, <3>3
  <2>8. pc[p] # "new" /\ retry \in Label \ {"new"}  BY <1>1 DEF AcquireLabels
  <2>9. Sober(T)  BY <2>3, SoberFrom
  <2>10. Gentle(p, retry, T)  BY <1>2, <1>4, <1>7, <2>1, <2>2, <2>6, <2>7, <2>8, <2>9, PassCalm
  <2>11. Gentle(p, retry, proc)  BY <2>3, <2>10, CalmFrom
  <2> QED  BY <2>11
<1> QED  BY <1>3, <1>6, <1>7 DEF Acquire

\* The head of the line is handed the gate.
LEMMA ReleaseReady ==
    ASSUME WaitInv, Retried, NEW p \in Task, active_pid = p, pc[p] \notin Retrying, NEW g \in Gate,
           gate_owner' = [gate_owner EXCEPT ![g] = Nobody], NEW T \in Table, Others(p, T), NEW to
    PROVE  Ready(p, to, ReleaseWake(T, g), ReleaseLine(g))
<1> DEFINE W == ReleaseWake(T, g)
           L == ReleaseLine(g)
           h == HeadOf(wait_line[g])
<1>0. /\ wait_line \in [Gate -> Line] /\ Ordered(wait_line)
      /\ gate_owner \in [Gate -> Pid \cup {Nobody}]
  BY DEF WaitInv, SlotInv, Inv, TypeOK, Fit
<1>1. \A q \in Task \ {p} : proc[q].state \in Active => T[q].state \in Active
  BY EasedActive DEF Others
<1>2. \A f \in Gate : f # g => L[f] = wait_line[f]  BY <1>0 DEF ReleaseLine
<1>3. \A q \in Task : T[q].state \in Active => W[q].state \in Active
  BY Constants DEF ReleaseWake, Wake, Table, Active
<1> SUFFICES ASSUME NEW f \in Gate, gate_owner'[f] = Nobody, Waiters(L[f]) # {}
             PROVE  \E q \in Task : (IF q = p THEN to ELSE pc[q]) \in Retries(f) /\ W[q].state \in Active
  BY DEF Ready
<1>4. CASE f # g
  <2>1. gate_owner[f] = Nobody /\ Waiters(wait_line[f]) # {}  BY <1>0, <1>2, <1>4
  <2>2. PICK q \in Task : pc[q] \in Retries(f) /\ proc[q].state \in Active
    BY <2>1 DEF Retried
  <2>3. q # p  BY <2>2, RetrySets
  <2>4. W[q].state \in Active  BY <1>1, <1>3, <2>2, <2>3
  <2> QED  BY <2>2, <2>3, <2>4
<1>5. CASE f = g
  <2>1. Waiters(wait_line[g]) # {}  BY <1>5 DEF ReleaseLine
  <2>2. h \in Waiters(wait_line[g])  BY <1>0, <2>1, HeadWaits
  <2>3. h \in Task  BY <2>2 DEF Waiters
  <2> HIDE DEF h
  <2>4. h # p  BY <2>2, CallerFree
  <2>5. FitRow(h, proc[h], wait_line, gate_owner, rp, pc[h])  BY <2>3 DEF WaitInv, Fit
  <2>6. /\ proc[h].state = "BLOCKED" /\ proc[h].reason = "LOCK" /\ proc[h].object = g
        /\ Place(proc[h].reason, proc[h].object, pc[h])
    BY <2>2, <2>5 DEF FitRow
  <2>7. pc[h] \in Retries(g)  BY <2>6 DEF Place
  <2>8. T[h].state = "BLOCKED"
    <3>1. Eased(proc[h], T[h])  BY <2>3, <2>4 DEF Others
    <3> QED  BY <2>6, <3>1 DEF Eased, Active, Dead
  <2>9. W = Wake(T, h)  BY <2>1 DEF ReleaseWake, h
  <2>10. W[h].state = "READY"
    BY <2>3, <2>8, <2>9, UnwaitedRow, Constants DEF Wake, Table, State
  <2> HIDE DEF W
  <2> QED  BY <1>5, <2>3, <2>4, <2>7, <2>10 DEF Active
<1> QED  BY <1>4, <1>5

LEMMA SwaysRelease ==
    ASSUME WaitInv, NEW T \in Table, NEW g \in Gate
    PROVE  \A q \in Task : Sways(T[q], ReleaseWake(T, g)[q])
<1>1. CASE Waiters(wait_line[g]) = {}  BY <1>1, SwaysSelf DEF ReleaseWake
<1>2. CASE Waiters(wait_line[g]) # {}
  <2>1. HeadOf(wait_line[g]) \in Waiters(wait_line[g])
    BY <1>2, HeadWaits DEF WaitInv, SlotInv, Inv, TypeOK, Fit
  <2>2. HeadOf(wait_line[g]) \in Pid  BY <2>1, Constants DEF Waiters
  <2> QED  BY <1>2, <2>2, SwaysWake DEF ReleaseWake
<1> QED  BY <1>1, <1>2

LEMMA ReleaseCalm ==
    ASSUME WaitInv, SlotInv', NEW p \in Task, NEW g \in Gate, NEW from, NEW to, NEW T, Tame(T),
           Sober(T), NEW con \in Con, ReleaseLabels(g, from, to), Others(p, T), from \notin Retrying,
           Release(p, g, T, con, from, to)
    PROVE  Gentle(p, to, T)
<1>1. active_pid = p /\ pc[p] = from /\ p \in Pid  BY Constants DEF Release, At
<1>2. Inv /\ Inv'  BY DEF WaitInv, SlotInv
<1>3. gate_owner[g] = p  BY <1>1, <1>2 DEF ReleaseLabels, Inv, HolderOwns
<1> DEFINE own == [gate_owner EXCEPT ![g] = Nobody]
           W == ReleaseWake(T, g)
           L == ReleaseLine(g)
<1>4. gate_owner' = own  BY <1>3 DEF Release
<1>5. T \in Table /\ Tame(W) /\ L \in [Gate -> Line] /\ W \in Table
  BY <1>2, ReleaseTame DEF Tame, Follows
<1>6. \A q \in Task : Sways(T[q], W[q])  BY <1>5, SwaysRelease
<1>7. NoStop /\ Retried => Ready(p, to, W, L)  BY <1>1, <1>4, <1>5, ReleaseReady
<1>8. Sober(W)  BY <1>6, SoberFrom
<1>9. CASE Continue(p, W, L, con, to)
  <2>1. Gentle(p, to, W)  BY <1>2, <1>5, <1>7, <1>8, <1>9, ContinueCalm DEF ReleaseLabels
  <2> QED  BY <1>6, <2>1, CalmFrom
<1>10. CASE Dispatch(Demote(W, p), L, own, con, Goto(p, to))
  <2> HIDE DEF W, L, own
  <2> DEFINE U == Demote(W, p)
  <2>1. Tame(U)  BY <1>1, <1>5, DemoteTame DEF Tame
  <2>2. \A q \in Task : Sways(W[q], U[q])  BY <1>1, <1>5, SwaysDemote
  <2>3. \A q \in Task : W[q].state \in Active => U[q].state \in Active
    BY <1>1, <1>5, EasedDemote, EasedActive
  <2>4. pc[p] # "new" /\ to \in Label \ {"new"}  BY <1>1 DEF ReleaseLabels
  <2>5. Dispatch(U, L, own, con, Goto(p, to))  BY <1>10
  <2> HIDE DEF U
  <2>6. NoStop /\ Retried => Ready(p, to, U, L)  BY <1>7, <2>3 DEF Ready
  <2>7. Sober(U)  BY <1>8, <2>2, SoberFrom
  <2>8. Gentle(p, to, U)  BY <1>2, <1>4, <1>5, <2>1, <2>4, <2>5, <2>6, <2>7, PassCalm
  <2> QED  BY <1>6, <2>2, <2>8, CalmFrom
<1> QED  BY <1>3, <1>9, <1>10 DEF Release

LEMMA LocalCalm ==
    ASSUME WaitInv, NEW p \in Task, NEW from, NEW to, to # "new", NEW T \in Table, Others(p, T),
           Sober(T), from \notin Retrying, Local(p, from, T, to)
    PROVE  Gentle(p, to, T)
<1>1. Inv /\ wait_line \in [Gate -> Line] /\ gate_owner' = gate_owner /\ pc[p] = from
  BY DEF WaitInv, SlotInv, Inv, TypeOK, Local, At
<1>2. \A q \in Task \ {p} : proc[q].state \in Active => T[q].state \in Active
  BY EasedActive DEF Others
<1>3. NoStop /\ Retried => Ready(p, to, T, wait_line)  BY <1>1, <1>2, KeepsReady
<1> QED  BY <1>1, <1>3, ContinueCalm DEF Local

\* A caller that blocks without a line, or yields.
LEMMA LeaveCalm ==
    ASSUME WaitInv, SlotInv', Sober(proc), NEW p \in Task, active_pid = p, pc[p] # "new",
           pc[p] \notin Retrying, NEW to \in Label \ {"new"}, UNCHANGED gate_owner,
           NEW T, Tame(T), \A q \in Task : Sways(proc[q], T[q]),
           \A q \in Task \ {p} : proc[q].state \in Active => T[q].state \in Active,
           Dispatch(T, wait_line, gate_owner, console_owner, Goto(p, to))
    PROVE  Gentle(p, to, proc)
<1>1. Inv /\ Inv' /\ wait_line \in [Gate -> Line] /\ console_owner \in Con
  BY DEF WaitInv, SlotInv, Inv, TypeOK, Con
<1>2. NoStop /\ Retried => Ready(p, to, T, wait_line)  BY KeepsReady
<1>3. Sober(T)  BY SoberFrom
<1>4. Gentle(p, to, T)  BY <1>1, <1>2, <1>3, PassCalm
<1> QED  BY <1>4, CalmFrom

LEMMA BlockCalm ==
    ASSUME WaitInv, SlotInv', Sober(proc), NEW p \in Task, NEW from, NEW to, LocalLabels(from, to),
           At(p, from), from \notin Retrying \cup {"x_parent", "x_wake", "x_rel"},
           NEW r \in {"RP", "CONSOLE", "TIMER"}, UNCHANGED gate_owner,
           Dispatch(SetWait(proc, p, r, 0), wait_line, gate_owner, console_owner, Goto(p, to))
    PROVE  Gentle(p, to, proc)
<1>1. active_pid = p /\ pc[p] = from /\ p \in Pid /\ r \in Reason
  BY Constants DEF At, Reason
<1>2. Inv /\ Tame(proc) /\ proc \in Table /\ proc[p].state = "RUNNING"
  BY <1>1, ProcTame, CallerFree DEF WaitInv, SlotInv, Inv, TypeOK, Table
<1> DEFINE T == SetWait(proc, p, r, 0)
<1>3. Tame(T)  BY <1>1, <1>2, SetWaitTame, Constants DEF Tame
<1>4. \A q \in Task : Sways(proc[q], T[q])  BY <1>2, SwaysSetWait
<1>5. \A q \in Task \ {p} : T[q] = proc[q]  BY <1>1, <1>2, Constants DEF SetWait, Table
<1>6. Dispatch(T, wait_line, gate_owner, console_owner, Goto(p, to))  OBVIOUS
<1> HIDE DEF T
<1> QED  BY <1>1, <1>3, <1>4, <1>5, <1>6, LeaveCalm DEF LocalLabels

LEMMA YieldCalm ==
    ASSUME WaitInv, SlotInv', Sober(proc), NEW p \in Task, active_pid = p, pc[p] # "new",
           pc[p] \notin Retrying, NEW to \in Label \ {"new"}, UNCHANGED gate_owner,
           Dispatch(Demote(proc, p), wait_line, gate_owner, console_owner, Goto(p, to))
    PROVE  Gentle(p, to, proc)
<1>1. Tame(proc) /\ proc \in Table /\ p \in Pid
  BY ProcTame, Constants DEF WaitInv, SlotInv, Inv, TypeOK, Table
<1> DEFINE T == Demote(proc, p)
<1>2. Tame(T)  BY <1>1, DemoteTame DEF Tame
<1>3. \A q \in Task : Sways(proc[q], T[q])  BY <1>1, SwaysDemote
<1>4. \A q \in Task : proc[q].state \in Active => T[q].state \in Active
  BY <1>1, EasedDemote, EasedActive
<1>5. Dispatch(T, wait_line, gate_owner, console_owner, Goto(p, to))  OBVIOUS
<1> HIDE DEF T
<1> QED  BY <1>2, <1>3, <1>4, <1>5, LeaveCalm

----------------------------------------------------------------------------
(***************************************************************************)
(* The two ways to keep the invariant: a step that ends nobody, and a step *)
(* of the holder of PROC.                                                  *)
(***************************************************************************)

\* What p must know at its new label.
Enters(p, to) ==
    p \in Task =>
        /\ {pc[p], to} \cap AtExit = {}
        /\ to = "w_wait" => proc[arg'[p].pid].parent = p /\ proc[arg'[p].pid].state \notin Dead
        /\ to \in Term /\ arg'[p].pid = p => ~LiveParent(p)
        /\ to \in Sending => arg'[p].sig \in Sendable
        /\ to \in Flagged /\ "INT" \in Sendable => proc[arg'[p].pid].catch

LEMMA SwayStep ==
    ASSUME WaitInv, SlotInv', CalmInv, NEW p \in Pid, NEW to, Gentle(p, to, proc), ArgsStay(p),
           Enters(p, to)
    PROVE  CalmInv'
<1>0. /\ arg' \in [Task -> Arg] /\ \A q \in Task : arg'[q].pid \in Task
      /\ \A q \in Task : tgt(q) \in Task
  BY TargetType DEF WaitInv, SlotInv, Inv, TypeOK, Arg
<1>1. \A q \in Task : /\ proc'[q].parent = proc[q].parent /\ proc'[q].catch = proc[q].catch
                      /\ proc'[q].state \in Dead <=> proc[q].state \in Dead
                      /\ proc[q].state \in Dead => proc'[q].state = proc[q].state
  BY DEF Gentle, Sways
<1>2. \A q \in Task \ {p} : /\ pc'[q] = pc[q] \/ pc'[q] \in {"user", "wild"}
                            /\ pc[q] # "new" => pc'[q] = pc[q]
                            /\ arg'[q] = arg[q]
  BY DEF Gentle, Goes, ArgsStay
<1>3. p \in Task => pc'[p] = to  BY DEF Gentle, Goes
<1>4. Sober(proc')  BY SoberFrom DEF Gentle, CalmInv
<1>5. Awaited'
  <2> SUFFICES ASSUME NEW q \in Task, proc'[q].state = "BLOCKED", proc'[q].reason = "PROC"
               PROVE  LET c == proc'[q].object IN
                      c \in Task /\ proc'[c].parent = q /\ (proc'[c].state \notin Dead \/ pc'[c] \in AtExit)
    BY DEF Awaited, BlockedOn
  <2>1. proc[q].state = "BLOCKED" /\ proc[q].reason = "PROC" /\ proc[q].object = proc'[q].object
    BY DEF Gentle, Sways
  <2> DEFINE c == proc[q].object
  <2>2. c \in Task /\ proc[c].parent = q /\ (proc[c].state \notin Dead \/ pc[c] \in AtExit)
    BY <2>1 DEF CalmInv, Awaited, BlockedOn
  <2>3. pc[c] \in AtExit => pc'[c] \in AtExit  BY <1>2, <2>2 DEF Enters, AtExit
  <2> QED  BY <1>1, <2>1, <2>2, <2>3
<1>6. ChildCatches'
  <2> SUFFICES ASSUME NEW q \in Task, pc'[q] \in Flagged, "INT" \in Sendable
               PROVE  proc'[arg'[q].pid].catch
    BY DEF ChildCatches, Sendable, tgt
  <2>1. proc[arg'[q].pid].catch
    <3>1. CASE q = p  BY <1>3, <3>1 DEF Enters
    <3>2. CASE q # p  BY <1>2, <3>2 DEF CalmInv, ChildCatches, tgt, Flagged
    <3> QED  BY <3>1, <3>2
  <2> QED  BY <1>0, <1>1, <2>1
<1>7. SentOnly'
  <2> SUFFICES ASSUME NEW q \in Task, pc'[q] \in Sending PROVE arg'[q].sig \in Sendable
    BY DEF SentOnly, Sendable
  <2>1. CASE q = p  BY <1>3, <2>1 DEF Enters
  <2>2. CASE q # p  BY <1>2, <2>2 DEF CalmInv, SentOnly, Sending
  <2> QED  BY <2>1, <2>2
<1>8. ChildLives'
  <2> SUFFICES ASSUME NEW q \in Task, pc'[q] = "w_wait"
               PROVE  proc'[arg'[q].pid].parent = q /\ proc'[arg'[q].pid].state \notin Dead
    BY DEF ChildLives, tgt
  <2>1. proc[arg'[q].pid].parent = q /\ proc[arg'[q].pid].state \notin Dead
    <3>1. CASE q = p  BY <1>3, <3>1 DEF Enters
    <3>2. CASE q # p  BY <1>2, <3>2 DEF CalmInv, ChildLives, tgt
    <3> QED  BY <3>1, <3>2
  <2> QED  BY <1>0, <1>1, <2>1
<1>9. OrphanEnds'
  <2> SUFFICES ASSUME NEW q \in Task, pc'[q] \in Term, arg'[q].pid = q PROVE ~LiveParent(q)'
    BY DEF OrphanEnds, tgt
  <2>1. ~LiveParent(q)
    <3>1. CASE q = p  BY <1>3, <3>1 DEF Enters
    <3>2. CASE q # p  BY <1>2, <3>2 DEF CalmInv, OrphanEnds, tgt, Term
    <3> QED  BY <3>1, <3>2
  <2> QED  BY <1>1, <2>1 DEF LiveParent
<1>10. NoDefaultInt' /\ (NoStop' <=> NoStop) /\ (NoStop => Retried')
  BY DEF CalmInv, NoDefaultInt, NoStop, Sendable, Gentle
<1> QED
  BY <1>4, <1>5, <1>6, <1>7, <1>8, <1>9, <1>10 DEF CalmInv, Sober, SoberRow, Sendable

\* The waiters in the table T that p hands on.
AwaitedAt(p, to, T) ==
    \A q \in Task : BlockedOn(T, q, "PROC") =>
        LET c == T[q].object IN
        /\ c \in Task /\ T[c].parent = q
        /\ T[c].state \notin Dead \/ (IF c = p THEN to ELSE pc[c]) \in AtExit

LEMMA AwaitedNext ==
    ASSUME NEW p, NEW to, NEW T, Gentle(p, to, T), AwaitedAt(p, to, T)
    PROVE  Awaited'
<1> SUFFICES ASSUME NEW q \in Task, proc'[q].state = "BLOCKED", proc'[q].reason = "PROC"
             PROVE  LET c == proc'[q].object IN
                    c \in Task /\ proc'[c].parent = q /\ (proc'[c].state \notin Dead \/ pc'[c] \in AtExit)
  BY DEF Awaited, BlockedOn
<1>1. T[q].state = "BLOCKED" /\ T[q].reason = "PROC" /\ T[q].object = proc'[q].object
  BY DEF Gentle, Sways
<1> DEFINE c == T[q].object
<1>2. /\ c \in Task /\ T[c].parent = q
      /\ T[c].state \notin Dead \/ (IF c = p THEN to ELSE pc[c]) \in AtExit
  BY <1>1 DEF AwaitedAt, BlockedOn
<1>3. proc'[c].parent = q /\ (T[c].state \notin Dead => proc'[c].state \notin Dead)
  BY <1>2 DEF Gentle, Sways
<1>4. (IF c = p THEN to ELSE pc[c]) \in AtExit => pc'[c] \in AtExit
  BY <1>2 DEF Gentle, Goes, AtExit
<1> QED  BY <1>1, <1>2, <1>3, <1>4

LEMMA AloneCalm ==
    ASSUME WaitInv, CalmInv, NEW p \in Pid, NEW to, NEW T, Alone(p), Gentle(p, to, T), Sober(T),
           AwaitedAt(p, to, T), ArgsStay(p),
           p \in Task => /\ to \notin {"w_wait"} \cup Term \cup Sending
                         /\ to \in Flagged /\ "INT" \in Sendable =>
                               arg'[p].pid \in Task /\ T[arg'[p].pid].catch
    PROVE  CalmInv'
<1>1. \A q \in Task \ {p} :
         /\ pc'[q] \notin {"w_wait"} \cup AtExit \cup Term \cup Flagged
         /\ pc'[q] \in Sending => pc'[q] = pc[q] /\ arg'[q] = arg[q]
  BY DEF Gentle, Goes, Alone, HoldsProc, Term, Flagged, Sending, ArgsStay, AtExit
<1>2. p \in Task => pc'[p] = to  BY DEF Gentle, Goes
<1>3. Sober(proc')  BY SoberFrom DEF Gentle
<1>4. Awaited'  BY AwaitedNext
<1>5. ChildLives' /\ OrphanEnds'  BY <1>1, <1>2 DEF ChildLives, OrphanEnds
<1>6. SentOnly'
  <2> SUFFICES ASSUME NEW q \in Task, pc'[q] \in Sending PROVE arg'[q].sig \in Sendable
    BY DEF SentOnly, Sendable
  <2> QED  BY <1>1, <1>2 DEF CalmInv, SentOnly
<1>7. ChildCatches'
  <2> SUFFICES ASSUME NEW q \in Task, pc'[q] \in Flagged, "INT" \in Sendable
               PROVE  proc'[arg'[q].pid].catch
    BY DEF ChildCatches, Sendable, tgt
  <2>1. q = p /\ arg'[q].pid \in Task /\ T[arg'[q].pid].catch  BY <1>1, <1>2
  <2> QED  BY <2>1 DEF Gentle, Sways
<1>8. NoDefaultInt' /\ (NoStop' <=> NoStop) /\ (NoStop => Retried')
  BY DEF CalmInv, NoDefaultInt, NoStop, Sendable, Gentle
<1> QED
  BY <1>3, <1>4, <1>5, <1>6, <1>7, <1>8 DEF CalmInv, Sober, SoberRow, Sendable

----------------------------------------------------------------------------
(***************************************************************************)
(* The calls, once more.                                                   *)
(***************************************************************************)

\* A label at which nothing new is claimed, with the operands the call has,
\* and one at which nothing at all is claimed.
Keeps(from, to) ==
    /\ from \notin AtExit /\ to \notin AtExit \cup {"w_wait"}
    /\ to \in Term => from \in Term
    /\ to \in Sending => from \in Sending
    /\ to \in Flagged => from \in Flagged
Free(to) == to \notin {"w_wait"} \cup AtExit \cup Term \cup Sending \cup Flagged

LEMMA EntersKept ==
    ASSUME CalmInv, NEW p \in Task, NEW to, Keeps(pc[p], to), UNCHANGED arg
    PROVE  Enters(p, to) /\ ArgsStay(p)
BY DEF CalmInv, Keeps, Enters, ArgsStay, ChildCatches, SentOnly, OrphanEnds, tgt

LEMMA EntersFree ==
    ASSUME WaitInv, NEW p \in Task, pc[p] \notin AtExit, NEW to, Free(to), NEW a,
           arg' = [arg EXCEPT ![p] = a]
    PROVE  Enters(p, to) /\ ArgsStay(p)
BY DEF Free, Enters, ArgsStay, WaitInv, SlotInv, Inv, TypeOK

LEMMA AcquireKeptCalm ==
    ASSUME WaitInv, SlotInv', CalmInv, NEW p \in Task, NEW g \in Gate, NEW from, NEW retry,
           NEW to, NEW refused, AcquireLabels(g, from, retry, to), from \notin {"x_parent", "x_wake", "x_rel"},
           from \in Retries(g) \cup {"user"}, Keeps(from, to), Keeps(from, retry),
           Acquire(p, g, from, retry, to, refused), UNCHANGED arg
    PROVE  CalmInv'
<1>1. PICK l \in {to, retry} : Gentle(p, l, proc)  BY AcquireCalm DEF CalmInv
<1>2. pc[p] = from /\ p \in Pid  BY Constants DEF Acquire, At
<1>3. Enters(p, l) /\ ArgsStay(p)  BY <1>1, <1>2, EntersKept
<1> QED  BY <1>1, <1>2, <1>3, SwayStep

\* The operands of a call after a step that returns.
Returns(p, from, to) ==
    \/ UNCHANGED arg /\ Keeps(from, to)
    \/ from \notin AtExit /\ Free(to) /\ \E a : arg' = [arg EXCEPT ![p] = a]

LEMMA EntersReturn ==
    ASSUME WaitInv, CalmInv, NEW p \in Task, NEW to, Returns(p, pc[p], to)
    PROVE  Enters(p, to) /\ ArgsStay(p)
BY EntersKept, EntersFree DEF Returns

LEMMA ReleasePlainCalm ==
    ASSUME WaitInv, SlotInv', CalmInv, NEW p \in Task, NEW g \in Gate, NEW from, NEW to,
           NEW con \in Con, ReleaseLabels(g, from, to), from \notin Retrying, Returns(p, from, to),
           Release(p, g, proc, con, from, to)
    PROVE  CalmInv'
<1>1. Others(p, proc) /\ Tame(proc) /\ Sober(proc)
  BY EasedSelf, ProcTame DEF Others, WaitInv, SlotInv, CalmInv
<1>2. pc[p] = from /\ p \in Pid  BY Constants DEF Release, At
<1>3. Gentle(p, to, proc)  BY <1>1, ReleaseCalm
<1> QED  BY <1>2, <1>3, EntersReturn, SwayStep

LEMMA LocalPlainCalm ==
    ASSUME WaitInv, SlotInv', CalmInv, NEW p \in Task, NEW from, NEW to, to # "new",
           from \notin Retrying, Returns(p, from, to), Local(p, from, proc, to)
    PROVE  CalmInv'
<1>1. Others(p, proc) /\ proc \in Table /\ Sober(proc)
  BY EasedSelf DEF Others, WaitInv, SlotInv, Inv, TypeOK, Table, CalmInv
<1>2. pc[p] = from /\ p \in Pid  BY Constants DEF Local, At
<1>3. Gentle(p, to, proc)  BY <1>1, LocalCalm
<1> QED  BY <1>2, <1>3, EntersReturn, SwayStep

LEMMA BlockPlainCalm ==
    ASSUME WaitInv, SlotInv', CalmInv, NEW p \in Task, NEW from, NEW to, LocalLabels(from, to),
           At(p, from), from \notin Retrying \cup {"x_parent", "x_wake", "x_rel"}, Returns(p, from, to),
           NEW r \in {"RP", "CONSOLE", "TIMER"}, UNCHANGED gate_owner,
           Dispatch(SetWait(proc, p, r, 0), wait_line, gate_owner, console_owner, Goto(p, to))
    PROVE  CalmInv'
<1>1. Gentle(p, to, proc)  BY BlockCalm DEF CalmInv
<1>2. pc[p] = from /\ p \in Pid  BY Constants DEF At
<1> QED  BY <1>1, <1>2, EntersReturn, SwayStep

LEMMA RequestCalm ==
    ASSUME WaitInv, SlotInv', CalmInv, NEW p \in Task, NEW from, NEW collect,
           LocalLabels(from, collect), from \notin Retrying \cup {"x_parent", "x_wake", "x_rel"},
           Keeps(from, collect), RpRequest(p, from, collect)
    PROVE  CalmInv'
BY BlockPlainCalm DEF RpRequest, Returns

LEMMA KeepsFacts ==
    /\ \A to \in {"user", "none", "f_acq", "f_req", "f_col", "c_acq", "c_chk", "c_blk", "x_acq", "x_life",
                  "x_facq", "x_close", "x_col", "x_zomb", "x_rel", "w_acq", "w_chk", "w_con", "s_ret",
                  "p_acq", "p_alloc", "p_facq", "p_fclr", "p_con", "p_rel", "p_ret", "p_back", "p_err"} :
          Free(to)
    /\ \A from, to : from \notin {"x_parent", "x_wake"} /\ Free(to) => Keeps(from, to)
    /\ \A from, to \in Term : Keeps(from, to)
    /\ \A from, to \in Sending : Keeps(from, to)
    /\ \A from, to \in Flagged : Keeps(from, to)
BY DEF Keeps, Free, Term, Sending, Flagged, AtExit

\* The labels from which a gate is asked for, and others.
LEMMA AskFacts ==
    /\ \A l \in {"user", "f_acq", "c_acq", "x_facq", "t_facq", "p_facq", "p_gacq"} :
          l \in Retries(FileIO) \cup {"user"}
    /\ \A l \in {"user", "x_acq", "w_acq", "s_acq", "p_acq"} : l \in Retries(Proc) \cup {"user"}
    /\ \A l \in {"user", "f_req", "f_col", "c_chk", "c_blk", "x_life", "x_close", "x_col", "x_zomb",
                 "x_parent", "x_wake", "x_rel", "t_close", "t_col", "t_empty", "w_chk", "w_wait", "w_con", "s_chk",
                 "s_set", "s_ret", "p_alloc", "p_fclr", "p_clone", "p_col", "p_pub", "p_con", "p_rel",
                 "p_ret", "p_back", "p_err"} : l \notin Retrying
BY Constants DEF Retries, Retrying

LEMMA PlainCalm ==
    ASSUME WaitInv, SlotInv', CalmInv, NEW p \in Task, SysYield(p) \/ SysSleep(p)
    PROVE  CalmInv'
<1>1. At(p, "user") /\ active_pid = p /\ pc[p] = "user" /\ UNCHANGED <<gate_owner, arg>> /\ p \in Pid
  BY Constants DEF SysYield, SysSleep, At
<1>2. Goto(p, "user") = pc  BY <1>1 DEF Goto, WaitInv, SlotInv, Inv, TypeOK
<1>3. Returns(p, "user", "user")  BY <1>1, KeepsFacts DEF Returns
<1>4. CASE SysYield(p)
  <2>1. Dispatch(Demote(proc, p), wait_line, gate_owner, console_owner, Goto(p, "user"))
    BY <1>2, <1>4 DEF SysYield
  <2>2. Gentle(p, "user", proc)  BY <1>1, <2>1, YieldCalm, AskFacts DEF Label, CalmInv
  <2> QED  BY <1>1, <1>3, <2>2, EntersReturn, SwayStep
<1>5. CASE SysSleep(p)
  <2>1. Dispatch(SetWait(proc, p, "TIMER", 0), wait_line, gate_owner, console_owner, Goto(p, "user"))
    BY <1>2, <1>5 DEF SysSleep
  <2> QED  BY <1>1, <1>3, <2>1, BlockPlainCalm, LocalLabelFacts, AskFacts
<1> QED  BY <1>4, <1>5

LEMMA FileCalm ==
    ASSUME WaitInv, SlotInv', CalmInv, NEW p \in Task, FileCall(p)
    PROVE  CalmInv'
<1>0. console_owner \in Con  BY DEF WaitInv, SlotInv, Inv, TypeOK, Con
<1>1. CASE SysFile(p)
  BY <1>1, AcquireKeptCalm, AcquireLabelFacts, KeepsFacts, AskFacts, Constants DEF SysFile
<1>2. CASE FileLock(p)
  BY <1>2, AcquireKeptCalm, AcquireLabelFacts, KeepsFacts, AskFacts, Constants DEF FileLock
<1>3. CASE FileFails(p)
  BY <1>0, <1>3, ReleasePlainCalm, ReleaseLabelFacts, KeepsFacts, AskFacts, Constants
     DEF FileFails, Returns
<1>4. CASE FileExec(p)
  BY <1>4, RequestCalm, LocalLabelFacts, KeepsFacts, AskFacts DEF FileExec
<1>5. CASE FileResult(p)
  BY <1>0, <1>5, ReleasePlainCalm, ReleaseLabelFacts, KeepsFacts, AskFacts, Constants
     DEF FileResult, Returns
<1> QED  BY <1>1, <1>2, <1>3, <1>4, <1>5 DEF FileCall

LEMMA ConsoleCalm ==
    ASSUME WaitInv, SlotInv', CalmInv, NEW p \in Task, ConsoleCall(p)
    PROVE  CalmInv'
<1>0. Inv /\ Tame(proc) /\ proc \in Table /\ console_owner \in Con /\ Sober(proc) /\ p \in Pid
  BY ProcTame, Constants DEF WaitInv, SlotInv, Inv, TypeOK, Con, Table, CalmInv
<1>1. CASE SysConsole(p)
  BY <1>1, AcquireKeptCalm, AcquireLabelFacts, KeepsFacts, AskFacts, Constants DEF SysConsole
<1>2. CASE ConsoleLock(p)
  BY <1>2, AcquireKeptCalm, AcquireLabelFacts, KeepsFacts, AskFacts, Constants DEF ConsoleLock
<1>3. CASE ConsoleRead(p)
  <2> DEFINE quiet == [proc EXCEPT ![p].pending = NoSignal]
  <2>1. PICK T \in {proc, quiet}, con \in Con, to \in {"user", "c_blk"} :
           Release(p, FileIO, T, con, "c_chk", to)
    BY <1>0, <1>3 DEF ConsoleRead, Inv, TypeOK, Con
  <2>2. Tame(quiet) /\ \A q \in Task : Eased(proc[q], quiet[q])  BY <1>0, PendingEased
  <2>3. \A q \in Task : Sways(proc[q], quiet[q])  BY <1>0, SwaysPending
  <2> HIDE DEF quiet
  <2>4. Tame(T) /\ Others(p, T) /\ \A q \in Task : Sways(proc[q], T[q])
    BY <1>0, <2>1, <2>2, <2>3, EasedSelf, SwaysSelf DEF Others
  <2>5. Sober(T)  BY <1>0, <2>4, SoberFrom
  <2>6. ReleaseLabels(FileIO, "c_chk", to)  BY <2>1, ReleaseLabelFacts
  <2>7. Gentle(p, to, T)  BY <2>1, <2>4, <2>5, <2>6, ReleaseCalm, AskFacts, Constants
  <2>8. Gentle(p, to, proc)  BY <2>4, <2>7, CalmFrom
  <2>9. pc[p] = "c_chk" /\ UNCHANGED arg  BY <1>3, <2>1 DEF ConsoleRead, Release, At
  <2>10. Returns(p, "c_chk", to)  BY <2>1, <2>9, KeepsFacts DEF Returns
  <2> QED  BY <1>0, <2>8, <2>9, <2>10, EntersReturn, SwayStep
<1>4. CASE ConsoleBlock(p)
  <2>1. Returns(p, "c_blk", "c_acq")  BY <1>4, KeepsFacts DEF Returns, ConsoleBlock
  <2> QED  BY <1>4, <2>1, BlockPlainCalm, LocalLabelFacts, AskFacts DEF ConsoleBlock
<1> QED  BY <1>1, <1>2, <1>3, <1>4 DEF ConsoleCall

LEMMA CloseCalm ==
    ASSUME WaitInv, SlotInv', CalmInv, NEW p \in Task, NEW t \in Task, NEW from, NEW collect, NEW to,
           LocalLabels(from, collect), LocalLabels(collect, from), ReleaseLabels(FileIO, from, to),
           {from, collect} \cap (Retrying \cup {"x_parent", "x_wake", "x_rel"}) = {},
           Keeps(from, collect), Keeps(collect, from), Keeps(from, to),
           \/ CloseFile(p, t, from, collect)
           \/ FileClosed(p, t, collect, from)
           \/ CloseRest(p, t, from, to)
    PROVE  CalmInv'
<1>0. console_owner \in Con  BY DEF WaitInv, SlotInv, Inv, TypeOK, Con
<1>1. CASE CloseFile(p, t, from, collect)  BY <1>1, RequestCalm DEF CloseFile
<1>2. CASE FileClosed(p, t, collect, from)
  BY <1>2, LocalPlainCalm DEF FileClosed, LocalLabels, Returns
<1>3. CASE CloseRest(p, t, from, to)
  BY <1>0, <1>3, ReleasePlainCalm, Constants DEF CloseRest, Returns
<1> QED  BY <1>1, <1>2, <1>3

LEMMA ExitCalm ==
    ASSUME WaitInv, SlotInv', CalmInv, NEW p \in Task, ExitCall(p)
    PROVE  CalmInv'
<1>0. /\ Inv /\ p \in Pid /\ proc \in Table /\ proc[p] \in Row /\ console_owner \in Con /\ Sober(proc)
      /\ UNCHANGED arg
  BY Constants DEF WaitInv, SlotInv, Inv, TypeOK, Table, Con, CalmInv, ExitCall, SysExit, ExitLock,
     ExitLife, ExitFileLock, ExitCloseFile, ExitFileClosed, ExitClose, ExitZombie, ExitParent,
     ExitWakeParent, ExitUnlock, CloseFile, FileClosed, CloseRest, RpRequest
<1>a. ArgsStay(p)  BY <1>0 DEF ArgsStay
<1>1. CASE SysExit(p)
  BY <1>1, AcquireKeptCalm, AcquireLabelFacts, KeepsFacts, AskFacts, Constants DEF SysExit
<1>2. CASE ExitLock(p)
  BY <1>2, AcquireKeptCalm, AcquireLabelFacts, KeepsFacts, AskFacts, Constants DEF ExitLock
<1>3. CASE ExitFileLock(p)
  BY <1>3, AcquireKeptCalm, AcquireLabelFacts, KeepsFacts, AskFacts, Constants DEF ExitFileLock
<1>4. CASE ExitLife(p)
  <2> DEFINE to == IF LiveParent(p) THEN "x_facq" ELSE "t_facq"
  <2>1. Local(p, "x_life", proc, to) /\ pc[p] = "x_life"  BY <1>4 DEF ExitLife, Local, At
  <2>2. Others(p, proc)  BY EasedSelf DEF Others
  <2>3. Gentle(p, to, proc)  BY <1>0, <2>1, <2>2, LocalCalm, AskFacts
  <2>4. Enters(p, to)  BY <2>1 DEF Enters, Sending, Flagged, Term, AtExit
  <2> HIDE DEF to
  <2> QED  BY <1>0, <1>a, <2>3, <2>4, SwayStep
<1>5. CASE ExitCloseFile(p) \/ ExitFileClosed(p) \/ ExitClose(p)
  <2>1. {"x_close", "x_col"} \cap (Retrying \cup {"x_parent", "x_wake", "x_rel"}) = {}  BY AskFacts
  <2>2. Keeps("x_close", "x_col") /\ Keeps("x_col", "x_close") /\ Keeps("x_close", "x_zomb")
    BY KeepsFacts
  <2> QED  BY <1>5, <2>1, <2>2, CloseCalm, LocalLabelFacts, ReleaseLabelFacts
           DEF ExitCloseFile, ExitFileClosed, ExitClose
<1>6. CASE ExitZombie(p)
  <2> DEFINE row == [Unwaited(proc[p], "ZOMBIE") EXCEPT !.pending = NoSignal]
             T == [proc EXCEPT ![p] = row]
  <2>1. row.state = "ZOMBIE" /\ row \in Row /\ row.parent = proc[p].parent /\ row.pending = NoSignal
    BY <1>0, UnwaitedRow DEF Row, State, NoSignal
  <2>2. Local(p, "x_zomb", T, "x_parent") /\ pc[p] = "x_zomb"  BY <1>6 DEF ExitZombie, Local, At
  <2> HIDE DEF row
  <2>3. T \in Table /\ T[p] = row /\ \A q \in Task \ {p} : T[q] = proc[q]
    BY <1>0, <2>1, Constants DEF Table
  <2> HIDE DEF T
  <2>4. Others(p, T)  BY <2>3, EasedSelf DEF Others
  <2>5. Sober(T)  BY <1>0, <2>1, <2>3 DEF Sober, SoberRow, Dead
  <2>6. Gentle(p, "x_parent", T)  BY <2>2, <2>3, <2>4, <2>5, LocalCalm, AskFacts
  <2>7. AwaitedAt(p, "x_parent", T)
    <3> SUFFICES ASSUME NEW q \in Task, BlockedOn(T, q, "PROC")
                 PROVE  LET c == T[q].object IN
                        /\ c \in Task /\ T[c].parent = q
                        /\ T[c].state \notin Dead \/ (IF c = p THEN "x_parent" ELSE pc[c]) \in AtExit
      BY DEF AwaitedAt
    <3>1. q # p /\ T[q] = proc[q] /\ BlockedOn(proc, q, "PROC")  BY <2>1, <2>3 DEF BlockedOn
    <3>2. LET c == proc[q].object IN
             c \in Task /\ proc[c].parent = q /\ (proc[c].state \notin Dead \/ pc[c] \in AtExit)
      BY <3>1 DEF CalmInv, Awaited
    <3> QED  BY <2>1, <2>3, <3>1, <3>2 DEF AtExit
  <2>8. Alone(p)  BY <1>0, <2>2, AloneHolder DEF HoldsProc
  <2> QED  BY <1>0, <1>a, <2>1, <2>3, <2>5, <2>6, <2>7, <2>8, AloneCalm DEF Term, Sending, Flagged
<1>7. CASE ExitParent(p)
  <2> DEFINE to == IF WaitsFor(proc[p].parent, p) THEN "x_wake" ELSE "x_rel"
  <2>1. Local(p, "x_parent", proc, to) /\ pc[p] = "x_parent"  BY <1>7 DEF ExitParent, Local, At
  <2>2. Others(p, proc)  BY EasedSelf DEF Others
  <2>3. Gentle(p, to, proc)  BY <1>0, <2>1, <2>2, LocalCalm, AskFacts
  <2>4. AwaitedAt(p, to, proc)
    BY <1>0 DEF AwaitedAt, CalmInv, Awaited, AtExit, WaitsFor
  <2>5. Alone(p)  BY <1>0, <2>1, AloneHolder DEF HoldsProc
  <2>6. to \notin {"w_wait"} \cup Term \cup Sending \cup Flagged  BY DEF Term, Sending, Flagged
  <2> HIDE DEF to
  <2> QED  BY <1>0, <1>a, <2>3, <2>4, <2>5, <2>6, AloneCalm
<1>8. CASE ExitWakeParent(p)
  <2> DEFINE q == proc[p].parent
             T == WakeUnchecked(proc, q)
  <2>1. Local(p, "x_wake", T, "x_rel") /\ pc[p] = "x_wake" /\ active_pid = p
    BY <1>8 DEF ExitWakeParent, Local, At
  <2>2. proc[p].state # "BLOCKED"  BY <2>1, CallerFree
  <2>3. /\ T \in Table /\ Others(p, T) /\ \A r \in Task : Sways(proc[r], T[r])
        /\ T[q].state = "READY"
    <3>1. /\ q \in Task /\ proc[q].state = "BLOCKED" /\ proc[q].reason = "PROC" /\ q # p
          /\ T = [proc EXCEPT ![q] = Unwaited(proc[q], "READY")] /\ T = Wake(proc, q)
      BY <2>1, <2>2
      DEF WakeUnchecked, Wake, WaitInv, SlotInv, Fates, WakeSure, Waited, WaitsFor, BlockedOn
    <3>2. Unwaited(proc[q], "READY") \in Row /\ Unwaited(proc[q], "READY").state = "READY"
      BY <1>0, <3>1, UnwaitedRow, Constants DEF Table, State
    <3> HIDE DEF T, q
    <3>3. \A r \in Task : Sways(proc[r], T[r])  BY <1>0, <3>1, SwaysWake, Constants
    <3>4. T \in Table /\ T[q].state = "READY" /\ \A r \in Task \ {q} : T[r] = proc[r]
      BY <1>0, <3>1, <3>2, Constants DEF Table
    <3> QED  BY <3>1, <3>3, <3>4, EasedSelf DEF Others, Eased
  <2> HIDE DEF T
  <2>4. Sober(T)  BY <1>0, <2>3, SoberFrom
  <2>5. Gentle(p, "x_rel", T)  BY <2>1, <2>3, <2>4, LocalCalm, AskFacts
  <2>6. AwaitedAt(p, "x_rel", T)
    <3> SUFFICES ASSUME NEW r \in Task, BlockedOn(T, r, "PROC")
                 PROVE  LET c == T[r].object IN
                        /\ c \in Task /\ T[c].parent = r
                        /\ T[c].state \notin Dead \/ (IF c = p THEN "x_rel" ELSE pc[c]) \in AtExit
      BY DEF AwaitedAt
    <3>1. BlockedOn(proc, r, "PROC") /\ T[r].object = proc[r].object
      BY <2>3 DEF Sways, BlockedOn
    <3> DEFINE c == proc[r].object
    <3>2. c \in Task /\ proc[c].parent = r /\ (proc[c].state \notin Dead \/ pc[c] \in AtExit)
      BY <3>1 DEF CalmInv, Awaited
    <3>3. c # p
      <4>1. c = p => q = r  BY <3>2
      <4> QED  BY <2>3, <4>1 DEF BlockedOn
    <3>4. T[c].parent = proc[c].parent /\ (proc[c].state \notin Dead => T[c].state \notin Dead)
      BY <2>3, <3>2 DEF Sways
    <3> QED  BY <3>1, <3>2, <3>3, <3>4
  <2>7. Alone(p)  BY <1>0, <2>1, AloneHolder DEF HoldsProc
  <2> QED  BY <1>0, <1>a, <2>4, <2>5, <2>6, <2>7, AloneCalm DEF Term, Sending, Flagged
<1>9. CASE ExitUnlock(p)
  <2> DEFINE own == [gate_owner EXCEPT ![Proc] = Nobody]
             W == ReleaseWake(proc, Proc)
             L == ReleaseLine(Proc)
             U == Demote(W, p)
  <2>1. /\ active_pid = p /\ pc[p] = "x_rel" /\ gate_owner[Proc] = p /\ gate_owner' = own
        /\ Dispatch(U, L, own, console_owner, Goto(p, "none"))
    BY <1>9 DEF ExitUnlock, ReleaseAndYield, At
  <2>2. Tame(proc)  BY <1>0, ProcTame
  <2>3. Tame(W) /\ W \in Table /\ L \in [Gate -> Line]
    BY <1>0, <2>2, ReleaseTame, Constants DEF Tame, Follows
  <2>4. \A q \in Task : Sways(proc[q], W[q])  BY <1>0, SwaysRelease, Constants
  <2>5. Others(p, proc)  BY EasedSelf DEF Others
  <2>6. NoStop /\ Retried => Ready(p, "none", W, L)
    BY <1>0, <2>1, <2>5, ReleaseReady, AskFacts, Constants
  <2> HIDE DEF W, L, own
  <2>7. Tame(U) /\ \A q \in Task : Sways(W[q], U[q]) /\ (W[q].state \in Active => U[q].state \in Active)
    BY <1>0, <2>3, DemoteTame, SwaysDemote, EasedDemote, EasedActive DEF Tame
  <2> HIDE DEF U
  <2>8. \A q \in Task : Sways(proc[q], U[q])  BY <2>4, <2>7, SwaysTrans
  <2>9. Sober(U)  BY <1>0, <2>8, SoberFrom
  <2>10. NoStop /\ Retried => Ready(p, "none", U, L)  BY <2>6, <2>7 DEF Ready
  <2>11. "none" \in Label \ {"new"} /\ Inv'  BY DEF Label, SlotInv
  <2>12. Gentle(p, "none", U)
    BY <1>0, <2>1, <2>3, <2>7, <2>9, <2>10, <2>11, PassCalm
  <2>13. Gentle(p, "none", proc)  BY <2>8, <2>12, CalmFrom
  <2>14. Returns(p, "x_rel", "none")  BY <1>0, KeepsFacts DEF Returns
  <2> QED  BY <1>0, <1>a, <2>1, <2>13, <2>14, EntersReturn, SwayStep
<1> QED  BY <1>1, <1>2, <1>3, <1>4, <1>5, <1>6, <1>7, <1>8, <1>9 DEF ExitCall

LEMMA TerminateCalm ==
    ASSUME WaitInv, SlotInv', CalmInv, NEW p \in Task, Terminate(p)
    PROVE  CalmInv'
<1>0. Inv /\ p \in Pid /\ tgt(p) \in Task /\ proc \in Table /\ Sober(proc)
  BY TargetType, Constants DEF WaitInv, SlotInv, Inv, TypeOK, Table, CalmInv
<1>1. CASE TermFileLock(p)
  <2>1. Keeps("t_facq", "t_close") /\ Keeps("t_facq", "t_facq")  BY KeepsFacts DEF Term
  <2> QED  BY <1>1, <2>1, AcquireKeptCalm, AcquireLabelFacts, AskFacts, Constants DEF TermFileLock
<1>2. CASE TermCloseFile(p) \/ TermFileClosed(p) \/ TermClose(p)
  <2>1. {"t_close", "t_col"} \cap (Retrying \cup {"x_parent", "x_wake", "x_rel"}) = {}  BY AskFacts
  <2>2. Keeps("t_close", "t_col") /\ Keeps("t_col", "t_close") /\ Keeps("t_close", "t_empty")
    BY KeepsFacts DEF Term
  <2> QED  BY <1>0, <1>2, <2>1, <2>2, CloseCalm, LocalLabelFacts, ReleaseLabelFacts
           DEF TermCloseFile, TermFileClosed, TermClose
<1>3. CASE TermEmpty(p)
  <2> DEFINE t == tgt(p)
             T == [proc EXCEPT ![t] = EmptyRow]
             to == IF t = p THEN "x_rel" ELSE "w_con"
  <2>1. Local(p, "t_empty", T, to) /\ UNCHANGED arg  BY <1>3 DEF TermEmpty
  <2>2. active_pid = p /\ pc[p] = "t_empty"  BY <2>1 DEF Local, At
  <2>3. /\ T \in Table /\ T[t].state = "EMPTY" /\ T[t].pending = NoSignal
        /\ \A q \in Task \ {t} : T[q] = proc[q]
    <3>1. EmptyRow.state = "EMPTY" /\ EmptyRow.pending = NoSignal  BY DEF EmptyRow
    <3> QED  BY <1>0, <3>1, EmptyRowType, Constants DEF Table
  <2> HIDE DEF T
  <2>4. t # p => proc[t].state = "ZOMBIE"
    BY <2>2 DEF WaitInv, SlotInv, Fates, Reaped, Term
  <2>5. Others(p, T)
    <3>1. SUFFICES ASSUME NEW q \in Task \ {p} PROVE Eased(proc[q], T[q])  BY DEF Others
    <3>2. CASE q = t  BY <2>3, <2>4, <3>2 DEF Eased, Dead
    <3>3. CASE q # t  BY <2>3, <3>3, EasedSelf
    <3> QED  BY <3>2, <3>3
  <2>6. Sober(T)  BY <1>0, <2>3 DEF Sober, SoberRow, Dead
  <2>7. Gentle(p, to, T)  BY <2>1, <2>3, <2>5, <2>6, LocalCalm, AskFacts
  <2>8. AwaitedAt(p, to, T)
    <3> SUFFICES ASSUME NEW q \in Task, BlockedOn(T, q, "PROC")
                 PROVE  LET c == T[q].object IN
                        /\ c \in Task /\ T[c].parent = q
                        /\ T[c].state \notin Dead \/ (IF c = p THEN to ELSE pc[c]) \in AtExit
      BY DEF AwaitedAt
    <3>1. q # t /\ T[q] = proc[q] /\ BlockedOn(proc, q, "PROC")  BY <1>0, <2>3 DEF BlockedOn
    <3> DEFINE c == proc[q].object
    <3>2. c \in Task /\ proc[c].parent = q /\ (proc[c].state \notin Dead \/ pc[c] \in AtExit)
      BY <3>1 DEF CalmInv, Awaited
    <3>3. c # t
      <4>1. CASE t = p
        <5>1. ~LiveParent(p)  BY <2>2, <4>1 DEF CalmInv, OrphanEnds, Term
        <5> QED  BY <3>1, <3>2, <4>1, <5>1 DEF LiveParent, BlockedOn, Dead
      <4>2. CASE t # p
        <5>1. c = t => pc[t] \in AtExit  BY <2>4, <3>2, <4>2 DEF Dead
        <5> QED  BY <1>0, <2>2, <4>2, <5>1, Mutex DEF HoldsProc, AtExit
      <4> QED  BY <4>1, <4>2
    <3>4. pc[c] \in AtExit => c # p  BY <2>2 DEF AtExit
    <3> QED  BY <2>3, <3>1, <3>2, <3>3, <3>4
  <2>9. Alone(p) /\ ArgsStay(p)  BY <1>0, <2>1, <2>2, AloneHolder DEF HoldsProc, ArgsStay
  <2>10. to \notin {"w_wait"} \cup AtExit \cup Term \cup Sending \cup Flagged
    BY DEF Term, Sending, Flagged, AtExit
  <2> HIDE DEF to
  <2> QED  BY <1>0, <2>6, <2>7, <2>8, <2>9, <2>10, AloneCalm
<1> QED  BY <1>1, <1>2, <1>3 DEF Terminate

LEMMA WaitBlockCalm ==
    ASSUME WaitInv, SlotInv', CalmInv, NEW p \in Task, WaitBlock(p)
    PROVE  CalmInv'
<1>0. /\ Inv /\ Inv' /\ p \in Pid /\ tgt(p) \in Task /\ proc \in Table /\ console_owner \in Con
      /\ Tame(proc) /\ wait_line \in [Gate -> Line] /\ Sober(proc)
  BY TargetType, ProcTame, Constants DEF WaitInv, SlotInv, Inv, TypeOK, Table, Con, CalmInv
<1> DEFINE own == [gate_owner EXCEPT ![Proc] = Nobody]
           S == SetWait(proc, p, "PROC", tgt(p))
           T == ReleaseWake(S, Proc)
           L == ReleaseLine(Proc)
<1>1. /\ active_pid = p /\ pc[p] = "w_wait" /\ gate_owner' = own
      /\ Dispatch(T, L, own, console_owner, Goto(p, "w_acq"))
      /\ UNCHANGED arg
  BY DEF WaitBlock, At
<1>2. "PROC" \in Reason /\ "w_acq" \in Label \ {"new"} /\ tgt(p) \in Pid
  BY <1>0, Constants DEF Reason, Label
<1>3. Tame(S) /\ S \in Table
  <2>1. Tame(S)  BY <1>0, <1>2, SetWaitTame DEF Tame
  <2> QED  BY <2>1 DEF Tame, Follows
<1>4. /\ S[p].state = "BLOCKED" /\ S[p].reason = "PROC" /\ S[p].object = tgt(p)
      /\ S[p].parent = proc[p].parent /\ S[p].pending = proc[p].pending /\ S[p].catch = proc[p].catch
      /\ \A q \in Task \ {p} : S[q] = proc[q]
  BY <1>0, Constants DEF SetWait, Table, Row
<1> HIDE DEF S
<1>5. proc[p].state = "RUNNING"  BY <1>1, CallerFree
<1>6. Others(p, S)  BY <1>4, EasedSelf DEF Others
<1>7. Sober(S)  BY <1>0, <1>4, <1>5 DEF Sober, SoberRow, Dead
<1>8. NoStop /\ Retried => Ready(p, "w_acq", T, L)
  BY <1>1, <1>3, <1>6, ReleaseReady, AskFacts, Constants
<1>9. \A q \in Task : Sways(S[q], T[q])  BY <1>3, SwaysRelease, Constants
<1>10. Tame(T) /\ L \in [Gate -> Line]  BY <1>0, <1>3, ReleaseTame, Constants
<1> HIDE DEF T, L, own
<1>11. Sober(T)  BY <1>7, <1>9, SoberFrom
<1>12. Gentle(p, "w_acq", T)
  BY <1>0, <1>1, <1>2, <1>8, <1>10, <1>11, PassCalm
<1>13. Gentle(p, "w_acq", S)  BY <1>9, <1>12, CalmFrom
<1>14. AwaitedAt(p, "w_acq", S)
  <2> SUFFICES ASSUME NEW q \in Task, BlockedOn(S, q, "PROC")
               PROVE  LET c == S[q].object IN
                      /\ c \in Task /\ S[c].parent = q
                      /\ S[c].state \notin Dead \/ (IF c = p THEN "w_acq" ELSE pc[c]) \in AtExit
    BY DEF AwaitedAt
  <2>0. \A c \in Task : /\ S[c].parent = proc[c].parent
                        /\ proc[c].state \notin Dead => S[c].state \notin Dead
    BY <1>4 DEF Dead
  <2>1. CASE q = p
    <3>1. proc[tgt(p)].parent = p /\ proc[tgt(p)].state \notin Dead
      BY <1>1 DEF CalmInv, ChildLives
    <3> QED  BY <1>0, <1>4, <2>0, <2>1, <3>1
  <2>2. CASE q # p
    <3>1. S[q] = proc[q] /\ BlockedOn(proc, q, "PROC")  BY <1>4, <2>2 DEF BlockedOn
    <3> DEFINE c == proc[q].object
    <3>2. c \in Task /\ proc[c].parent = q /\ (proc[c].state \notin Dead \/ pc[c] \in AtExit)
      BY <3>1 DEF CalmInv, Awaited
    <3>3. pc[c] \in AtExit => c # p  BY <1>1 DEF AtExit
    <3> QED  BY <2>0, <3>1, <3>2, <3>3
  <2> QED  BY <2>1, <2>2
<1>15. Alone(p) /\ ArgsStay(p)  BY <1>0, <1>1, AloneHolder DEF HoldsProc, ArgsStay
<1> QED  BY <1>0, <1>7, <1>13, <1>14, <1>15, AloneCalm DEF Term, Sending, Flagged

LEMMA WaitpidCalm ==
    ASSUME WaitInv, SlotInv', CalmInv, NEW p \in Task, WaitpidCall(p)
    PROVE  CalmInv'
<1>0. Inv /\ p \in Pid /\ tgt(p) \in Task /\ proc \in Table /\ console_owner \in Con /\ Sober(proc)
  BY TargetType, Constants DEF WaitInv, SlotInv, Inv, TypeOK, Table, Con, CalmInv
<1>1. CASE SysWaitpid(p)
  <2>1. PICK a : /\ Acquire(p, Proc, "user", "w_acq", "w_chk", "user")
                 /\ arg' = [arg EXCEPT ![p] = a]
    BY <1>1 DEF SysWaitpid
  <2>2. PICK l \in {"w_chk", "w_acq"} : Gentle(p, l, proc)
    BY <1>0, <2>1, AcquireCalm, AcquireLabelFacts, AskFacts, Constants
  <2>3. pc[p] = "user"  BY <2>1 DEF Acquire, At
  <2>4. Returns(p, "user", l)  BY <2>1, <2>2, KeepsFacts DEF Returns, AtExit
  <2> QED  BY <1>0, <2>2, <2>3, <2>4, EntersReturn, SwayStep
<1>2. CASE WaitLock(p)
  BY <1>2, AcquireKeptCalm, AcquireLabelFacts, KeepsFacts, AskFacts, Constants DEF WaitLock
<1>3. CASE WaitCheck(p)
  <2>1. CASE /\ Release(p, Proc, proc, console_owner, "w_chk", "user")
             /\ arg' = [arg EXCEPT ![p] = NoArg(p)]
    BY <1>0, <2>1, ReleasePlainCalm, ReleaseLabelFacts, KeepsFacts, AskFacts, Constants DEF Returns, AtExit
  <2>2. CASE /\ ~BadChild(p) /\ UNCHANGED arg
             /\ Local(p, "w_chk", proc, IF proc[tgt(p)].state = "ZOMBIE" THEN "t_facq" ELSE "w_wait")
    <3> DEFINE to == IF proc[tgt(p)].state = "ZOMBIE" THEN "t_facq" ELSE "w_wait"
    <3>1. Local(p, "w_chk", proc, to) /\ pc[p] = "w_chk" /\ active_pid = p  BY <2>2 DEF Local, At
    <3>2. Others(p, proc)  BY EasedSelf DEF Others
    <3>3. Gentle(p, to, proc)  BY <1>0, <3>1, <3>2, LocalCalm, AskFacts
    <3>4. proc[p].state = "RUNNING"  BY <3>1, CallerFree
    <3>5. Enters(p, to)
      BY <2>2, <3>1, <3>4 DEF Enters, BadChild, Dead, tgt, Term, Sending, Flagged, AtExit
    <3>6. ArgsStay(p)  BY <2>2 DEF ArgsStay
    <3> HIDE DEF to
    <3> QED  BY <1>0, <3>3, <3>5, <3>6, SwayStep
  <2> QED  BY <1>3, <2>1, <2>2 DEF WaitCheck
<1>4. CASE WaitBlock(p)  BY <1>4, WaitBlockCalm
<1>5. CASE WaitReaped(p)
  <2>1. PICK con \in Con : Release(p, Proc, proc, con, "w_con", "user")
    BY <1>0, <1>5 DEF WaitReaped, Con
  <2>2. Returns(p, "w_con", "user")  BY <1>5, KeepsFacts DEF WaitReaped, Returns, AtExit
  <2> QED  BY <2>1, <2>2, ReleasePlainCalm, ReleaseLabelFacts, AskFacts, Constants
<1> QED  BY <1>1, <1>2, <1>3, <1>4, <1>5 DEF WaitpidCall

LEMMA SignalCalm ==
    ASSUME WaitInv, SlotInv', CalmInv, NEW p \in Task, SignalCall(p)
    PROVE  CalmInv'
<1>0. /\ Inv /\ p \in Pid /\ tgt(p) \in Task /\ console_owner \in Con /\ Tame(proc)
      /\ NoKill /\ Mild(pc[p], arg[p]) /\ arg \in [Task -> Arg] /\ proc \in Table /\ Sober(proc)
  BY TargetType, ProcTame, Constants DEF WaitInv, SlotInv, Inv, TypeOK, Con, NoKillCalls, Table, CalmInv
<1>1. CASE SysSignal(p)
  <2>1. PICK t \in Task, s \in SentSignals :
           /\ "signal" \in Syscalls /\ Acquire(p, Proc, "user", "s_acq", "s_chk", "user")
           /\ arg' = [arg EXCEPT ![p] = [pid |-> t, sig |-> s]]
    BY <1>1 DEF SysSignal
  <2>2. PICK l \in {"s_chk", "s_acq"} : Gentle(p, l, proc)
    BY <1>0, <2>1, AcquireCalm, AcquireLabelFacts, AskFacts, Constants
  <2>3. arg'[p].sig = s /\ ArgsStay(p) /\ pc[p] = "user"  BY <1>0, <2>1 DEF ArgsStay, Acquire, At
  <2>4. s \in Sendable  BY <2>1 DEF Sendable
  <2>5. Enters(p, l)  BY <2>2, <2>3, <2>4 DEF Enters, Term, Flagged, AtExit
  <2> QED  BY <1>0, <2>2, <2>3, <2>5, SwayStep
<1>2. CASE SignalLock(p)
  <2>1. Keeps("s_acq", "s_acq") /\ Keeps("s_acq", "s_chk")  BY KeepsFacts DEF Sending
  <2> QED  BY <1>2, <2>1, AcquireKeptCalm, AcquireLabelFacts, AskFacts, Constants DEF SignalLock
<1>3. CASE SignalCheck(p)
  <2>1. CASE /\ Release(p, Proc, proc, console_owner, "s_chk", "user")
             /\ arg' = [arg EXCEPT ![p] = NoArg(p)]
    BY <1>0, <2>1, ReleasePlainCalm, ReleaseLabelFacts, KeepsFacts, AskFacts, Constants DEF Returns, AtExit
  <2>2. CASE /\ Local(p, "s_chk", proc, IF arg[p].sig = "KILL" THEN "k_clear" ELSE "s_set")
             /\ UNCHANGED arg
    <3>1. arg[p].sig # "KILL"  BY <1>0, <2>2 DEF Mild, Local, At
    <3>2. Returns(p, "s_chk", "s_set")  BY <2>2, KeepsFacts DEF Returns, Sending
    <3> QED  BY <2>2, <3>1, <3>2, LocalPlainCalm, AskFacts
  <2> QED  BY <1>3, <2>1, <2>2 DEF SignalCheck
<1>4. CASE SignalSet(p)
  <2> DEFINE T == [proc EXCEPT ![tgt(p)].pending = arg[p].sig]
  <2>1. Release(p, Proc, T, console_owner, "s_set", "s_ret") /\ UNCHANGED arg /\ pc[p] = "s_set"
    BY <1>4 DEF SignalSet, Release, At
  <2>2. arg[p].sig \in Sendable /\ arg[p].sig \in Signal \cup {NoSignal}
    BY <1>0, <2>1, TargetType DEF CalmInv, SentOnly, Sending
  <2>3. Tame(T) /\ \A q \in Task : Eased(proc[q], T[q])  BY <1>0, <2>2, PendingEased
  <2>4. \A q \in Task : Sways(proc[q], T[q])  BY <1>0, <2>2, SwaysPending
  <2> HIDE DEF T
  <2>5. Others(p, T) /\ Sober(T)  BY <1>0, <2>3, <2>4, SoberFrom DEF Others
  <2>6. Gentle(p, "s_ret", T)
    BY <1>0, <2>1, <2>3, <2>5, ReleaseCalm, ReleaseLabelFacts, AskFacts, Constants
  <2>7. Gentle(p, "s_ret", proc)  BY <2>4, <2>6, CalmFrom
  <2>8. Returns(p, "s_set", "s_ret")  BY <2>1, KeepsFacts DEF Returns
  <2> QED  BY <1>0, <2>1, <2>7, <2>8, EntersReturn, SwayStep
<1>5. CASE KillClear(p) \/ KillCancel(p) \/ KillZombie(p) \/ KillParent(p) \/ KillWake(p)
  <2>1. pc[p] \in Kill
    BY <1>5 DEF KillClear, KillCancel, KillZombie, KillParent, KillWake, Local, Release, At, Kill
  <2> QED  BY <1>0, <2>1 DEF Mild
<1>6. CASE SignalReturn(p)
  <2>1. /\ active_pid = p /\ pc[p] = "s_ret" /\ arg' = [arg EXCEPT ![p] = NoArg(p)]
        /\ UNCHANGED gate_owner
    BY <1>6 DEF SignalReturn, At
  <2>2. Returns(p, "s_ret", "user")  BY <2>1, KeepsFacts DEF Returns, AtExit
  <2>3. CASE Dispatch(Demote(proc, p), wait_line, gate_owner, console_owner, Goto(p, "user"))
    <3>1. Gentle(p, "user", proc)  BY <1>0, <2>1, <2>3, YieldCalm, AskFacts DEF Label
    <3> QED  BY <1>0, <2>1, <2>2, <3>1, EntersReturn, SwayStep
  <2>4. CASE Continue(p, proc, wait_line, console_owner, "user")
    <3>1. Local(p, "s_ret", proc, "user")  BY <2>1, <2>4 DEF Local, At
    <3> QED  BY <2>2, <3>1, LocalPlainCalm, AskFacts
  <2> QED  BY <1>6, <2>3, <2>4 DEF SignalReturn
<1> QED  BY <1>1, <1>2, <1>3, <1>4, <1>5, <1>6 DEF SignalCall

\* An EMPTY row is nobody's child: replacing it leaves every waiter alone.
LEMMA BuildCalm ==
    ASSUME WaitInv, CalmInv, NEW p \in Task, NEW t \in Task \ {p}, pc[p] \in HoldsProc,
           pc[p] \notin AtExit, proc[t].state = "EMPTY", NEW row \in Row, row.state = "EMPTY",
           row.pending \in Sendable \cup {NoSignal}, NEW to
    PROVE  LET T == [proc EXCEPT ![t] = row] IN AwaitedAt(p, to, T) /\ Sober(T)
<1> DEFINE T == [proc EXCEPT ![t] = row]
<1>1. Inv /\ proc \in Table /\ Sober(proc)
  BY DEF WaitInv, SlotInv, Inv, TypeOK, Table, CalmInv
<1>2. T[t] = row /\ \A q \in Task \ {t} : T[q] = proc[q]  BY <1>1, Constants DEF Table
<1> HIDE DEF T
<1>3. Sober(T)  BY <1>1, <1>2 DEF Sober, SoberRow, Dead
<1>4. AwaitedAt(p, to, T)
  <2> SUFFICES ASSUME NEW q \in Task, BlockedOn(T, q, "PROC")
               PROVE  LET c == T[q].object IN
                      /\ c \in Task /\ T[c].parent = q
                      /\ T[c].state \notin Dead \/ (IF c = p THEN to ELSE pc[c]) \in AtExit
    BY DEF AwaitedAt
  <2>1. q # t /\ T[q] = proc[q] /\ BlockedOn(proc, q, "PROC")  BY <1>2 DEF BlockedOn
  <2> DEFINE c == proc[q].object
  <2>2. c \in Task /\ proc[c].parent = q /\ (proc[c].state \notin Dead \/ pc[c] \in AtExit)
    BY <2>1 DEF CalmInv, Awaited
  <2>3. c # t
    <3>1. c = t => pc[t] \in AtExit  BY <2>2 DEF Dead
    <3> QED  BY <1>1, <3>1, Mutex DEF HoldsProc, AtExit
  <2> QED  BY <1>2, <2>1, <2>2, <2>3
<1> QED  BY <1>3, <1>4 DEF T

LEMMA SpawnPublishCalm ==
    ASSUME WaitInv, CalmInv, NEW p \in Task, SpawnPublish(p)
    PROVE  CalmInv'
<1> DEFINE t == tgt(p)
<1>1. /\ active_pid = p /\ pc[p] = "p_pub" /\ proc' = [proc EXCEPT ![t].state = "NEW"]
      /\ pc' = [pc EXCEPT ![p] = "p_con", ![t] = "new"]
      /\ arg' = [arg EXCEPT ![t] = NoArg(t)] /\ UNCHANGED <<gate_owner, wait_line>>
  BY DEF SpawnPublish, At
<1>2. Inv /\ t \in Task /\ proc[t].state = "EMPTY" /\ t # p /\ Sober(proc)
  BY <1>1, TargetType DEF WaitInv, SlotInv, Inv, Slots, Built, SpawnTarget, Filling, CalmInv
<1>3. /\ proc'[t].state = "NEW" /\ proc'[t].pending = proc[t].pending /\ proc'[t].catch = proc[t].catch
      /\ \A q \in Task \ {t} : proc'[q] = proc[q]
  BY <1>1, <1>2, Constants DEF Inv, TypeOK, Row
<1>4. /\ pc'[p] = "p_con" /\ pc'[t] = "new" /\ \A q \in Task \ {p, t} : pc'[q] = pc[q]
      /\ \A q \in Task \ {t} : arg'[q] = arg[q]
  BY <1>1, <1>2 DEF Inv, TypeOK
<1>5. "INT" \in Sendable => proc[t].catch  BY <1>1 DEF CalmInv, ChildCatches, Flagged
<1>6. \A q \in Task \ {p} : pc[q] \notin HoldsProc
  BY <1>1, <1>2, AloneHolder DEF HoldsProc, Alone
<1> HIDE DEF t
<1>7. \A q \in Task : /\ pc'[q] \notin {"w_wait"} \cup AtExit \cup Term \cup Flagged
                      /\ pc'[q] \in Sending => q # t /\ pc'[q] = pc[q]
  BY <1>4, <1>6 DEF HoldsProc, Term, Flagged, Sending, AtExit
<1>8. Sober(proc')  BY <1>2, <1>3, <1>5 DEF Sober, SoberRow, Dead
<1>9. Awaited'
  <2> SUFFICES ASSUME NEW q \in Task, proc'[q].state = "BLOCKED", proc'[q].reason = "PROC"
               PROVE  LET c == proc'[q].object IN
                      c \in Task /\ proc'[c].parent = q /\ (proc'[c].state \notin Dead \/ pc'[c] \in AtExit)
    BY DEF Awaited, BlockedOn
  <2>1. q # t /\ proc'[q] = proc[q] /\ BlockedOn(proc, q, "PROC")  BY <1>3 DEF BlockedOn
  <2> DEFINE c == proc[q].object
  <2>2. c \in Task /\ proc[c].parent = q /\ (proc[c].state \notin Dead \/ pc[c] \in AtExit)
    BY <2>1 DEF CalmInv, Awaited
  <2>3. pc[c] \notin AtExit  BY <1>1, <1>6, <2>2 DEF HoldsProc, AtExit
  <2>4. c # t  BY <1>2, <2>2, <2>3 DEF Dead
  <2> QED  BY <1>3, <2>1, <2>2, <2>3, <2>4
<1>10. ChildCatches' /\ ChildLives' /\ OrphanEnds'
  BY <1>7 DEF ChildCatches, ChildLives, OrphanEnds
<1>11. SentOnly'
  <2> SUFFICES ASSUME NEW q \in Task, pc'[q] \in Sending PROVE arg'[q].sig \in Sendable
    BY DEF SentOnly, Sendable
  <2> QED  BY <1>4, <1>7 DEF CalmInv, SentOnly
<1>12. ASSUME Retried PROVE Retried'
  <2> SUFFICES ASSUME NEW g \in Gate, gate_owner'[g] = Nobody, Waiters(wait_line'[g]) # {}
               PROVE  \E q \in Task : pc'[q] \in Retries(g) /\ proc'[q].state \in Active
    BY DEF Retried
  <2>1. PICK q \in Task : pc[q] \in Retries(g) /\ proc[q].state \in Active
    BY <1>1, <1>12 DEF Retried
  <2>2. q # t  BY <1>2, <2>1 DEF Active
  <2>3. q # p  BY <1>1, <2>1 DEF Retries
  <2> QED  BY <1>3, <1>4, <2>1, <2>2, <2>3
<1>13. NoDefaultInt' /\ (NoStop' <=> NoStop) /\ (NoStop => Retried')
  BY <1>12 DEF CalmInv, NoDefaultInt, NoStop, Sendable
<1> QED
  BY <1>8, <1>9, <1>10, <1>11, <1>13 DEF CalmInv, Sober, SoberRow, Sendable

LEMMA SpawnAllocCalm ==
    ASSUME WaitInv, SlotInv', CalmInv, NEW p \in Task, SpawnAlloc(p)
    PROVE  CalmInv'
<1>1. CASE Local(p, "p_alloc", proc, "p_err") /\ UNCHANGED arg
  BY <1>1, LocalPlainCalm, KeepsFacts, AskFacts DEF Returns
<1>2. CASE \E t \in Task : /\ FreeSlot(t) /\ arg' = [arg EXCEPT ![p].pid = t]
                           /\ Local(p, "p_alloc", [proc EXCEPT ![t] = [EmptyRow EXCEPT !.parent = p]], "p_facq")
  <2> DEFINE row == [EmptyRow EXCEPT !.parent = p]
  <2>1. PICK t \in Task : /\ FreeSlot(t) /\ arg' = [arg EXCEPT ![p].pid = t]
                          /\ Local(p, "p_alloc", [proc EXCEPT ![t] = row], "p_facq")
    BY <1>2
  <2>2. row \in Row /\ row.state = "EMPTY" /\ row.pending = NoSignal
    BY Constants DEF EmptyRow, Row, State, Reason, NoSignal, Nobody
  <2> HIDE DEF row
  <2>3. active_pid = p /\ pc[p] = "p_alloc" /\ p \in Pid  BY <2>1, Constants DEF Local, At
  <2>4. proc[t].state = "EMPTY" /\ t # p  BY <2>1, <2>3, CallerFree DEF FreeSlot
  <2> DEFINE T == [proc EXCEPT ![t] = row]
  <2>5. T \in Table /\ Others(p, T)  BY <2>2, <2>3, <2>4, BuildTable
  <2>6. AwaitedAt(p, "p_facq", T) /\ Sober(T)  BY <2>2, <2>3, <2>4, BuildCalm DEF HoldsProc, AtExit
  <2>7. Local(p, "p_alloc", T, "p_facq")  BY <2>1
  <2> HIDE DEF T
  <2>8. Gentle(p, "p_facq", T)  BY <2>5, <2>6, <2>7, LocalCalm, AskFacts
  <2>9. Alone(p) /\ ArgsStay(p)
    BY <2>1, <2>3, AloneHolder DEF HoldsProc, ArgsStay, WaitInv, SlotInv, Inv, TypeOK
  <2> QED  BY <2>3, <2>6, <2>8, <2>9, AloneCalm DEF Term, Sending, Flagged
<1> QED  BY <1>1, <1>2 DEF SpawnAlloc

LEMMA SpawnCalm ==
    ASSUME WaitInv, SlotInv', CalmInv, NEW p \in Task, SpawnCall(p)
    PROVE  CalmInv'
<1>0. /\ Inv /\ p \in Pid /\ tgt(p) \in Task /\ proc \in Table /\ console_owner \in Con /\ Sober(proc)
      /\ pc[p] \in Filling => tgt(p) # p /\ proc[tgt(p)].state = "EMPTY"
  BY TargetType, Constants
     DEF WaitInv, SlotInv, Inv, TypeOK, Table, Con, Slots, Built, SpawnTarget, CalmInv
<1>1. CASE SysSpawn(p)
  BY <1>1, AcquireKeptCalm, AcquireLabelFacts, KeepsFacts, AskFacts, Constants DEF SysSpawn
<1>2. CASE SpawnLock(p)
  BY <1>2, AcquireKeptCalm, AcquireLabelFacts, KeepsFacts, AskFacts, Constants DEF SpawnLock
<1>3. CASE SpawnAlloc(p)  BY <1>3, SpawnAllocCalm
<1>4. CASE SpawnFileLock(p)
  BY <1>4, AcquireKeptCalm, AcquireLabelFacts, KeepsFacts, AskFacts, Constants DEF SpawnFileLock
<1>5. CASE SpawnClearFds(p)
  <2>1. PICK b \in SpawnCatch :
           Release(p, FileIO, [proc EXCEPT ![tgt(p)].catch = b], console_owner, "p_fclr", "p_gacq")
    BY <1>5 DEF SpawnClearFds
  <2>2. UNCHANGED arg  BY <1>5 DEF SpawnClearFds
  <2>3. active_pid = p /\ pc[p] = "p_fclr" /\ b \in BOOLEAN
    BY <2>1, KernelAssumption DEF Release, At
  <2>4. tgt(p) # p /\ proc[tgt(p)].state = "EMPTY"  BY <1>0, <2>3 DEF Filling
  <2> DEFINE row == [proc[tgt(p)] EXCEPT !.catch = b]
             T == [proc EXCEPT ![tgt(p)] = row]
  <2>5. row \in Row /\ row.state = "EMPTY" /\ row.pending = proc[tgt(p)].pending /\ row.catch = b
    BY <1>0, <2>3, <2>4, Constants DEF Table, Row
  <2>6. Release(p, FileIO, T, console_owner, "p_fclr", "p_gacq")  BY <2>1
  <2> HIDE DEF row
  <2>7. Tame(T) /\ Others(p, T)  BY <1>0, <2>3, <2>4, <2>5, BuildTable
  <2>8. row.pending \in Sendable \cup {NoSignal}  BY <1>0, <2>5 DEF Sober, SoberRow
  <2>9. AwaitedAt(p, "p_gacq", T) /\ Sober(T)
    BY <1>0, <2>3, <2>4, <2>5, <2>8, BuildCalm DEF HoldsProc, AtExit
  <2>10. T[tgt(p)].catch = b  BY <1>0, <2>5, Constants DEF Table
  <2> HIDE DEF T
  <2>11. Gentle(p, "p_gacq", T)
    BY <1>0, <2>6, <2>7, <2>9, ReleaseCalm, ReleaseLabelFacts, AskFacts, Constants
  <2>12. "INT" \in Sendable => arg'[p].pid \in Task /\ T[arg'[p].pid].catch
    BY <1>0, <2>1, <2>2, <2>10 DEF CalmInv, NoDefaultInt, tgt
  <2>13. Alone(p) /\ ArgsStay(p)  BY <1>0, <2>2, <2>3, AloneHolder DEF HoldsProc, ArgsStay
  <2> QED  BY <1>0, <2>9, <2>11, <2>12, <2>13, AloneCalm DEF Term, Sending
<1>6. CASE SpawnFileLockAgain(p)
  <2>1. Keeps("p_gacq", "p_gacq") /\ Keeps("p_gacq", "p_clone")  BY KeepsFacts DEF Flagged
  <2> QED  BY <1>6, <2>1, AcquireKeptCalm, AcquireLabelFacts, AskFacts, Constants DEF SpawnFileLockAgain
<1>7. CASE SpawnClone(p)
  <2>1. Keeps("p_clone", "p_col")  BY KeepsFacts DEF Flagged
  <2> QED  BY <1>7, <2>1, RequestCalm, LocalLabelFacts, AskFacts DEF SpawnClone
<1>8. CASE SpawnCloneFails(p)
  BY <1>8, LocalPlainCalm, KeepsFacts, AskFacts DEF SpawnCloneFails, Returns
<1>9. CASE SpawnResult(p)
  <2>1. PICK to \in {"p_pub", "p_back"} : Local(p, "p_col", proc, to)  BY <1>9 DEF SpawnResult
  <2>2. Keeps("p_col", to)  BY <2>1, KeepsFacts DEF Flagged
  <2> QED  BY <1>9, <2>1, <2>2, LocalPlainCalm, AskFacts DEF SpawnResult, Returns
<1>10. CASE SpawnPublish(p)  BY <1>10, SpawnPublishCalm
<1>11. CASE SpawnConsole(p)
  <2>1. PICK con \in Con : Release(p, FileIO, proc, con, "p_con", "p_rel")
    BY <1>0, <1>11 DEF SpawnConsole, Con
  <2>2. Returns(p, "p_con", "p_rel")  BY <1>11, KeepsFacts DEF SpawnConsole, Returns
  <2> QED  BY <2>1, <2>2, ReleasePlainCalm, ReleaseLabelFacts, AskFacts, Constants
<1>12. CASE SpawnUnlock(p)
  BY <1>0, <1>12, ReleasePlainCalm, ReleaseLabelFacts, KeepsFacts, AskFacts, Constants
     DEF SpawnUnlock, Returns
<1>13. CASE SpawnReturn(p)
  BY <1>13, LocalPlainCalm, KeepsFacts, AskFacts DEF SpawnReturn, Returns, AtExit
<1>14. CASE SpawnRollback(p)
  <2> DEFINE T == [proc EXCEPT ![tgt(p)] = EmptyRow]
  <2>1. Release(p, FileIO, T, console_owner, "p_back", "p_err") /\ UNCHANGED arg
    BY <1>14 DEF SpawnRollback
  <2>2. active_pid = p /\ pc[p] = "p_back"  BY <2>1 DEF Release, At
  <2>3. tgt(p) # p /\ proc[tgt(p)].state = "EMPTY"  BY <1>0, <2>2 DEF Filling
  <2>4. EmptyRow \in Row /\ EmptyRow.state = "EMPTY" /\ EmptyRow.pending = NoSignal
    BY EmptyRowType DEF EmptyRow
  <2>5. Tame(T) /\ Others(p, T)  BY <1>0, <2>2, <2>3, <2>4, BuildTable
  <2>6. AwaitedAt(p, "p_err", T) /\ Sober(T)
    BY <1>0, <2>2, <2>3, <2>4, BuildCalm DEF HoldsProc, AtExit
  <2> HIDE DEF T
  <2>7. Gentle(p, "p_err", T)
    BY <1>0, <2>1, <2>5, <2>6, ReleaseCalm, ReleaseLabelFacts, AskFacts, Constants
  <2>8. Alone(p) /\ ArgsStay(p)  BY <1>0, <2>1, <2>2, AloneHolder DEF HoldsProc, ArgsStay
  <2> QED  BY <1>0, <2>6, <2>7, <2>8, AloneCalm DEF Term, Sending, Flagged
<1>15. CASE SpawnFail(p)
  BY <1>0, <1>15, ReleasePlainCalm, ReleaseLabelFacts, KeepsFacts, AskFacts, Constants
     DEF SpawnFail, Returns, AtExit
<1> QED  BY <1>1, <1>2, <1>3, <1>4, <1>5, <1>6, <1>7, <1>8, <1>9, <1>10, <1>11, <1>12, <1>13,
            <1>14, <1>15 DEF SpawnCall

----------------------------------------------------------------------------
(***************************************************************************)
(* The idle loop and the interrupts, once more.                            *)
(***************************************************************************)
LEMMA IdleReapCalm ==
    ASSUME WaitInv, SlotInv', CalmInv, IdleReap
    PROVE  CalmInv'
<1>0. /\ Inv /\ proc \in Table /\ Tame(proc) /\ wait_line \in [Gate -> Line] /\ Sober(proc)
  BY ProcTame DEF WaitInv, SlotInv, Inv, TypeOK, Table, CalmInv
<1> DEFINE W == ReleaseWake(proc, FileIO)
           L == ReleaseLine(FileIO)
<1>1. PICK z \in Task : proc' = [W EXCEPT ![z] = EmptyRow] /\ Orphan(z)  BY DEF IdleReap
<1>2. /\ wait_line' = L /\ UNCHANGED <<gate_owner, pc, arg>>
      /\ \A g \in Gate : gate_owner[g] = Nobody
  BY DEF IdleReap
<1>3. W \in Table /\ L \in [Gate -> Line]
  BY <1>0, ReleaseTame, Constants DEF Tame, Follows
<1>4. \A q \in Task : Sways(proc[q], W[q])  BY <1>0, SwaysRelease, Constants
<1>5. \A q \in Task : proc[q].state \in Active => W[q].state \in Active
  BY <1>0, Constants DEF ReleaseWake, Wake, Table, Active
<1>6. \A g \in Gate : Waiters(L[g]) # {} => Waiters(wait_line[g]) # {}
  <2>1. \A g \in Gate : L[g] = wait_line[g] \/ \E D : L[g] = Unlink(wait_line[g], D)
    BY <1>0 DEF ReleaseLine
  <2> HIDE DEF L
  <2> QED  BY <2>1, UnlinkWaiters
<1> HIDE DEF W, L
<1> DEFINE T == [W EXCEPT ![z] = EmptyRow]
<1>7. /\ T \in Table /\ T[z].state = "EMPTY" /\ T[z].pending = NoSignal
      /\ \A q \in Task \ {z} : T[q] = W[q]
  <2>1. EmptyRow.state = "EMPTY" /\ EmptyRow.pending = NoSignal  BY DEF EmptyRow
  <2> QED  BY <1>3, <2>1, EmptyRowType, Constants DEF Table
<1>8. proc' = T  BY <1>1
<1> HIDE DEF T
<1>9. Sober(T)
  <2>1. Sober(W)  BY <1>0, <1>4, SoberFrom
  <2> QED  BY <1>7, <2>1 DEF Sober, SoberRow, Dead
<1>10. ASSUME Retried PROVE Ready(Idle, "none", T, L)
  <2> SUFFICES ASSUME NEW g \in Gate, gate_owner'[g] = Nobody, Waiters(L[g]) # {}
               PROVE  \E q \in Task : (IF q = Idle THEN "none" ELSE pc[q]) \in Retries(g)
                                      /\ T[q].state \in Active
    BY DEF Ready
  <2>1. PICK q \in Task : pc[q] \in Retries(g) /\ proc[q].state \in Active
    BY <1>2, <1>6, <1>10 DEF Retried
  <2>2. q # z  BY <1>1, <2>1 DEF Orphan, Active
  <2> QED  BY <1>5, <1>7, <2>1, <2>2, Constants
<1>11. Settled(T, L, {}) /\ Goes(Idle, "none") /\ ArgsStay(Idle)
  BY <1>2, <1>3, <1>7, <1>8, ContinueSettled, Constants DEF Goes, ArgsStay
<1>12. Gentle(Idle, "none", T)  BY <1>3, <1>7, <1>9, <1>10, <1>11, SettledCalm
<1>13. AwaitedAt(Idle, "none", T)
  <2> SUFFICES ASSUME NEW q \in Task, BlockedOn(T, q, "PROC")
               PROVE  LET c == T[q].object IN
                      /\ c \in Task /\ T[c].parent = q
                      /\ T[c].state \notin Dead \/ (IF c = Idle THEN "none" ELSE pc[c]) \in AtExit
    BY DEF AwaitedAt
  <2>1. q # z /\ BlockedOn(proc, q, "PROC") /\ T[q].object = proc[q].object
    BY <1>4, <1>7 DEF BlockedOn, Sways
  <2> DEFINE c == proc[q].object
  <2>2. c \in Task /\ proc[c].parent = q /\ (proc[c].state \notin Dead \/ pc[c] \in AtExit)
    BY <2>1 DEF CalmInv, Awaited
  <2>3. c # z  BY <1>1, <2>1, <2>2 DEF Orphan, LiveParent, BlockedOn, Dead
  <2>4. T[c].parent = q /\ (proc[c].state \notin Dead => T[c].state \notin Dead)
    BY <1>4, <1>7, <2>2, <2>3 DEF Sways
  <2> QED  BY <2>1, <2>2, <2>4, Constants
<1>14. Alone(Idle)
  <2>1. Proc \in Gate /\ Holds(Proc) = HoldsProc  BY Constants DEF Holds
  <2> QED  BY <1>0, <1>2, <2>1, Constants DEF Alone, Inv, HolderOwns
<1> QED  BY <1>9, <1>11, <1>12, <1>13, <1>14, AloneCalm, Constants

LEMMA IrqCalm ==
    ASSUME WaitInv, SlotInv', CalmInv, NEW T, Tame(T), \A q \in Task : Sways(proc[q], T[q]),
           \A q \in Task : proc[q].state \in Active => T[q].state \in Active,
           UNCHANGED <<gate_owner, arg>>,
           Dispatch(Demote(T, active_pid), wait_line, gate_owner, console_owner, pc)
    PROVE  CalmInv'
<1> DEFINE U == Demote(T, active_pid)
<1>0. /\ Inv /\ active_pid \in Pid /\ T \in Table /\ wait_line \in [Gate -> Line] /\ Sober(proc)
      /\ gate_owner' = gate_owner
  BY DEF WaitInv, SlotInv, Inv, TypeOK, Tame, Follows, CalmInv
<1>1. Tame(U) /\ U \in Table  BY <1>0, DemoteTame DEF Tame, Follows
<1>2. \A q \in Task : Sways(T[q], U[q]) /\ (T[q].state \in Active => U[q].state \in Active)
  BY <1>0, SwaysDemote, EasedDemote, EasedActive
<1> HIDE DEF U
<1>3. Dispatch(U, wait_line, gate_owner, console_owner, pc)  BY DEF U
<1>4. Moved(pc)  BY <1>0, <1>1, <1>3, DispatchIrq
<1>5. Goes(Idle, "none") /\ ArgsStay(Idle) /\ Enters(Idle, "none")
  BY <1>4, Constants DEF Goes, Moved, ArgsStay, Enters
<1>6. Settled(U, wait_line, SigDies(U, Owners))
  <2>1. gate_owner' \in [Gate -> Pid \cup {Nobody}]  BY <1>0 DEF Inv, TypeOK
  <2> QED  BY <1>0, <1>1, <1>3, <2>1, DispatchSettled
<1>7. \A q \in Task : Sways(proc[q], U[q])  BY <1>2, SwaysTrans
<1>8. Sober(U)  BY <1>0, <1>7, SoberFrom
<1>9. NoStop /\ Retried => Ready(Idle, "none", U, wait_line)  BY <1>0, <1>2, KeepsReady, Constants
<1>10. Gentle(Idle, "none", U)  BY <1>0, <1>1, <1>5, <1>6, <1>8, <1>9, SettledCalm
<1>11. Gentle(Idle, "none", proc)  BY <1>7, <1>10, CalmFrom
<1> QED  BY <1>5, <1>11, SwayStep, Constants

LEMMA InterruptCalm ==
    ASSUME WaitInv, SlotInv', CalmInv, TimerIrq \/ ConsoleBreak \/ FsDone \/ RpRoute
    PROVE  CalmInv'
<1>0. /\ Inv /\ proc \in Table /\ Tame(proc) /\ UNCHANGED <<gate_owner, arg>>
  BY ProcTame DEF WaitInv, SlotInv, Inv, TypeOK, Table, TimerIrq, ConsoleBreak, FsDone, RpRoute
<1>1. CASE TimerIrq  BY <1>0, <1>1, SwaysSelf, IrqCalm DEF TimerIrq
<1>2. CASE ConsoleBreak
  <2> DEFINE T == [proc EXCEPT ![console_owner].pending = "INT"]
  <2>1. /\ Dispatch(Demote(T, active_pid), wait_line, gate_owner, console_owner, pc)
        /\ console_owner \in Task /\ "INT" \in Sendable
    BY <1>2 DEF ConsoleBreak, Sendable
  <2>2. Tame(T) /\ \A q \in Task : Eased(proc[q], T[q])  BY <1>0, <2>1, PendingEased DEF Signal
  <2>3. \A q \in Task : Sways(proc[q], T[q])  BY <1>0, <2>1, SwaysPending
  <2> HIDE DEF T
  <2>4. \A q \in Task : proc[q].state \in Active => T[q].state \in Active  BY <2>2, EasedActive
  <2> QED  BY <1>0, <2>1, <2>2, <2>3, <2>4, IrqCalm
<1>3. CASE FsDone
  <2> DEFINE o == gate_owner[FileIO]
             T == Wake(proc, o)
  <2>1. o \in Task /\ BlockedOn(proc, o, "RP")  BY <1>3, RequestOwner DEF FsDone
  <2>2. Dispatch(Demote(T, active_pid), wait_line, gate_owner, console_owner, pc)
    BY <1>3, <2>1, Constants DEF FsDone
  <2>3. Tame(T)  BY <1>0, WakeTame DEF Tame
  <2>4. \A q \in Task : Sways(proc[q], T[q])  BY <1>0, <2>1, SwaysWake, Constants
  <2>5. \A q \in Task : proc[q].state \in Active => T[q].state \in Active
    BY <1>0, <2>1, Constants DEF Wake, BlockedOn, Table, Active
  <2> HIDE DEF T
  <2> QED  BY <1>0, <2>2, <2>3, <2>4, <2>5, IrqCalm
<1>4. CASE RpRoute
  <2>1. UNCHANGED <<proc, wait_line, pc>>  BY <1>4 DEF RpRoute
  <2> QED  BY <1>0, <2>1 DEF CalmInv, NoDefaultInt, NoStop, Sendable, Sober, SoberRow, ChildCatches,
        SentOnly, Awaited, BlockedOn, ChildLives, OrphanEnds, LiveParent, Retried, tgt
<1> QED  BY <1>1, <1>2, <1>3, <1>4

----------------------------------------------------------------------------
LEMMA InitCalm == Init /\ NoDefaultInt => CalmInv
<1> SUFFICES ASSUME Init, NoDefaultInt PROVE CalmInv  OBVIOUS
<1>1. /\ \A q \in Task : pc[q] \in {"new", "none"}
      /\ \A g \in Gate : wait_line[g] = {}
  BY DEF Init
<1>2. \A q \in Task : /\ proc[q].state \in {"NEW", "EMPTY"} /\ proc[q].pending = NoSignal
                      /\ proc[q].state = "NEW" => q \in BootTasks /\ proc[q].catch = (q \in BootCatch)
  <2> DEFINE new(b) == [EmptyRow EXCEPT !.state = "NEW", !.parent = Idle, !.catch = b]
  <2>1. \A b : new(b).state = "NEW" /\ new(b).pending = NoSignal /\ new(b).catch = b  BY DEF EmptyRow
  <2>2. EmptyRow.state = "EMPTY" /\ EmptyRow.pending = NoSignal  BY DEF EmptyRow
  <2>3. \A q \in Task : proc[q] = IF q \in BootTasks THEN new(q \in BootCatch) ELSE EmptyRow
    BY Constants DEF Init
  <2> HIDE DEF new
  <2> QED  BY <2>1, <2>2, <2>3
<1>3. Sober(proc)
  <2> SUFFICES ASSUME NEW q \in Task PROVE SoberRow(proc[q])  BY DEF Sober
  <2>1. "INT" \in Sendable /\ proc[q].state \notin Dead => proc[q].catch
    BY <1>2 DEF NoDefaultInt, Dead
  <2> QED  BY <1>2, <2>1 DEF SoberRow
<1>4. Awaited /\ Retried  BY <1>1, <1>2 DEF Awaited, BlockedOn, Retried, Waiters
<1>5. ChildCatches /\ SentOnly /\ ChildLives /\ OrphanEnds
  BY <1>1 DEF ChildCatches, SentOnly, ChildLives, OrphanEnds, Flagged, Sending, Term
<1> QED  BY <1>3, <1>4, <1>5 DEF CalmInv

LEMMA NextCalm == WaitInv /\ WaitInv' /\ CalmInv /\ [Next]_vars => CalmInv'
<1> SUFFICES ASSUME WaitInv, WaitInv', CalmInv, [Next]_vars PROVE CalmInv'  OBVIOUS
<1>1. SlotInv'  BY DEF WaitInv
<1>2. CASE UNCHANGED vars
  BY <1>2 DEF CalmInv, NoDefaultInt, NoStop, Sendable, Sober, SoberRow, ChildCatches, SentOnly, Awaited,
     BlockedOn, ChildLives, OrphanEnds, LiveParent, Retried, tgt, vars
<1>3. ASSUME NEW p \in Task, Step(p) PROVE CalmInv'
  BY <1>1, <1>3, PlainCalm, FileCalm, ConsoleCalm, ExitCalm, TerminateCalm, WaitpidCalm,
     SignalCalm, SpawnCalm DEF Step
<1> QED  BY <1>1, <1>2, <1>3, IdleReapCalm, InterruptCalm DEF Next

LEMMA CalmInvariant == Spec /\ NoKill /\ NoDefaultInt => [](WaitInv /\ CalmInv)
BY InitCalm, NextCalm, WaitInvariant, PTL DEF Spec

\* A parent asleep in waitpid always has its wake ahead of it: the child it
\* waits for is still its child and alive, or is a zombie with the wake as its
\* next step.  Neither a reap, a slot that is reused, a spawn that is rolled
\* back nor a break can come in between, for every number of processes, as
\* long as nobody sends KILL and no process dies of a default INT.
THEOREM WaitpidKeepsWake == Spec /\ NoKill /\ NoDefaultInt => []WaitpidWakePending
<1>1. WaitInv /\ CalmInv => WaitpidWakePending
  <2> SUFFICES ASSUME WaitInv, CalmInv, NEW q \in Task, BlockedOn(proc, q, "PROC")
               PROVE  LET c == proc[q].object IN
                      \/ c \in Task /\ proc[c].parent = q /\ proc[c].state \notin Dead
                      \/ \E p \in Task : tgt(p) = c /\ pc[p] \in {"x_parent", "x_wake", "k_parent", "k_wake"}
    BY DEF WaitpidWakePending
  <2> DEFINE c == proc[q].object
  <2>1. c \in Task /\ proc[c].parent = q /\ (proc[c].state \notin Dead \/ pc[c] \in AtExit)
    BY DEF CalmInv, Awaited
  <2>2. pc[c] \in AtExit => tgt(c) = c  BY <2>1 DEF WaitInv, SlotInv, Slots, OwnTarget, OnSelf, AtExit
  <2> QED  BY <2>1, <2>2 DEF AtExit
<1> QED  BY <1>1, CalmInvariant, PTL

\* A gate that is free while processes stand in its line has been handed to a
\* runnable process about to retry: no release, whoever makes it and in
\* whatever order the woken processes run, leaves a gate and its line behind.
\* The hypotheses are what the hand-over needs: nobody who has been woken is
\* killed, dies of a default INT or is stopped before it retries.
THEOREM GatesAreRetried == Spec /\ NoKill /\ NoDefaultInt /\ NoStop => []FreeGateIsRetried
<1>1. WaitInv /\ CalmInv /\ NoStop => FreeGateIsRetried
  <2> SUFFICES ASSUME WaitInv, CalmInv, NoStop, NEW g \in Gate, NEW w \in Task,
                      gate_owner[g] = Nobody, BlockedOn(proc, w, "LOCK"), proc[w].object = g
               PROVE  \E q \in Task : pc[q] \in Retries(g) /\ proc[q].state \in {"READY", "RUNNING"}
    BY DEF FreeGateIsRetried
  <2>1. w \in Waiters(wait_line[g])  BY DEF WaitInv, Fit, FitRow, BlockedOn
  <2> QED  BY <2>1 DEF CalmInv, Retried, Active
<1>2. NoStop /\ [Next]_vars => NoStop'  BY DEF NoStop, Sendable
<1> QED  BY <1>1, <1>2, CalmInvariant, PTL DEF Spec
=============================================================================
