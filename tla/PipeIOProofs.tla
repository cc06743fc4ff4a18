---------------------------- MODULE PipeIOProofs ----------------------------
(***************************************************************************)
(* The descriptor system calls keep their tables in order, a waiter keeps  *)
(* the pipe end it waits on, and the pipes are bounded FIFOs: for any      *)
(* numbers of processes, descriptors, objects and pipes, any ring size and *)
(* any calls.                                                              *)
(***************************************************************************)
EXTENDS PipeIO, DescriptorProofs

Waiting == {"block", "blocked", "retry"}
Waking  == {"wake", "scan", "store"}
WakerRec == [req : WakeReq \cup {NoReq}, ret : Place, found : Pid]
CallRec == [op : {"-", "read", "write"}, fd : Fd, len : Lens, text : Texts,
            reason : {"NONE", "CONSOLE", "PIPE_READ", "PIPE_WRITE"}, object : Pipe]

(***************************************************************************)
(* The inductive invariant.                                                *)
(***************************************************************************)

\* A free PID has no descriptors: what spawn clears was closed before.
FreeIsClosed == \A c \in Task : at[c] = "none" => \A f \in Fd : ~IsOpen(tab, c, f)

\* Whoever performs wakes holds the gate and does not go on to wait.
WakerOwns ==
    \A p \in Pid : at[p] \in Waking => gate = p /\ waker.ret \in {"user", "dead"}

\* Descriptor c.fd of p is end e of pipe c.object.
HoldsEnd(T, p, c, e) ==
    LET s == T.fd[p][c.fd] IN
    /\ s.obj # None /\ e \in s.flags
    /\ T.obj[s.obj].type = "PIPE" /\ T.obj[s.obj].end = e
    /\ T.obj[s.obj].pipe # None /\ T.pipe[T.obj[s.obj].pipe].ends # {}
    /\ T.obj[s.obj].pipe = c.object

WaitHolds(T, p, c) ==
    /\ c.reason = "PIPE_READ" => HoldsEnd(T, p, c, "R")
    /\ c.reason = "PIPE_WRITE" => HoldsEnd(T, p, c, "W")

\* Whom a scan has found still holds the end it waited for when proc_wake
\* makes it READY: nothing is reaped while the waker owns the gate.
FoundHolds ==
    \A p \in Pid : at[p] = "store" =>
       waker.found \in Task /\ WaitHolds(tab, waker.found, call[waker.found])

PipeInv == TypeOK /\ InOrder(tab) /\ FreeIsClosed /\ WakerOwns /\ FoundHolds /\ WaiterHoldsEnd

LEMMA WaitersHold ==
    WaiterHoldsEnd <=> \A p \in Task : at[p] \in Waiting => WaitHolds(tab, p, call[p])
  BY DEF WaiterHoldsEnd, WaitHolds, HoldsEnd, OnPipe, Allows, ObjOf, SlotOf, RingOf, Waiting

LEMMA WaitersHoldNext ==
    WaiterHoldsEnd' <=> \A p \in Task : at'[p] \in Waiting => WaitHolds(tab', p, call'[p])
  BY DEF WaiterHoldsEnd, WaitHolds, HoldsEnd, OnPipe, Allows, ObjOf, SlotOf, RingOf, Waiting

LEMMA Types ==
    TypeOK <=> /\ tab \in Tables /\ cpu \in Pid /\ gate \in Pid \cup {Nobody} /\ at \in [Pid -> Place]
               /\ call \in [Task -> CallRec]
               /\ waker \in WakerRec /\ scratch \in Scan
  BY DEF TypeOK, CallRec, WakerRec

LEMMA TypesNext ==
    TypeOK' <=> /\ tab' \in Tables /\ cpu' \in Pid /\ gate' \in Pid \cup {Nobody} /\ at' \in [Pid -> Place]
                /\ call' \in [Task -> CallRec]
                /\ waker' \in WakerRec /\ scratch' \in Scan
  BY DEF TypeOK, CallRec, WakerRec

LEMMA Pids ==
    Task \subseteq Pid /\ Idle \in Pid /\ Idle \notin Task /\ Nobody \notin Pid
    /\ Pid = Task \cup {Idle}
  BY MaxProcsAssumption DEF Task, Pid, Idle, Nobody

\* What somebody waits on survives a step on the descriptors of another.
LEMMA HoldSurvives ==
    ASSUME NEW T, NEW U, InOrder(T), InOrder(U), NEW x \in Task, Spares(T, U, x), NEW p \in Task, p # x,
           NEW c \in CallRec, WaitHolds(T, p, c)
    PROVE  WaitHolds(U, p, c)
<1> SUFFICES ASSUME NEW e \in End, HoldsEnd(T, p, c, e) PROVE HoldsEnd(U, p, c, e)
  BY DEF WaitHolds, End
<1> DEFINE s == T.fd[p][c.fd]
           o == s.obj
<1>1. c.fd \in Fd
  BY DEF CallRec
<1>2. o # None /\ e \in s.flags /\ T.obj[o].type = "PIPE" /\ T.obj[o].end = e /\ T.obj[o].pipe = c.object
      /\ T.obj[o].pipe # None
  BY DEF HoldsEnd
<1>3. U.fd[p][c.fd] = s /\ SameEnd(T, U, o)
  BY <1>1, <1>2 DEF Spares, IsOpen
<1>4. o \in Obj
  <2>1. T \in Tables
    BY DEF InOrder
  <2>2. s \in Slot
    BY <1>1, <2>1, FieldTypes
  <2> QED BY <1>2, <2>2 DEF Slot
<1>5. U.obj[o].type = "PIPE" /\ U.obj[o].end = e /\ U.obj[o].pipe = c.object /\ U.obj[o].pipe # None
  BY <1>2, <1>3 DEF SameEnd
<1>6. U.pipe[U.obj[o].pipe].ends # {}
  BY <1>4, <1>5 DEF InOrder, Endpoints
<1> QED
  BY <1>2, <1>3, <1>5, <1>6 DEF HoldsEnd

(***************************************************************************)
(* The steps that leave the tables, the gate and the waker alone.          *)
(***************************************************************************)
LEMMA QuietStep ==
    ASSUME PipeInv, UNCHANGED <<tab, gate, waker>>, cpu' \in Pid, scratch' \in Scan,
           at' \in [Pid -> Place], call' \in [Task -> CallRec],
           \A q \in Pid : /\ at'[q] = "none" => at[q] = "none"
                          /\ at'[q] \in Waking => at'[q] = at[q],
           \A q \in Task : at'[q] \in Waiting =>
              \/ at[q] \in Waiting /\ call'[q] = call[q]
              \/ WaitHolds(tab, q, call'[q]),
           gate = Nobody \/ \A q \in Task : q = waker.found => call'[q] = call[q]
    PROVE  PipeInv'
<1>1. TypeOK'
  BY TypesNext, Types DEF PipeInv
<1>2. InOrder(tab')
  BY DEF PipeInv
<1>3. FreeIsClosed'
  BY Pids DEF PipeInv, FreeIsClosed
<1>4. WakerOwns' /\ FoundHolds'
  <2>1. WakerOwns'
    BY DEF PipeInv, WakerOwns, Waking
  <2>2. FoundHolds'
    BY Pids DEF PipeInv, WakerOwns, FoundHolds, Waking
  <2> QED BY <2>1, <2>2
<1>5. WaiterHoldsEnd'
  <2>1. \A p \in Task : at[p] \in Waiting => WaitHolds(tab, p, call[p])
    BY WaitersHold DEF PipeInv
  <2>2. tab' = tab
    OBVIOUS
  <2>3. \A p \in Task : at'[p] \in Waiting => WaitHolds(tab', p, call'[p])
    BY <2>1, <2>2
  <2> QED BY <2>3, WaitersHoldNext
<1> QED
  BY <1>1, <1>2, <1>3, <1>4, <1>5 DEF PipeInv

\* What p, at the end of a call, changes: descriptors of x only, which is p
\* itself, the child it makes or the process it reaps.
LEMMA FinishStep ==
    ASSUME PipeInv, NEW p \in Pid, gate = Nobody, at[p] \in {"user", "retry"},
           NEW x \in Task, NEW U, InOrder(U), Spares(tab, U, x), NEW l \in {"user", "dead"},
           NEW a \in [Pid -> Place], Finish(p, U, l, a),
           \A q \in Pid : q # x => a[q] = at[q],
           x # p => a[x] \in {"user", "none"} \/ (a[x] = at[x] /\ at[x] \notin Waiting),
           x # p /\ a[x] = "none" => \A f \in Fd : ~IsOpen(U, x, f),
           x # p => a[x] \notin Waking,
           call' \in [Task -> CallRec], \A q \in Task : q # p => call'[q] = call[q]
    PROVE  PipeInv'
<1>1. /\ tab' = U /\ cpu' = cpu /\ scratch' = scratch
      /\ \/ /\ at' = [a EXCEPT ![p] = l] /\ gate' = gate /\ waker' = waker
         \/ /\ at' = [a EXCEPT ![p] = "wake"] /\ gate' = p
            /\ waker' = [NoWaker EXCEPT !.ret = l]
  BY DEF Finish
<1>2. /\ at' \in [Pid -> Place] /\ at'[p] \in {l, "wake"}
      /\ \A q \in Pid : q # p => at'[q] = a[q]
  BY <1>1 DEF Place
<1>3. TypeOK'
  <2>1. U \in Tables
    BY DEF InOrder
  <2>2. [NoWaker EXCEPT !.ret = l] \in WakerRec
    BY Pids DEF NoWaker, Place, WakerRec
  <2> QED BY <1>1, <1>2, <2>1, <2>2, TypesNext, Types DEF PipeInv
<1>4. FreeIsClosed'
  <2> SUFFICES ASSUME NEW c \in Task, at'[c] = "none", NEW f \in Fd PROVE ~IsOpen(tab', c, f)
    BY DEF FreeIsClosed
  <2>1. c # p /\ a[c] = "none"
    BY <1>2, Pids
  <2>2. CASE c = x
    BY <1>1, <2>1, <2>2
  <2>3. CASE c # x
    <3>1. at[c] = "none"
      BY <2>1, <2>3, Pids
    <3>2. ~IsOpen(tab, c, f) /\ U.fd[c][f] = tab.fd[c][f]
      BY <2>3, <3>1 DEF PipeInv, FreeIsClosed, Spares
    <3> QED BY <1>1, <3>2 DEF IsOpen
  <2> QED BY <2>2, <2>3
<1>5. WakerOwns' /\ FoundHolds'
  <2>1. ASSUME NEW q \in Pid, at'[q] \in Waking PROVE q = p /\ at'[p] = "wake"
    <3>1. \A r \in Pid : at[r] \notin Waking
      BY Pids DEF PipeInv, WakerOwns
    <3>2. q # p => a[q] = at[q] \/ (q = x /\ x # p /\ a[q] = at'[q])
      BY <1>2
    <3> QED BY <1>2, <2>1, <3>1, <3>2 DEF Waking
  <2>2. at'[p] = "wake" => gate' = p /\ waker'.ret \in {"user", "dead"}
    BY <1>1 DEF NoWaker
  <2>3. WakerOwns'
    BY <2>1, <2>2 DEF WakerOwns
  <2>4. FoundHolds'
    BY <2>1 DEF FoundHolds, Waking
  <2> QED BY <2>3, <2>4
<1>6. WaiterHoldsEnd'
  <2>1. \A q \in Task : at[q] \in Waiting => WaitHolds(tab, q, call[q])
    BY WaitersHold DEF PipeInv
  <2> SUFFICES ASSUME NEW q \in Task, at'[q] \in Waiting PROVE WaitHolds(U, q, call'[q])
    BY <1>1, WaitersHoldNext
  <2>2. q # p
    BY <1>2 DEF Waiting
  <2>3. q # x
    <3>1. q \in Pid /\ at'[q] = a[q]
      BY <1>2, <2>2, Pids
    <3> QED BY <2>2, <3>1 DEF Waiting
  <2>4. at[q] \in Waiting /\ call'[q] = call[q]
    BY <1>2, <2>2, <2>3, Pids
  <2>5. WaitHolds(tab, q, call[q]) /\ call[q] \in CallRec
    BY <2>1, <2>4, Types DEF PipeInv
  <2>6. InOrder(tab)
    BY DEF PipeInv
  <2> QED BY <2>3, <2>4, <2>5, <2>6, HoldSurvives
<1> QED
  BY <1>1, <1>3, <1>4, <1>5, <1>6 DEF PipeInv

(***************************************************************************)
(* Calls that change their caller's descriptors.                           *)
(***************************************************************************)
LEMMA NoCallType == NoCall \in CallRec
<1>1. 0 \in Lens /\ << >> \in Texts
  BY PipeIOAssumption
<1> QED
  BY <1>1, Sizes DEF NoCall, CallRec

LEMMA ReturnStep ==
    ASSUME PipeInv, NEW p \in Task, gate = Nobody, at[p] \in {"user", "retry"},
           NEW U, InOrder(U), Spares(tab, U, p), Return(p, U)
    PROVE  PipeInv'
<1>1. Finish(p, U, "user", at) /\ call' = [call EXCEPT ![p] = NoCall]
  BY DEF Return
<1>2. call' \in [Task -> CallRec] /\ \A q \in Task : q # p => call'[q] = call[q]
  BY <1>1, NoCallType, Types DEF PipeInv
<1>3. at \in [Pid -> Place] /\ p \in Pid
  BY Types, Pids DEF PipeInv
<1> QED
  BY <1>1, <1>2, <1>3, FinishStep

LEMMA SelfSpares ==
    ASSUME NEW T, NEW x PROVE Spares(T, T, x) /\ Shrinks(T, T)
  BY DEF Spares, Shrinks, SameEnd

LEMMA MustWaitStep ==
    ASSUME PipeInv, gate = Nobody, NEW p \in Task, NEW c \in CallRec,
           NEW r \in {"CONSOLE", "PIPE_READ", "PIPE_WRITE"}, NEW o \in Pipe, MustWait(p, c, r, o),
           r = "PIPE_READ" => OnPipe(p, c, "R") /\ ObjOf(p, c).pipe = o,
           r = "PIPE_WRITE" => OnPipe(p, c, "W") /\ ObjOf(p, c).pipe = o
    PROVE  PipeInv'
<1> DEFINE d == [c EXCEPT !.reason = r, !.object = o]
<1>1. d \in CallRec /\ d.reason = r /\ d.object = o /\ d.fd = c.fd
  BY DEF CallRec
<1>2. WaitHolds(tab, p, d)
  <2> HIDE DEF d
  <2> QED BY <1>1 DEF WaitHolds, HoldsEnd, OnPipe, Allows, ObjOf, SlotOf, RingOf
<1>3. /\ at' = [at EXCEPT ![p] = "block"] /\ call' = [call EXCEPT ![p] = d]
      /\ UNCHANGED <<tab, cpu, gate, waker, scratch>>
  BY DEF MustWait
<1>4. cpu \in Pid /\ scratch \in Scan /\ at \in [Pid -> Place] /\ call \in [Task -> CallRec] /\ p \in Pid
  BY Types, Pids DEF PipeInv
<1> HIDE DEF d
<1>5. at' \in [Pid -> Place] /\ call' \in [Task -> CallRec] /\ cpu' \in Pid /\ scratch' \in Scan
  BY <1>1, <1>3, <1>4 DEF Place
<1>6. \A q \in Pid : /\ at'[q] = "none" => at[q] = "none"
                     /\ at'[q] \in Waking => at'[q] = at[q]
  BY <1>3, <1>4 DEF Waking
<1>7. \A q \in Task : at'[q] \in Waiting =>
              \/ at[q] \in Waiting /\ call'[q] = call[q]
              \/ WaitHolds(tab, q, call'[q])
  BY <1>2, <1>3, <1>4, Pids
<1> QED
  BY <1>3, <1>5, <1>6, <1>7, QuietStep

LEMMA EndFacts ==
    ASSUME PipeInv, NEW p \in Task, NEW c \in CallRec, NEW e, OnPipe(p, c, e)
    PROVE  ObjOf(p, c).pipe \in Pipe /\ RingOf(p, c) = tab.pipe[ObjOf(p, c).pipe] /\ RingOf(p, c).ends # {}
<1>1. c.fd \in Fd /\ tab \in Tables
  BY Types DEF CallRec, PipeInv
<1>2. SlotOf(p, c) \in Slot
  BY <1>1, FieldTypes DEF SlotOf
<1>3. SlotOf(p, c).obj \in Obj
  BY <1>2 DEF Slot, OnPipe, Allows
<1>4. ObjOf(p, c) \in Object
  BY <1>1, <1>3, FieldTypes DEF ObjOf
<1> QED
  BY <1>4 DEF Object, OnPipe, RingOf

LEMMA ReadStep ==
    ASSUME PipeInv, NEW p \in Task, gate = Nobody, at[p] \in {"user", "retry"},
           NEW c \in CallRec, AttemptRead(p, c)
    PROVE  PipeInv'
<1>1. InOrder(tab) /\ Spares(tab, tab, p)
  BY SelfSpares DEF PipeInv
<1>2. CASE Return(p, tab)
  BY <1>1, <1>2, ReturnStep
<1>3. CASE MustWait(p, c, "CONSOLE", 0)
  BY <1>3, MustWaitStep, Sizes
<1>4. CASE OnPipe(p, c, "R") /\ MustWait(p, c, "PIPE_READ", ObjOf(p, c).pipe)
  BY <1>4, MustWaitStep, EndFacts
<1>5. CASE /\ OnPipe(p, c, "R") /\ c.len > 0 /\ RingOf(p, c).count > 0
           /\ Return(p, ReadRing(tab, ObjOf(p, c).pipe, c.len))
  <2> DEFINE k == ObjOf(p, c).pipe
             U == ReadRing(tab, k, c.len)
  <2>1. k \in Pipe /\ tab.pipe[k].count > 0 /\ tab.pipe[k].ends # {}
    BY <1>5, EndFacts
  <2>2. c.len \in Nat \ {0}
    <3>1. Lens \subseteq Nat
      BY PipeIOAssumption
    <3>2. c.len \in Lens /\ c.len > 0
      BY <1>5 DEF CallRec
    <3>3. \A n \in Lens : n > 0 => n \in Nat \ {0}
      BY <3>1
    <3> QED BY <3>2, <3>3, Zenon
  <2> HIDE DEF k
  <2>3. Transfers(tab, U, k)
    BY <1>1, <2>1, <2>2, ReadEffect
  <2>4. InOrder(U) /\ Spares(tab, U, p)
    <3> HIDE DEF U
    <3> QED BY <1>1, <2>1, <2>3, TransferKeeps
  <2>5. Return(p, U)
    BY <1>5 DEF k
  <2> HIDE DEF U
  <2> QED BY <2>4, <2>5, ReturnStep
<1> QED
  BY <1>2, <1>3, <1>4, <1>5 DEF AttemptRead

LEMMA WriteStep ==
    ASSUME PipeInv, NEW p \in Task, gate = Nobody, at[p] \in {"user", "retry"},
           NEW c \in CallRec, AttemptWrite(p, c)
    PROVE  PipeInv'
<1>1. InOrder(tab) /\ Spares(tab, tab, p)
  BY SelfSpares DEF PipeInv
<1>2. CASE Return(p, tab)
  BY <1>1, <1>2, ReturnStep
<1>3. CASE OnPipe(p, c, "W") /\ MustWait(p, c, "PIPE_WRITE", ObjOf(p, c).pipe)
  BY <1>3, MustWaitStep, EndFacts
<1>4. CASE /\ OnPipe(p, c, "W") /\ c.text # << >> /\ RingOf(p, c).count # PipeBufSize
           /\ Return(p, WriteRing(tab, ObjOf(p, c).pipe, c.text))
  <2> DEFINE k == ObjOf(p, c).pipe
             U == WriteRing(tab, k, c.text)
  <2>1. k \in Pipe /\ tab.pipe[k].count # PipeBufSize /\ tab.pipe[k].ends # {}
    BY <1>4, EndFacts
  <2>2. c.text \in Seq(Byte) /\ c.text # << >>
    BY <1>4, PipeIOAssumption DEF CallRec
  <2> HIDE DEF k
  <2>3. Transfers(tab, U, k)
    BY <1>1, <2>1, <2>2, WriteEffect
  <2>4. InOrder(U) /\ Spares(tab, U, p)
    <3> HIDE DEF U
    <3> QED BY <1>1, <2>1, <2>3, TransferKeeps
  <2>5. Return(p, U)
    BY <1>4 DEF k
  <2> HIDE DEF U
  <2> QED BY <2>4, <2>5, ReturnStep
<1> QED
  BY <1>2, <1>3, <1>4 DEF AttemptWrite

LEMMA NewCalls ==
    ASSUME NEW f \in Fd
    PROVE  /\ \A n \in Lens : [NoCall EXCEPT !.op = "read", !.fd = f, !.len = n] \in CallRec
           /\ \A s \in Texts : [NoCall EXCEPT !.op = "write", !.fd = f, !.text = s] \in CallRec
  BY NoCallType DEF CallRec

LEMMA TransferCalls ==
    ASSUME PipeInv, NEW p \in Task, SysRead(p) \/ SysWrite(p) \/ Retry(p)
    PROVE  PipeInv'
<1>1. CASE SysRead(p)
  <2>1. PICK f \in Fd, n \in Lens : AttemptRead(p, [NoCall EXCEPT !.op = "read", !.fd = f, !.len = n])
    BY <1>1 DEF SysRead
  <2>2. [NoCall EXCEPT !.op = "read", !.fd = f, !.len = n] \in CallRec
    BY NewCalls
  <2> QED BY <1>1, <2>1, <2>2, ReadStep DEF SysRead, Enter
<1>2. CASE SysWrite(p)
  <2>1. PICK f \in Fd, s \in Texts : AttemptWrite(p, [NoCall EXCEPT !.op = "write", !.fd = f, !.text = s])
    BY <1>2 DEF SysWrite
  <2>2. [NoCall EXCEPT !.op = "write", !.fd = f, !.text = s] \in CallRec
    BY NewCalls
  <2> QED BY <1>2, <2>1, <2>2, WriteStep DEF SysWrite, Enter
<1>3. CASE Retry(p)
  <2>1. call[p] \in CallRec
    BY Types DEF PipeInv
  <2> QED BY <1>3, <2>1, ReadStep, WriteStep DEF Retry
<1> QED
  BY <1>1, <1>2, <1>3

LEMMA OwnCalls ==
    ASSUME PipeInv, NEW p \in Task,
           SysClose(p) \/ SysDup(p) \/ SysDup2(p) \/ SysPipe(p) \/ SysOpen(p)
    PROVE  PipeInv'
<1>1. InOrder(tab)
  BY DEF PipeInv
<1> SUFFICES \E U : InOrder(U) /\ Spares(tab, U, p) /\ Return(p, U)
  <2>1. gate = Nobody /\ at[p] = "user"
    BY DEF SysClose, SysDup, SysDup2, SysPipe, SysOpen, Enter
  <2> QED BY <2>1, ReturnStep
<1>2. CASE SysClose(p)
  BY <1>1, <1>2, ClosePidKeeps DEF SysClose
<1>3. CASE SysDup(p)
  BY <1>1, <1>3, DupKeeps DEF SysDup
<1>4. CASE SysDup2(p)
  BY <1>1, <1>4, Dup2Keeps DEF SysDup2
<1>5. CASE SysPipe(p)
  BY <1>1, <1>5, PipeCreateKeeps DEF SysPipe
<1>6. CASE SysOpen(p)
  <2>1. PICK fl \in OpenModes : Return(p, OpenFile(tab, p, fl))
    BY <1>6 DEF SysOpen
  <2>2. fl \in SUBSET End
    BY PipeIOAssumption
  <2> QED BY <1>1, <2>1, <2>2, OpenFileKeeps
<1> QED
  BY <1>2, <1>3, <1>4, <1>5, <1>6

(***************************************************************************)
(* Calls that change another's descriptors, and exit.                      *)
(***************************************************************************)
LEMMA SpawnTables ==
    ASSUME NEW T, InOrder(T), NEW p \in Task, NEW c \in Task, p # c, \A f \in Fd : ~IsOpen(T, c, f),
           NEW m \in [0 .. (Consoles - 1) -> Fd \cup {None}]
    PROVE  LET U == CloneMapped(ClearSlots(T, c), p, c, m)
               V == CloseProcess(U, c) IN
           /\ InOrder(U) /\ Spares(T, U, c) /\ Shrinks(T, U)
           /\ InOrder(V) /\ Spares(T, V, c) /\ Shrinks(T, V) /\ \A f \in Fd : ~IsOpen(V, c, f)
<1> DEFINE S == ClearSlots(T, c)
           U == CloneMapped(S, p, c, m)
           V == CloseProcess(U, c)
<1>1. InOrder(S) /\ Spares(T, S, c) /\ Shrinks(T, S)
  BY ClearKeeps, SamePipes
<1>2. InOrder(U) /\ Spares(S, U, c) /\ Shrinks(S, U)
  <2> HIDE DEF S
  <2> QED BY <1>1, CloneMappedKeeps
<1>3. InOrder(V) /\ Spares(U, V, c) /\ Shrinks(U, V) /\ \A f \in Fd : ~IsOpen(V, c, f)
  <2> HIDE DEF U
  <2> QED BY <1>2, CloseProcessKeeps
<1>4. Spares(T, U, c) /\ Shrinks(T, U)
  <2> HIDE DEF S, U
  <2> QED BY <1>1, <1>2, SparesTransitive, ShrinksTransitive
<1>5. Spares(T, V, c) /\ Shrinks(T, V)
  <2> HIDE DEF S, U, V
  <2> QED BY <1>3, <1>4, SparesTransitive, ShrinksTransitive
<1> QED
  BY <1>2, <1>3, <1>4, <1>5

\* The tables and the places a spawn ends with.
Spawns(p, c, U, a) ==
    /\ at[p] = "user" /\ gate = Nobody /\ at[c] = "none" /\ Finish(p, U, "user", a)
    /\ InOrder(U) /\ Spares(tab, U, c) /\ Shrinks(tab, U)
    /\ \/ a = [at EXCEPT ![c] = "user"]
       \/ a = at /\ \A f \in Fd : ~IsOpen(U, c, f)

LEMMA SpawnEffect ==
    ASSUME PipeInv, NEW p \in Task, SysSpawn(p)
    PROVE  \E c \in Task : \E U, a : Spawns(p, c, U, a)
<1>1. PICK c \in Task, m \in [0 .. (Consoles - 1) -> Fd \cup {None}], rp \in BOOLEAN :
          LET T  == CloneMapped(ClearSlots(tab, c), p, c, m)
              ok == rp /\ \A g \in DOMAIN m : m[g] = None \/ IsOpen(tab, p, m[g])
          IN /\ at[c] = "none"
             /\ Finish(p, IF ok THEN T ELSE CloseProcess(T, c), "user",
                       IF ok THEN [at EXCEPT ![c] = "user"] ELSE at)
  BY DEF SysSpawn
<1> DEFINE T  == CloneMapped(ClearSlots(tab, c), p, c, m)
           V  == CloseProcess(T, c)
           ok == rp /\ \A g \in DOMAIN m : m[g] = None \/ IsOpen(tab, p, m[g])
           U  == IF ok THEN T ELSE V
           a  == IF ok THEN [at EXCEPT ![c] = "user"] ELSE at
<1>2. at[c] = "none" /\ Finish(p, U, "user", a)
  BY <1>1
<1>3. gate = Nobody /\ at[p] = "user" /\ p # c
  BY <1>2 DEF SysSpawn, Enter
<1>4. InOrder(tab) /\ \A f \in Fd : ~IsOpen(tab, c, f)
  BY <1>2 DEF PipeInv, FreeIsClosed
<1>5. /\ InOrder(T) /\ Spares(tab, T, c) /\ Shrinks(tab, T)
      /\ InOrder(V) /\ Spares(tab, V, c) /\ Shrinks(tab, V) /\ \A f \in Fd : ~IsOpen(V, c, f)
  BY <1>3, <1>4, SpawnTables
<1> HIDE DEF T, V, ok
<1>6. CASE ok
  <2>1. U = T /\ a = [at EXCEPT ![c] = "user"]
    BY <1>6
  <2> HIDE DEF U, a
  <2>2. Spawns(p, c, U, a)
    BY <1>2, <1>3, <1>5, <2>1 DEF Spawns
  <2> QED BY <2>2
<1>7. CASE ~ok
  <2>1. U = V /\ a = at
    BY <1>7
  <2> HIDE DEF U, a
  <2>2. Spawns(p, c, U, a)
    BY <1>2, <1>3, <1>5, <2>1 DEF Spawns
  <2> QED BY <2>2
<1> QED
  BY <1>6, <1>7

LEMMA SpawnStep ==
    ASSUME PipeInv, NEW p \in Task, SysSpawn(p)
    PROVE  PipeInv'
<1>0. PICK c \in Task : \E U, a : Spawns(p, c, U, a)
  BY SpawnEffect
<1>1. PICK U, a : Spawns(p, c, U, a)
  BY <1>0
<1>2. /\ at[p] = "user" /\ gate = Nobody /\ at[c] = "none" /\ Finish(p, U, "user", a)
      /\ InOrder(U) /\ Spares(tab, U, c)
      /\ \/ a = [at EXCEPT ![c] = "user"]
         \/ a = at /\ \A f \in Fd : ~IsOpen(U, c, f)
  BY <1>1 DEF Spawns
<1>3. at \in [Pid -> Place] /\ p \in Pid /\ c \in Pid /\ call \in [Task -> CallRec] /\ call' = call
  BY Types, Pids DEF PipeInv, SysSpawn
<1>4. a \in [Pid -> Place] /\ (\A q \in Pid : q # c => a[q] = at[q]) /\ a[c] \in {"user", "none"}
      /\ (a[c] = "none" => \A f \in Fd : ~IsOpen(U, c, f))
  BY <1>2, <1>3 DEF Place
<1> QED
  BY <1>2, <1>3, <1>4, FinishStep DEF Waking

LEMMA ExitStep ==
    ASSUME PipeInv, NEW p \in Task, SysExit(p)
    PROVE  PipeInv'
<1> DEFINE U == CloseProcess(tab, p)
<1>1. InOrder(U) /\ Spares(tab, U, p)
  BY CloseProcessKeeps DEF PipeInv
<1>2. gate = Nobody /\ at[p] = "user" /\ Finish(p, U, "dead", at) /\ call' = call
  BY DEF SysExit, Enter
<1>3. at \in [Pid -> Place] /\ p \in Pid /\ call \in [Task -> CallRec]
  BY Types, Pids DEF PipeInv
<1> HIDE DEF U
<1> QED
  BY <1>1, <1>2, <1>3, FinishStep

LEMMA ReapStep ==
    ASSUME PipeInv, NEW p \in Pid, Reap(p)
    PROVE  PipeInv'
<1>1. PICK q \in Task : at[q] = "dead" /\ Finish(p, CloseProcess(tab, q), "user", [at EXCEPT ![q] = "none"])
  BY DEF Reap
<1> DEFINE U == CloseProcess(tab, q)
           a == [at EXCEPT ![q] = "none"]
<1>2. InOrder(U) /\ Spares(tab, U, q) /\ \A f \in Fd : ~IsOpen(U, q, f)
  BY CloseProcessKeeps DEF PipeInv
<1>3. gate = Nobody /\ at[p] = "user" /\ Finish(p, U, "user", a) /\ call' = call
  BY <1>1 DEF Reap
<1>4. at \in [Pid -> Place] /\ q \in Pid /\ call \in [Task -> CallRec]
  BY Types, Pids DEF PipeInv
<1>5. a \in [Pid -> Place] /\ (\A r \in Pid : r # q => a[r] = at[r]) /\ a[q] = "none"
  BY <1>4 DEF Place
<1> HIDE DEF U, a
<1> QED
  BY <1>2, <1>3, <1>4, <1>5, FinishStep DEF Waking

(***************************************************************************)
(* Wakes.                                                                  *)
(***************************************************************************)
LEMMA WakeStartStep ==
    ASSUME PipeInv, NEW p \in Pid, WakeStart(p)
    PROVE  PipeInv'
<1>1. PICK w \in tab.wakes : /\ waker' = [waker EXCEPT !.req = w]
                             /\ scratch' = [reason |-> w.reason, object |-> w.pipe, count |-> MaxProcs - 1]
  BY DEF WakeStart
<1>2. at[p] = "wake" /\ at' = [at EXCEPT ![p] = "scan"] /\ UNCHANGED <<tab, cpu, gate, call>>
  BY DEF WakeStart
<1>3. /\ tab \in Tables /\ cpu \in Pid /\ gate \in Pid \cup {Nobody} /\ at \in [Pid -> Place]
      /\ call \in [Task -> CallRec] /\ waker \in WakerRec /\ scratch \in Scan
  BY Types DEF PipeInv
<1>4. w \in WakeReq
  BY <1>3, FieldTypes
<1>5. scratch' \in Scan
  BY <1>1, <1>4, MaxProcsAssumption DEF WakeReq, Scan
<1>6. waker' \in WakerRec /\ waker'.ret = waker.ret
  BY <1>1, <1>3, <1>4 DEF WakerRec
<1>7. at' \in [Pid -> Place] /\ \A q \in Pid : at'[q] = IF q = p THEN "scan" ELSE at[q]
  BY <1>2, <1>3 DEF Place
<1>8. TypeOK'
  BY <1>2, <1>3, <1>5, <1>6, <1>7, TypesNext
<1>9. FreeIsClosed' /\ InOrder(tab')
  BY <1>2, <1>7, Pids DEF PipeInv, FreeIsClosed
<1>10. WakerOwns' /\ FoundHolds'
  <2>1. ASSUME NEW q \in Pid, at'[q] \in Waking PROVE gate' = q /\ waker'.ret \in {"user", "dead"}
    BY <1>2, <1>6, <1>7, <2>1 DEF PipeInv, WakerOwns, Waking
  <2>2. \A q \in Pid : at'[q] # "store"
    BY <1>2, <1>7, MaxProcsAssumption DEF PipeInv, WakerOwns, Waking, Pid
  <2> QED BY <2>1, <2>2 DEF WakerOwns, FoundHolds
<1>11. WaiterHoldsEnd'
  <2>1. \A q \in Task : at[q] \in Waiting => WaitHolds(tab, q, call[q])
    BY WaitersHold DEF PipeInv
  <2>2. \A q \in Task : at'[q] \in Waiting => at[q] \in Waiting
    BY <1>7, Pids DEF Waiting
  <2>3. \A q \in Task : at'[q] \in Waiting => WaitHolds(tab', q, call'[q])
    BY <1>2, <2>1, <2>2
  <2> QED BY <2>3, WaitersHoldNext
<1> QED
  BY <1>8, <1>9, <1>10, <1>11 DEF PipeInv

\* Fewer wakes to perform: nothing else of the tables changes.
LEMMA FewerWakes ==
    ASSUME NEW T, InOrder(T), NEW rest \in SUBSET T.wakes
    PROVE  LET U == [T EXCEPT !.wakes = rest] IN
           InOrder(U) /\ U.fd = T.fd /\ U.obj = T.obj /\ U.pipe = T.pipe
<1> DEFINE U == [T EXCEPT !.wakes = rest]
<1>1. T \in Tables
  BY DEF InOrder
<1>2. U = [fd |-> T.fd, obj |-> T.obj, pipe |-> T.pipe, wakes |-> rest]
  BY <1>1 DEF Tables
<1>3. U \in Tables
  BY <1>1, <1>2, FieldTypes, TablesFrom
<1>4. U.fd = T.fd /\ U.obj = T.obj /\ U.pipe = T.pipe
  BY <1>2
<1> HIDE DEF U
<1>5. Counted(U)
  BY <1>4 DEF InOrder, Counted, RefsTo
<1>6. Endpoints(U) /\ EndsApart(U) /\ SlotsInUse(U) /\ Rings(U)
  BY <1>4 DEF InOrder, Endpoints, EndsApart, SlotsInUse, Rings, IsOpen
<1>7. InOrder(U)
  BY <1>3, <1>5, <1>6 DEF InOrder
<1> QED
  BY <1>4, <1>7 DEF U

LEMMA WakeDoneStep ==
    ASSUME PipeInv, NEW p \in Pid, at[p] \in {"scan", "store"}, NEW rest \in SUBSET tab.wakes,
           NEW a \in [Pid -> Place],
           \A r \in Pid : a[r] = at[r] \/ (r \in Task /\ a[r] = "retry" /\ WaitHolds(tab, r, call[r])),
           WakeDone(p, rest, a), scratch' \in Scan, UNCHANGED <<cpu, call>>
    PROVE  PipeInv'
<1>1. /\ tab' = [tab EXCEPT !.wakes = rest]
      /\ \/ at' = [a EXCEPT ![p] = waker.ret] /\ gate' = Nobody /\ waker' = NoWaker
         \/ at' = [a EXCEPT ![p] = "wake"] /\ gate' = gate /\ waker' = [waker EXCEPT !.found = Idle]
  BY DEF WakeDone
<1>2. /\ cpu \in Pid /\ gate \in Pid \cup {Nobody} /\ at \in [Pid -> Place]
      /\ call \in [Task -> CallRec] /\ waker \in WakerRec
  BY Types DEF PipeInv
<1>3. InOrder(tab') /\ tab'.fd = tab.fd /\ tab'.obj = tab.obj /\ tab'.pipe = tab.pipe
  BY <1>1, FewerWakes DEF PipeInv
<1>4. gate = p /\ waker.ret \in {"user", "dead"} /\ \A r \in Pid : r # p => at[r] \notin Waking
  BY DEF PipeInv, WakerOwns, Waking
<1>5. /\ at' \in [Pid -> Place] /\ at'[p] \in {"user", "dead", "wake"}
      /\ \A r \in Pid : r # p => at'[r] = a[r]
      /\ at'[p] = "wake" => gate' = gate /\ waker'.ret = waker.ret
  BY <1>1, <1>2, <1>4 DEF Place, WakerRec
<1>6. TypeOK'
  <2>1. NoWaker \in WakerRec /\ [waker EXCEPT !.found = Idle] \in WakerRec
    BY <1>2, Pids DEF NoWaker, Place, WakerRec
  <2>2. tab' \in Tables
    BY <1>3 DEF InOrder
  <2> QED BY <1>1, <1>2, <1>4, <1>5, <2>1, <2>2, TypesNext
<1>7. FreeIsClosed'
  <2>1. \A c \in Task : at'[c] = "none" => at[c] = "none"
    BY <1>5, Pids
  <2> QED BY <1>3, <2>1 DEF PipeInv, FreeIsClosed, IsOpen
<1>8. WakerOwns' /\ FoundHolds'
  <2>1. \A r \in Pid : at'[r] \in Waking => r = p /\ at'[p] = "wake"
    BY <1>4, <1>5 DEF Waking
  <2> QED BY <1>4, <1>5, <2>1 DEF WakerOwns, FoundHolds, Waking
<1>9. WaiterHoldsEnd'
  <2>1. \A r \in Task : at[r] \in Waiting => WaitHolds(tab, r, call[r])
    BY WaitersHold DEF PipeInv
  <2>2. \A r \in Task : at'[r] \in Waiting => WaitHolds(tab, r, call[r])
    BY <1>5, <2>1, Pids DEF Waiting
  <2>3. ASSUME NEW r \in Task, NEW c, WaitHolds(tab, r, c) PROVE WaitHolds(tab', r, c)
    BY <1>3, <2>3 DEF WaitHolds, HoldsEnd
  <2>4. \A r \in Task : at'[r] \in Waiting => WaitHolds(tab', r, call'[r])
    BY <2>2, <2>3
  <2> QED BY <2>4, WaitersHoldNext
<1> QED
  BY <1>3, <1>6, <1>7, <1>8, <1>9 DEF PipeInv

LEMMA WakeScanStep ==
    ASSUME PipeInv, NEW p \in Pid, WakeScan(p)
    PROVE  PipeInv'
<1>1. at[p] = "scan" /\ scratch' = NoScan /\ UNCHANGED <<cpu, call>>
  BY DEF WakeScan
<1>2. /\ tab \in Tables /\ cpu \in Pid /\ gate \in Pid \cup {Nobody} /\ at \in [Pid -> Place]
      /\ call \in [Task -> CallRec] /\ waker \in WakerRec
  BY Types DEF PipeInv
<1>3. scratch' \in Scan
  BY <1>1, MaxProcsAssumption, Sizes DEF NoScan, Scan
<1>4. CASE WakeDone(p, tab.wakes \ {waker.req}, at)
  BY <1>1, <1>2, <1>3, <1>4, WakeDoneStep
<1>5. ASSUME NEW q \in Matching, waker' = [waker EXCEPT !.found = q], at' = [at EXCEPT ![p] = "store"],
             UNCHANGED <<tab, gate>>
      PROVE  PipeInv'
  <2>1. q \in Task /\ q \in Pid /\ at[q] = "blocked"
    BY Pids DEF Matching
  <2>2. waker' \in WakerRec /\ waker'.found = q /\ waker'.ret = waker.ret
    BY <1>2, <1>5, <2>1 DEF WakerRec
  <2>3. at' \in [Pid -> Place] /\ \A r \in Pid : at'[r] = IF r = p THEN "store" ELSE at[r]
    BY <1>2, <1>5 DEF Place
  <2>4. TypeOK'
    BY <1>1, <1>2, <1>3, <1>5, <2>2, <2>3, TypesNext
  <2>5. FreeIsClosed' /\ InOrder(tab')
    BY <1>5, <2>3, Pids DEF PipeInv, FreeIsClosed
  <2>6. WakerOwns'
    <3>1. ASSUME NEW r \in Pid, at'[r] \in Waking PROVE gate' = r /\ waker'.ret \in {"user", "dead"}
      BY <1>1, <1>5, <2>2, <2>3, <3>1 DEF PipeInv, WakerOwns, Waking
    <3> QED BY <3>1 DEF WakerOwns, Waking
  <2>7. \A r \in Task : at[r] \in Waiting => WaitHolds(tab, r, call[r])
    BY WaitersHold DEF PipeInv
  <2>8. FoundHolds'
    BY <1>1, <1>5, <2>1, <2>2, <2>7 DEF FoundHolds, Waiting
  <2>9. WaiterHoldsEnd'
    <3>1. \A r \in Task : at'[r] \in Waiting => at[r] \in Waiting
      BY <2>3, Pids DEF Waiting
    <3>2. \A r \in Task : at'[r] \in Waiting => WaitHolds(tab', r, call'[r])
      BY <1>1, <1>5, <2>7, <3>1
    <3> QED BY <3>2, WaitersHoldNext
  <2> QED
    BY <2>4, <2>5, <2>6, <2>8, <2>9 DEF PipeInv
<1> QED
  BY <1>4, <1>5 DEF WakeScan

LEMMA WakeStoreStep ==
    ASSUME PipeInv, NEW p \in Pid, WakeStore(p)
    PROVE  PipeInv'
<1> DEFINE rest == IF waker.req.all THEN tab.wakes ELSE tab.wakes \ {waker.req}
           a    == [at EXCEPT ![waker.found] = "retry"]
<1>1. at[p] = "store" /\ WakeDone(p, rest, a) /\ UNCHANGED <<cpu, call, scratch>>
  BY DEF WakeStore
<1>2. at \in [Pid -> Place] /\ scratch \in Scan
  BY Types DEF PipeInv
<1>3. waker.found \in Task /\ WaitHolds(tab, waker.found, call[waker.found])
  BY <1>1 DEF PipeInv, FoundHolds
<1>4. a \in [Pid -> Place]
  BY <1>2 DEF Place
<1>5. \A r \in Pid : a[r] = at[r] \/ (r \in Task /\ a[r] = "retry" /\ WaitHolds(tab, r, call[r]))
  BY <1>2, <1>3
<1>6. rest \in SUBSET tab.wakes
  OBVIOUS
<1> HIDE DEF rest, a
<1> QED
  BY <1>1, <1>2, <1>4, <1>5, <1>6, WakeDoneStep

(***************************************************************************)
(* The scheduler.                                                          *)
(***************************************************************************)
LEMMA ScanDistBound ==
    ASSUME NEW c \in Pid, NEW n \in Task PROVE ScanDist(c, n) \in 0 .. (MaxProcs - 2)
  BY MaxProcsAssumption DEF ScanDist, ScanStart, Pid, Task

LEMMA PassEffect ==
    ASSUME NEW a \in [Pid -> Place], cpu \in Pid, NEW r \in {"NONE", "CONSOLE", "PIPE_READ", "PIPE_WRITE"},
           NEW o \in Pipe, Pass(a, r, o)
    PROVE  /\ cpu' \in Pid /\ scratch' \in Scan /\ at' \in [Pid -> Place]
           /\ \A q \in Pid : at'[q] = a[q] \/ (q \in Task /\ a[q] = "blocked" /\ at'[q] = "retry")
<1>1. PICK woken \in {{}} \cup {{q} : q \in {r1 \in Task : a[r1] = "blocked" /\ call[r1].reason = "CONSOLE"}},
           n \in Pid :
          /\ at' = [q \in Pid |-> IF q \in woken THEN "retry" ELSE a[q]]
          /\ cpu' = n
          /\ scratch' = IF ~Scanning THEN NoScan
                        ELSE [reason |-> r, object |-> o,
                              count |-> IF n = Idle THEN 0 ELSE MaxProcs - 1 - ScanDist(cpu, n)]
  BY DEF Pass
<1>2. \A q \in woken : q \in Task /\ a[q] = "blocked"
  <2>1. \A W \in {{}} \cup {{q} : q \in {r1 \in Task : a[r1] = "blocked" /\ call[r1].reason = "CONSOLE"}} :
          \A q \in W : q \in Task /\ a[q] = "blocked"
    OBVIOUS
  <2> QED BY <2>1, Zenon
<1>3. at' \in [Pid -> Place] /\ \A q \in Pid : at'[q] = a[q] \/ (q \in Task /\ a[q] = "blocked" /\ at'[q] = "retry")
  BY <1>1, <1>2 DEF Place
<1>4. NoScan \in Scan
  BY MaxProcsAssumption, Sizes DEF NoScan, Scan
<1> DEFINE d == IF n = Idle THEN 0 ELSE MaxProcs - 1 - ScanDist(cpu, n)
<1>5. d \in 0 .. (MaxProcs - 1)
  <2>1. n # Idle => ScanDist(cpu, n) \in 0 .. (MaxProcs - 2)
    BY ScanDistBound, Pids
  <2> QED BY <2>1, MaxProcsAssumption
<1>6. scratch' = NoScan \/ scratch' = [reason |-> r, object |-> o, count |-> d]
  BY <1>1
<1> HIDE DEF d
<1>7. scratch' \in Scan
  BY <1>4, <1>5, <1>6 DEF Scan
<1> QED
  BY <1>1, <1>3, <1>7

LEMMA SchedulerSteps ==
    ASSUME PipeInv, Preempt \/ \E p \in Task : Block(p) \/ Kill(p)
    PROVE  PipeInv'
<1>1. /\ cpu \in Pid /\ at \in [Pid -> Place] /\ call \in [Task -> CallRec] /\ scratch \in Scan
  BY Types DEF PipeInv
<1>2. scratch.reason \in {"NONE", "CONSOLE", "PIPE_READ", "PIPE_WRITE"} /\ scratch.object \in Pipe
  BY <1>1 DEF Scan
<1>3. CASE Preempt
  <2>1. /\ cpu' \in Pid /\ scratch' \in Scan /\ at' \in [Pid -> Place]
        /\ \A q \in Pid : at'[q] = at[q] \/ (q \in Task /\ at[q] = "blocked" /\ at'[q] = "retry")
    BY <1>1, <1>2, <1>3, PassEffect DEF Preempt
  <2>2. UNCHANGED <<tab, gate, call, waker>>
    BY <1>3 DEF Preempt
  <2>3. \A q \in Pid : /\ at'[q] = "none" => at[q] = "none"
                       /\ at'[q] \in Waking => at'[q] = at[q]
                       /\ at'[q] \in Waiting => at[q] \in Waiting
    BY <2>1 DEF Waiting, Waking
  <2> QED BY <1>1, <2>1, <2>2, <2>3, QuietStep, Pids
<1>4. ASSUME NEW p \in Task, Block(p) PROVE PipeInv'
  <2> DEFINE a == [at EXCEPT ![p] = "blocked"]
  <2>1. a \in [Pid -> Place] /\ at[p] = "block" /\ \A q \in Pid : a[q] = IF q = p THEN "blocked" ELSE at[q]
    BY <1>1, <1>4, Pids DEF Place, Block
  <2>2. call[p] \in CallRec
    BY <1>1
  <2>3. call[p].reason \in {"NONE", "CONSOLE", "PIPE_READ", "PIPE_WRITE"} /\ call[p].object \in Pipe
    BY <2>2 DEF CallRec
  <2>4. Pass(a, call[p].reason, call[p].object) /\ UNCHANGED <<tab, gate, call, waker>>
    BY <1>4 DEF Block
  <2> HIDE DEF a
  <2>5. /\ cpu' \in Pid /\ scratch' \in Scan /\ at' \in [Pid -> Place]
        /\ \A q \in Pid : at'[q] = a[q] \/ (q \in Task /\ a[q] = "blocked" /\ at'[q] = "retry")
    BY <1>1, <2>1, <2>3, <2>4, PassEffect
  <2>6. \A q \in Pid : /\ at'[q] = "none" => at[q] = "none"
                       /\ at'[q] \in Waking => at'[q] = at[q]
                       /\ at'[q] \in Waiting => at[q] \in Waiting
    BY <2>1, <2>5 DEF Waiting, Waking
  <2> QED BY <1>1, <2>4, <2>5, <2>6, QuietStep, Pids
<1>5. ASSUME NEW p \in Task, Kill(p) PROVE PipeInv'
  <2> DEFINE a == [at EXCEPT ![p] = "dead"]
  <2>1. a \in [Pid -> Place] /\ \A q \in Pid : a[q] = IF q = p THEN "dead" ELSE at[q]
    BY <1>1, Pids DEF Place
  <2>2. /\ call' = IF waker.found = p THEN call ELSE [call EXCEPT ![p] = NoCall]
        /\ UNCHANGED <<tab, gate, waker>>
        /\ Pass(a, scratch.reason, scratch.object) \/ (at' = a /\ UNCHANGED <<cpu, scratch>>)
    BY <1>5 DEF Kill
  <2> HIDE DEF a
  <2>3. /\ cpu' \in Pid /\ scratch' \in Scan /\ at' \in [Pid -> Place]
        /\ \A q \in Pid : at'[q] = a[q] \/ (q \in Task /\ a[q] = "blocked" /\ at'[q] = "retry")
    BY <1>1, <1>2, <2>1, <2>2, PassEffect
  <2>4. /\ call' \in [Task -> CallRec]
        /\ \A q \in Task : q # p \/ q = waker.found => call'[q] = call[q]
    BY <1>1, <2>2, NoCallType
  <2>5. \A q \in Pid : /\ at'[q] = "none" => at[q] = "none"
                       /\ at'[q] \in Waking => at'[q] = at[q]
                       /\ at'[q] \in Waiting => at[q] \in Waiting /\ q # p
    BY <2>1, <2>3 DEF Waiting, Waking
  <2> QED BY <2>2, <2>3, <2>4, <2>5, QuietStep, Pids
<1> QED
  BY <1>3, <1>4, <1>5

(***************************************************************************)
(* The invariant.                                                          *)
(***************************************************************************)
LEMMA InitInv == Init => PipeInv
<1> SUFFICES ASSUME Init PROVE PipeInv
  OBVIOUS
<1>1. IoTasks \in SUBSET Task /\ (BootPipes > 0 => {1, 2} \subseteq IoTasks)
  BY PipeIOAssumption
<1>2. InOrder(tab) /\ \A p \in Task, f \in Fd : p \notin IoTasks => ~IsOpen(tab, p, f)
  BY <1>1, BootInOrder DEF Init
<1>3. /\ at \in [Pid -> Place] /\ \A q \in Pid : at[q] = IF q \in IoTasks \cup {Idle} THEN "user" ELSE "none"
  BY DEF Init, Place
<1>4. TypeOK
  <2>1. NoWaker \in WakerRec /\ NoScan \in Scan
    BY MaxProcsAssumption, Sizes, Pids DEF NoWaker, Place, NoScan, Scan, WakerRec, NoReq
  <2>2. tab \in Tables /\ cpu \in Pid
    BY <1>1, <1>2, Pids DEF InOrder, Init
  <2> QED BY <1>3, <2>1, <2>2, NoCallType, Types DEF Init
<1>5. FreeIsClosed
  BY <1>2, <1>3, Pids DEF FreeIsClosed
<1>6. WakerOwns /\ FoundHolds
  BY <1>3 DEF WakerOwns, FoundHolds, Waking
<1>7. WaiterHoldsEnd
  BY <1>3, Pids, WaitersHold DEF Waiting
<1> QED
  BY <1>2, <1>4, <1>5, <1>6, <1>7 DEF PipeInv

LEMMA NextInv == PipeInv /\ [Next]_vars => PipeInv'
<1> SUFFICES ASSUME PipeInv, [Next]_vars PROVE PipeInv'
  OBVIOUS
<1>1. CASE UNCHANGED vars
  <2>1. UNCHANGED <<tab, cpu, gate, at, call, waker, scratch>>
    BY <1>1 DEF vars
  <2>2. /\ cpu \in Pid /\ at \in [Pid -> Place] /\ call \in [Task -> CallRec] /\ scratch \in Scan
    BY Types DEF PipeInv
  <2> QED BY <2>1, <2>2, QuietStep
<1>2. CASE Next
  BY <1>2, TransferCalls, OwnCalls, SpawnStep, ExitStep, SchedulerSteps, ReapStep, WakeStartStep, WakeScanStep,
     WakeStoreStep DEF Next
<1> QED
  BY <1>1, <1>2

LEMMA PipeInvariant == Spec => []PipeInv
  BY InitInv, NextInv, PTL DEF Spec

(***************************************************************************)
(* The types of the variables, through every call, wake and scheduler      *)
(* pass.                                                                   *)
(***************************************************************************)
THEOREM PipeTypes == Spec => []TypeOK
<1>1. PipeInv => TypeOK
  BY DEF PipeInv
<1> QED
  BY <1>1, PipeInvariant, PTL

(***************************************************************************)
(* open_refcnt is the number of descriptors that refer to the object,      *)
(* whatever dup, dup2, pipe, open, spawn with its rollback, close, exit,   *)
(* KILL and reaping did to them (fd.asm).                                  *)
(***************************************************************************)
THEOREM ReferencesCounted == Spec => []RefsCounted
<1>1. PipeInv => RefsCounted
  BY DEF PipeInv, InOrder, Counted, RefsTo, RefsCounted
<1> QED
  BY <1>1, PipeInvariant, PTL

(***************************************************************************)
(* No descriptor dangles: its object is in use, a pipe end it refers to is *)
(* open and is nobody else's object, and it permits just that direction.   *)
(***************************************************************************)
THEOREM NoneDangles == Spec => []SlotsValid
<1>1. ASSUME PipeInv PROVE SlotsValid
  <2> SUFFICES ASSUME NEW p \in Task, NEW f \in Fd, IsOpen(tab, p, f)
               PROVE  LET o == tab.fd[p][f].obj
                          x == tab.obj[o]
                      IN /\ x.type # "NONE"
                         /\ x.type = "PIPE" =>
                               /\ x.pipe # None /\ x.end \in tab.pipe[x.pipe].ends
                               /\ tab.fd[p][f].flags = {x.end}
                               /\ \A q \in Obj \ {o} : tab.obj[q].pipe # x.pipe \/ tab.obj[q].end # x.end
    BY DEF SlotsValid
  <2> DEFINE o == tab.fd[p][f].obj
  <2>1. InOrder(tab)
    BY <1>1 DEF PipeInv
  <2>2. o \in Obj
    BY <2>1, OpenSlot
  <2>3. tab.obj[o].type # "NONE" /\ (tab.obj[o].type = "PIPE" => tab.fd[p][f].flags = {tab.obj[o].end})
    BY <2>1 DEF InOrder, SlotsInUse
  <2>4. tab.obj[o].type = "PIPE" => tab.obj[o].pipe # None /\ tab.obj[o].end \in tab.pipe[tab.obj[o].pipe].ends
    BY <2>1, <2>2 DEF InOrder, Endpoints
  <2>5. tab.obj[o].type = "PIPE" =>
          \A q \in Obj \ {o} : tab.obj[q].pipe # tab.obj[o].pipe \/ tab.obj[q].end # tab.obj[o].end
    BY <2>1, <2>2 DEF InOrder, EndsApart
  <2> QED BY <2>3, <2>4, <2>5
<1> QED
  BY <1>1, PipeInvariant, PTL

(***************************************************************************)
(* From the moment ksys_io_block is entered until the retry the caller's   *)
(* descriptor is the end of the pipe that wait_object names, whatever the  *)
(* other processes open, close, spawn or reap in between.                  *)
(***************************************************************************)
THEOREM WaitersKeepTheirEnd == Spec => []WaiterHoldsEnd
<1>1. PipeInv => WaiterHoldsEnd
  BY DEF PipeInv
<1> QED
  BY <1>1, PipeInvariant, PTL

(***************************************************************************)
(* The pipes are bounded FIFOs.                                            *)
(***************************************************************************)
EndsOf(T)  == [k \in Pipe |-> T.pipe[k].ends]
QueueOf(T) == [k \in Pipe |-> Content(T.pipe[k])]

LEMMA ContentIs ==
    ASSUME NEW r \in Ring
    PROVE  /\ Content(r) \in Seq(Byte) /\ Len(Content(r)) = r.count /\ r.count \in 0 .. PipeBufSize
           /\ \A i \in 1 .. r.count : Content(r)[i] = r.buf[Advance(r.tail, i - 1)]
           /\ r.count = 0 => Content(r) = << >>
<1>1. r.count \in 0 .. PipeBufSize /\ r.tail \in Index /\ r.buf \in [Index -> Byte]
  BY DEF Ring
<1>2. ASSUME NEW i \in 1 .. r.count PROVE r.buf[Advance(r.tail, i - 1)] \in Byte
  <2>1. i - 1 \in 0 .. PipeBufSize
    BY <1>1, Sizes
  <2>2. Advance(r.tail, i - 1) \in Index
    BY <1>1, <2>1, Wraps
  <2> QED BY <1>1, <2>2
<1>3. r.count \in Nat
  BY <1>1, Sizes
<1>4. Content(r) \in [1 .. r.count -> Byte]
  BY <1>2 DEF Content
<1>5. Content(r) \in Seq(Byte) /\ Len(Content(r)) = r.count
  BY <1>3, <1>4
<1>6. r.count = 0 => Content(r) = << >>
  BY <1>5
<1> QED
  BY <1>1, <1>5, <1>6 DEF Content

LEMMA SameContent ==
    ASSUME NEW r, NEW q, r.tail = q.tail, r.count = q.count, r.buf = q.buf
    PROVE  Content(r) = Content(q)
  BY DEF Content

\* What a read and a write do to pipe k.
Taken(T, U, k) ==
    /\ "R" \in T.pipe[k].ends /\ Transfers(T, U, k)
    /\ \E m \in 1 .. T.pipe[k].count : /\ U.pipe[k].tail = Advance(T.pipe[k].tail, m)
                                       /\ U.pipe[k].count = T.pipe[k].count - m
                                       /\ U.pipe[k].buf = T.pipe[k].buf

Filled(T, U, k) ==
    /\ T.pipe[k].ends = End /\ Transfers(T, U, k)
    /\ \E s \in Seq(Byte), m \in 1 .. (PipeBufSize - T.pipe[k].count) :
          /\ m <= Len(s)
          /\ U.pipe[k].tail = T.pipe[k].tail /\ U.pipe[k].count = T.pipe[k].count + m
          /\ \A j \in 1 .. m : U.pipe[k].buf[Advance(T.pipe[k].head, j - 1)] = s[j]
          /\ \A i \in Index : (\A j \in 1 .. m : i # Advance(T.pipe[k].head, j - 1)) =>
                                 U.pipe[k].buf[i] = T.pipe[k].buf[i]

\* A write to a pipe with room and both ends open fills the ring.
LEMMA WriteFills ==
    ASSUME NEW T, InOrder(T), NEW k \in Pipe, NEW s \in Seq(Byte), s # << >>,
           T.pipe[k].count # PipeBufSize, T.pipe[k].ends = End
    PROVE  Filled(T, WriteRing(T, k, s), k)
<1> DEFINE U == WriteRing(T, k, s)
<1>1. T.pipe[k].ends # {}
  BY DEF End
<1>2. /\ Transfers(T, U, k)
      /\ \E m \in 1 .. (PipeBufSize - T.pipe[k].count) :
            /\ m <= Len(s)
            /\ U.pipe[k].tail = T.pipe[k].tail /\ U.pipe[k].count = T.pipe[k].count + m
            /\ \A j \in 1 .. m : U.pipe[k].buf[Advance(T.pipe[k].head, j - 1)] = s[j]
            /\ \A i \in Index : (\A j \in 1 .. m : i # Advance(T.pipe[k].head, j - 1)) =>
                                   U.pipe[k].buf[i] = T.pipe[k].buf[i]
  BY <1>1, WriteEffect, SMTT(60)
<1> HIDE DEF U
<1>3. Filled(T, U, k)
  BY <1>2 DEF Filled
<1> QED BY <1>3 DEF U

LEMMA CloseRefines ==
    ASSUME NEW T, NEW U, InOrder(T), InOrder(U), Shrinks(T, U)
    PROVE  /\ EndsOf(U) \in [Pipe -> SUBSET {"R", "W"}]
           /\ \A k \in Pipe : EndsOf(U)[k] \subseteq EndsOf(T)[k]
           /\ QueueOf(U) = [k \in Pipe |-> IF EndsOf(U)[k] = {} THEN << >> ELSE QueueOf(T)[k]]
<1>1. U \in Tables /\ U.pipe \in [Pipe -> Ring]
  BY FieldTypes DEF InOrder
<1>2. EndsOf(U) \in [Pipe -> SUBSET {"R", "W"}]
  BY <1>1 DEF EndsOf, Ring, End
<1>3. \A k \in Pipe : EndsOf(U)[k] \subseteq EndsOf(T)[k]
  BY DEF EndsOf, Shrinks
<1>4. ASSUME NEW k \in Pipe
      PROVE  Content(U.pipe[k]) = IF U.pipe[k].ends = {} THEN << >> ELSE Content(T.pipe[k])
  <2>1. CASE U.pipe[k].ends = {}
    <3>1. U.pipe[k].count = 0 /\ U.pipe[k] \in Ring
      BY <1>1, <2>1 DEF InOrder, Rings
    <3> QED BY <2>1, <3>1, ContentIs
  <2>2. CASE U.pipe[k].ends # {}
    BY <2>2, SameContent DEF Shrinks
  <2> QED BY <2>1, <2>2
<1>5. QueueOf(U) = [k \in Pipe |-> IF EndsOf(U)[k] = {} THEN << >> ELSE QueueOf(T)[k]]
  BY <1>4 DEF QueueOf, EndsOf
<1> QED
  BY <1>2, <1>3, <1>5

LEMMA CreateRefines ==
    ASSUME NEW T, NEW U, InOrder(T), InOrder(U), Creates(T, U)
    PROVE  \E k \in Pipe : /\ EndsOf(T)[k] = {} /\ EndsOf(U) = [EndsOf(T) EXCEPT ![k] = {"R", "W"}]
                           /\ QueueOf(U) = QueueOf(T)
<1>1. PICK k \in FreePipes(T) : /\ U.pipe[k].ends = End /\ U.pipe[k].count = 0
                                /\ \A j \in Pipe : j # k => U.pipe[j] = T.pipe[j]
  BY DEF Creates
<1>2. k \in Pipe /\ T.pipe[k].ends = {}
  BY DEF FreePipes
<1>3. T.pipe[k] \in Ring /\ U.pipe[k] \in Ring
  BY <1>2, FieldTypes DEF InOrder
<1>4. Content(U.pipe[k]) = Content(T.pipe[k])
  <2>1. T.pipe[k].count = 0
    BY <1>2 DEF InOrder, Rings
  <2> QED BY <1>1, <1>3, <2>1, ContentIs
<1>5. \A j \in Pipe : Content(U.pipe[j]) = Content(T.pipe[j])
  BY <1>1, <1>4
<1>6. QueueOf(U) = QueueOf(T)
  BY <1>5 DEF QueueOf
<1>7. EndsOf(T)[k] = {} /\ EndsOf(U) = [EndsOf(T) EXCEPT ![k] = {"R", "W"}]
  BY <1>1, <1>2 DEF EndsOf, End
<1> QED
  BY <1>2, <1>6, <1>7

LEMMA TakeRefines ==
    ASSUME NEW T, NEW U, InOrder(T), InOrder(U), NEW k \in Pipe, Taken(T, U, k)
    PROVE  /\ "R" \in EndsOf(T)[k] /\ EndsOf(U) = EndsOf(T)
           /\ \E n \in 1 .. Len(QueueOf(T)[k]) :
                 QueueOf(U) = [QueueOf(T) EXCEPT ![k] = SubSeq(@, n + 1, Len(@))]
<1> DEFINE r == T.pipe[k]
           q == U.pipe[k]
           s == Content(r)
<1>1. PICK m \in 1 .. r.count : q.tail = Advance(r.tail, m) /\ q.count = r.count - m /\ q.buf = r.buf
  BY DEF Taken
<1>2. /\ \A j \in Pipe : j # k => U.pipe[j] = T.pipe[j]
      /\ q.ends = r.ends /\ "R" \in r.ends
  BY DEF Taken, Transfers
<1>3. r \in Ring /\ q \in Ring
  BY FieldTypes DEF InOrder
<1>4. r.count \in 0 .. PipeBufSize /\ r.tail \in Index /\ PipeBufSize \in Nat /\ r.count \in Nat /\ m \in Nat
  BY <1>3, Sizes DEF Ring
<1>5. /\ s \in Seq(Byte) /\ Len(s) = r.count
      /\ \A i \in 1 .. r.count : s[i] = r.buf[Advance(r.tail, i - 1)]
  BY <1>3, ContentIs
<1>6. /\ Content(q) \in Seq(Byte) /\ Len(Content(q)) = q.count
      /\ \A i \in 1 .. q.count : Content(q)[i] = q.buf[Advance(q.tail, i - 1)]
  BY <1>3, ContentIs
<1> HIDE DEF s, q, r
<1>7. /\ SubSeq(s, m + 1, Len(s)) \in Seq(Byte)
      /\ Len(SubSeq(s, m + 1, Len(s))) = r.count - m
      /\ \A i \in 1 .. (r.count - m) : SubSeq(s, m + 1, Len(s))[i] = s[m + i]
  <2>1. \A i \in (m + 1) .. Len(s) : s[i] \in Byte
    BY <1>4, <1>5, ElementOfSeq
  <2>2. m + 1 \in Int /\ Len(s) \in Int
    BY <1>4, <1>5
  <2>3. /\ SubSeq(s, m + 1, Len(s)) \in Seq(Byte)
        /\ Len(SubSeq(s, m + 1, Len(s))) = IF m + 1 <= Len(s) THEN Len(s) - (m + 1) + 1 ELSE 0
        /\ \A i \in 1 .. Len(s) - (m + 1) + 1 : SubSeq(s, m + 1, Len(s))[i] = s[(m + 1) + i - 1]
    BY <2>1, <2>2, SubSeqProperties
  <2>4. Len(SubSeq(s, m + 1, Len(s))) = r.count - m
    BY <1>1, <1>4, <1>5, <2>3
  <2>5. \A i \in 1 .. (r.count - m) : i \in 1 .. Len(s) - (m + 1) + 1 /\ (m + 1) + i - 1 = m + i
    BY <1>1, <1>4, <1>5
  <2> QED BY <2>3, <2>4, <2>5
<1>8. ASSUME NEW i \in 1 .. q.count PROVE Content(q)[i] = s[m + i]
  <2>1. i \in Nat /\ i >= 1 /\ i <= r.count - m /\ m >= 1 /\ m <= r.count /\ r.count <= PipeBufSize
    BY <1>1, <1>4
  <2>2. m \in 0 .. PipeBufSize /\ i - 1 \in 0 .. PipeBufSize /\ m + (i - 1) <= PipeBufSize
    BY <1>4, <2>1
  <2>3. Advance(Advance(r.tail, m), i - 1) = Advance(r.tail, m + (i - 1))
    BY <1>4, <2>2, AdvanceTwice
  <2>4. m + i \in 1 .. r.count /\ (m + i) - 1 = m + (i - 1)
    BY <1>4, <2>1
  <2>5. s[m + i] = r.buf[Advance(r.tail, m + (i - 1))]
    BY <1>5, <2>4
  <2> QED BY <1>1, <1>6, <2>3, <2>5
<1>9. Content(q) = SubSeq(s, m + 1, Len(s))
  <2> DEFINE t == SubSeq(s, m + 1, Len(s))
             u == Content(q)
  <2>1. u \in Seq(Byte) /\ t \in Seq(Byte) /\ Len(u) = Len(t)
    BY <1>1, <1>6, <1>7
  <2>2. \A i \in 1 .. Len(u) : u[i] = t[i]
    BY <1>1, <1>6, <1>7, <1>8
  <2> HIDE DEF t, u
  <2>3. u = t
    BY <2>1, <2>2, SeqEqual
  <2> QED BY <2>3 DEF t, u
<1>10. QueueOf(T)[k] = s
  BY DEF QueueOf, s, r
<1>11. QueueOf(U) = [QueueOf(T) EXCEPT ![k] = SubSeq(s, m + 1, Len(s))]
  BY <1>2, <1>9 DEF QueueOf, q
<1>12. EndsOf(U) = EndsOf(T) /\ "R" \in EndsOf(T)[k]
  BY <1>2 DEF EndsOf, q, r
<1>13. m \in 1 .. Len(QueueOf(T)[k])
  BY <1>5, <1>10
<1> QED
  BY <1>10, <1>11, <1>12, <1>13

LEMMA PutRefines ==
    ASSUME NEW T, NEW U, InOrder(T), InOrder(U), NEW k \in Pipe, Filled(T, U, k)
    PROVE  /\ EndsOf(T)[k] = {"R", "W"} /\ EndsOf(U) = EndsOf(T)
           /\ \E m \in 1 .. (PipeBufSize - Len(QueueOf(T)[k])) : \E s \in [1 .. m -> Byte] :
                 QueueOf(U) = [QueueOf(T) EXCEPT ![k] = @ \o s]
<1> DEFINE r == T.pipe[k]
           q == U.pipe[k]
           c == Content(r)
<1>1. PICK s \in Seq(Byte), m \in 1 .. (PipeBufSize - r.count) :
          /\ m <= Len(s) /\ q.tail = r.tail /\ q.count = r.count + m
          /\ \A j \in 1 .. m : q.buf[Advance(r.head, j - 1)] = s[j]
          /\ \A i \in Index : (\A j \in 1 .. m : i # Advance(r.head, j - 1)) => q.buf[i] = r.buf[i]
  BY DEF Filled
<1>2. /\ \A j \in Pipe : j # k => U.pipe[j] = T.pipe[j]
      /\ q.ends = r.ends /\ r.ends = End
  BY DEF Filled, Transfers
<1>3. r \in Ring /\ q \in Ring /\ r.head = Advance(r.tail, r.count)
  BY FieldTypes DEF InOrder, Rings
<1>4. r.count \in 0 .. PipeBufSize /\ r.tail \in Index /\ PipeBufSize \in Nat /\ r.count \in Nat /\ m \in Nat
  BY <1>3, Sizes DEF Ring
<1>5. /\ c \in Seq(Byte) /\ Len(c) = r.count
      /\ \A i \in 1 .. r.count : c[i] = r.buf[Advance(r.tail, i - 1)]
  BY <1>3, ContentIs
<1>6. /\ Content(q) \in Seq(Byte) /\ Len(Content(q)) = q.count
      /\ \A i \in 1 .. q.count : Content(q)[i] = q.buf[Advance(q.tail, i - 1)]
  BY <1>3, ContentIs
<1> HIDE DEF c, q, r
<1> DEFINE t == [j \in 1 .. m |-> s[j]]
<1>7. t \in [1 .. m -> Byte] /\ t \in Seq(Byte) /\ Len(t) = m /\ \A j \in 1 .. m : t[j] = s[j]
  <2>1. Len(s) \in Nat
    BY LenProperties
  <2>2. \A j \in 1 .. m : s[j] \in Byte
    BY <1>1, <1>4, <2>1, ElementOfSeq
  <2>3. t \in [1 .. m -> Byte]
    BY <2>2
  <2> QED BY <1>4, <2>3
<1> HIDE DEF t
<1>8. /\ c \o t \in Seq(Byte) /\ Len(c \o t) = r.count + m
      /\ \A i \in 1 .. r.count + m : (c \o t)[i] = IF i <= r.count THEN c[i] ELSE t[i - r.count]
  <2>1. /\ c \o t \in Seq(Byte) /\ Len(c \o t) = Len(c) + Len(t)
        /\ \A i \in 1 .. Len(c) + Len(t) : (c \o t)[i] = IF i <= Len(c) THEN c[i] ELSE t[i - Len(c)]
    BY <1>5, <1>7, ConcatProperties
  <2>2. Len(c) = r.count /\ Len(t) = m
    BY <1>5, <1>7
  <2> QED BY <2>1, <2>2
<1>9. ASSUME NEW i \in 1 .. r.count PROVE Content(q)[i] = c[i]
  <2>1. i \in Nat /\ i >= 1 /\ i <= r.count /\ m >= 1 /\ r.count + m <= PipeBufSize
    BY <1>1, <1>4
  <2>2. i \in 1 .. q.count /\ i - 1 \in 0 .. PipeBufSize /\ i - 1 \in 0 .. (PipeBufSize - 1)
    BY <1>1, <1>4, <2>1
  <2>3. Advance(r.tail, i - 1) \in Index
    BY <1>4, <2>2, Wraps
  <2>4. ASSUME NEW j \in 1 .. m, Advance(r.tail, i - 1) = Advance(r.head, j - 1) PROVE FALSE
    <3>1. /\ j - 1 \in 0 .. PipeBufSize /\ r.count + (j - 1) \in 0 .. (PipeBufSize - 1)
          /\ r.count + (j - 1) <= PipeBufSize /\ r.count + (j - 1) # i - 1
      BY <1>4, <2>1
    <3>2. Advance(r.head, j - 1) = Advance(r.tail, r.count + (j - 1))
      BY <1>3, <1>4, <3>1, AdvanceTwice
    <3>3. i - 1 = r.count + (j - 1)
      BY <1>4, <2>2, <2>4, <3>1, <3>2, PlacesDiffer
    <3> QED BY <3>1, <3>3
  <2>5. q.buf[Advance(r.tail, i - 1)] = r.buf[Advance(r.tail, i - 1)]
    BY <1>1, <2>3, <2>4
  <2> QED BY <1>1, <1>5, <1>6, <2>2, <2>5
<1>10. ASSUME NEW j \in 1 .. m PROVE Content(q)[r.count + j] = t[j]
  <2>1. j \in Nat /\ j >= 1 /\ j <= m /\ r.count + m <= PipeBufSize
    BY <1>1, <1>4
  <2>2. /\ r.count + j \in 1 .. q.count /\ j - 1 \in 0 .. PipeBufSize
        /\ r.count + (j - 1) <= PipeBufSize /\ (r.count + j) - 1 = r.count + (j - 1)
    BY <1>1, <1>4, <2>1
  <2>3. Advance(r.head, j - 1) = Advance(r.tail, r.count + (j - 1))
    BY <1>3, <1>4, <2>2, AdvanceTwice
  <2>4. Content(q)[r.count + j] = q.buf[Advance(r.tail, r.count + (j - 1))]
    BY <1>1, <1>6, <2>2
  <2> QED BY <1>1, <1>7, <2>3, <2>4
<1>11. Content(q) = c \o t
  <2> DEFINE u == c \o t
             v == Content(q)
  <2>1. u \in Seq(Byte) /\ v \in Seq(Byte) /\ Len(v) = Len(u)
    BY <1>1, <1>6, <1>8
  <2>2. ASSUME NEW i \in 1 .. Len(v) PROVE v[i] = u[i]
    <3>1. i \in 1 .. r.count + m
      BY <1>1, <1>6
    <3>2. CASE i <= r.count
      <4>1. i \in 1 .. r.count
        BY <1>4, <3>1, <3>2
      <4> QED BY <1>8, <1>9, <3>1, <3>2, <4>1
    <3>3. CASE ~(i <= r.count)
      <4>1. i - r.count \in 1 .. m /\ r.count + (i - r.count) = i
        BY <1>4, <3>1, <3>3
      <4> QED BY <1>8, <1>10, <3>1, <3>3, <4>1
    <3> QED BY <3>2, <3>3
  <2> HIDE DEF u, v
  <2>3. v = u
    BY <2>1, <2>2, SeqEqual
  <2> QED BY <2>3 DEF u, v
<1>12. QueueOf(T)[k] = c
  BY DEF QueueOf, c, r
<1>13. QueueOf(U) = [QueueOf(T) EXCEPT ![k] = c \o t]
  BY <1>2, <1>11 DEF QueueOf, q
<1>14. EndsOf(U) = EndsOf(T) /\ EndsOf(T)[k] = {"R", "W"}
  BY <1>2 DEF EndsOf, q, r, End
<1>15. m \in 1 .. (PipeBufSize - Len(QueueOf(T)[k]))
  BY <1>5, <1>12
<1>16. QueueOf(U) = [QueueOf(T) EXCEPT ![k] = @ \o t]
  BY <1>12, <1>13
<1>17. \E x \in [1 .. m -> Byte] : QueueOf(U) = [QueueOf(T) EXCEPT ![k] = @ \o x]
  BY <1>7, <1>16
<1> QED
  BY <1>14, <1>15, <1>17

(***************************************************************************)
(* Every step of the calls is one of these moves of the pipes.             *)
(***************************************************************************)
Moves(T, U) == Shrinks(T, U) \/ Creates(T, U) \/ \E k \in Pipe : Taken(T, U, k) \/ Filled(T, U, k)

LEMMA StillMoves ==
    ASSUME NEW T, NEW U, U.pipe = T.pipe PROVE Moves(T, U)
  BY SamePipes DEF Moves

LEMMA FinishTab ==
    ASSUME NEW p, NEW T, NEW l, NEW a, Finish(p, T, l, a) PROVE tab' = T
  BY DEF Finish

\* An end a descriptor stands for is open.
LEMMA OnPipeOpen ==
    ASSUME PipeInv, NEW p \in Task, NEW c \in CallRec, NEW e, OnPipe(p, c, e)
    PROVE  e \in RingOf(p, c).ends
<1>1. c.fd \in Fd /\ tab \in Tables
  BY Types DEF CallRec, PipeInv
<1>2. SlotOf(p, c) \in Slot
  BY <1>1, FieldTypes DEF SlotOf
<1>3. SlotOf(p, c).obj \in Obj
  BY <1>2 DEF Slot, OnPipe, Allows
<1> QED
  BY <1>3 DEF PipeInv, InOrder, Endpoints, OnPipe, ObjOf, RingOf

LEMMA ReadMoves ==
    ASSUME PipeInv, NEW p \in Task, NEW c \in CallRec, AttemptRead(p, c)
    PROVE  Moves(tab, tab')
<1>1. CASE tab' = tab
  BY <1>1, StillMoves
<1>2. CASE /\ OnPipe(p, c, "R") /\ c.len > 0 /\ RingOf(p, c).count > 0
           /\ Return(p, ReadRing(tab, ObjOf(p, c).pipe, c.len))
  <2> DEFINE k == ObjOf(p, c).pipe
             U == ReadRing(tab, k, c.len)
  <2>1. k \in Pipe /\ tab.pipe[k].count > 0 /\ tab.pipe[k].ends # {} /\ "R" \in tab.pipe[k].ends
    BY <1>2, EndFacts, OnPipeOpen
  <2>2. c.len \in Nat \ {0}
    <3>1. Lens \subseteq Nat
      BY PipeIOAssumption
    <3>2. c.len \in Lens /\ c.len > 0
      BY <1>2 DEF CallRec
    <3>3. \A n \in Lens : n > 0 => n \in Nat \ {0}
      BY <3>1
    <3> QED BY <3>2, <3>3, Zenon
  <2>3. InOrder(tab)
    BY DEF PipeInv
  <2>4. tab' = U
    BY <1>2, FinishTab DEF Return
  <2> HIDE DEF k
  <2>5. Taken(tab, U, k)
    BY <2>1, <2>2, <2>3, ReadEffect DEF Taken
  <2> HIDE DEF U
  <2> QED BY <2>1, <2>4, <2>5 DEF Moves
<1> QED
  BY <1>1, <1>2, FinishTab DEF AttemptRead, Return, MustWait

LEMMA WriteMoves ==
    ASSUME PipeInv, NEW p \in Task, NEW c \in CallRec, AttemptWrite(p, c)
    PROVE  Moves(tab, tab')
<1>1. CASE tab' = tab
  BY <1>1, StillMoves
<1>2. CASE /\ OnPipe(p, c, "W") /\ c.text # << >> /\ RingOf(p, c).count # PipeBufSize
           /\ "R" \in RingOf(p, c).ends
           /\ Return(p, WriteRing(tab, ObjOf(p, c).pipe, c.text))
  <2> DEFINE k == ObjOf(p, c).pipe
             s == c.text
             U == WriteRing(tab, k, s)
  <2>1. /\ k \in Pipe /\ tab.pipe[k].count # PipeBufSize /\ tab.pipe[k].ends # {}
        /\ "R" \in tab.pipe[k].ends /\ "W" \in tab.pipe[k].ends
    BY <1>2, EndFacts, OnPipeOpen
  <2>2. s \in Seq(Byte) /\ s # << >>
    BY <1>2, PipeIOAssumption DEF CallRec
  <2>3. InOrder(tab)
    BY DEF PipeInv
  <2>4. tab' = U
    BY <1>2, FinishTab DEF Return
  <2>5. tab.pipe[k].ends = End
    <3>1. tab.pipe[k] \in Ring
      BY <2>1, <2>3, FieldTypes DEF InOrder
    <3> QED BY <2>1, <3>1 DEF Ring, End
  <2> HIDE DEF k, s
  <2>6. Filled(tab, U, k)
    BY <2>1, <2>2, <2>3, <2>5, WriteFills
  <2> HIDE DEF U
  <2> QED BY <2>1, <2>4, <2>6 DEF Moves
<1> QED
  BY <1>1, <1>2, FinishTab DEF AttemptWrite, Return, MustWait

LEMMA CallMoves ==
    ASSUME PipeInv, NEW p \in Task,
           \/ SysRead(p) \/ SysWrite(p) \/ Retry(p) \/ SysClose(p) \/ SysDup(p) \/ SysDup2(p)
           \/ SysPipe(p) \/ SysOpen(p) \/ SysSpawn(p) \/ SysExit(p)
    PROVE  Moves(tab, tab')
<1>1. InOrder(tab)
  BY DEF PipeInv
<1>2. CASE SysRead(p)
  <2>1. PICK f \in Fd, n \in Lens : AttemptRead(p, [NoCall EXCEPT !.op = "read", !.fd = f, !.len = n])
    BY <1>2 DEF SysRead
  <2>2. [NoCall EXCEPT !.op = "read", !.fd = f, !.len = n] \in CallRec
    BY NewCalls
  <2> QED BY <2>1, <2>2, ReadMoves
<1>3. CASE SysWrite(p)
  <2>1. PICK f \in Fd, s \in Texts : AttemptWrite(p, [NoCall EXCEPT !.op = "write", !.fd = f, !.text = s])
    BY <1>3 DEF SysWrite
  <2>2. [NoCall EXCEPT !.op = "write", !.fd = f, !.text = s] \in CallRec
    BY NewCalls
  <2> QED BY <2>1, <2>2, WriteMoves
<1>4. CASE Retry(p)
  <2>1. call[p] \in CallRec
    BY Types DEF PipeInv
  <2> QED BY <1>4, <2>1, ReadMoves, WriteMoves DEF Retry
<1>5. CASE SysClose(p)
  <2>1. PICK f \in Fd : tab' = ClosePid(tab, p, f)
    BY <1>5, FinishTab DEF SysClose, Return
  <2> QED BY <1>1, <2>1, ClosePidKeeps DEF Moves
<1>6. CASE SysDup(p)
  <2>1. PICK f \in Fd : IsOpen(tab, p, f) /\ FreeFds(tab, p) # {} /\ tab' = Dup(tab, p, f)
    BY <1>6, FinishTab DEF SysDup, Return
  <2> QED BY <1>1, <2>1, DupKeeps, StillMoves
<1>7. CASE SysDup2(p)
  <2>1. PICK f \in Fd, g \in Fd : IsOpen(tab, p, f) /\ tab' = Dup2(tab, p, f, g)
    BY <1>7, FinishTab DEF SysDup2, Return
  <2> QED BY <1>1, <2>1, Dup2Keeps, StillMoves
<1>8. CASE SysPipe(p)
  <2>1. tab' = PipeCreate(tab, p)
    BY <1>8, FinishTab DEF SysPipe, Return
  <2> QED BY <1>1, <2>1, PipeCreateKeeps DEF Moves
<1>9. CASE SysOpen(p)
  <2>1. PICK fl \in OpenModes : tab' = OpenFile(tab, p, fl)
    BY <1>9, FinishTab DEF SysOpen, Return
  <2>2. fl \in SUBSET End
    BY PipeIOAssumption
  <2> QED BY <1>1, <2>1, <2>2, OpenFileKeeps, StillMoves
<1>10. CASE SysSpawn(p)
  <2>1. PICK c \in Task : \E U, a : Spawns(p, c, U, a)
    BY <1>10, SpawnEffect
  <2>2. PICK U, a : Spawns(p, c, U, a)
    BY <2>1
  <2> QED BY <2>2, FinishTab DEF Spawns, Moves
<1>11. CASE SysExit(p)
  <2>1. tab' = CloseProcess(tab, p)
    BY <1>11, FinishTab DEF SysExit
  <2> QED BY <1>1, <2>1, CloseProcessKeeps DEF Moves
<1> QED
  BY <1>2, <1>3, <1>4, <1>5, <1>6, <1>7, <1>8, <1>9, <1>10, <1>11

LEMMA NextMoves ==
    ASSUME PipeInv, [Next]_vars PROVE Moves(tab, tab')
<1>1. InOrder(tab)
  BY DEF PipeInv
<1>2. ASSUME tab' = tab PROVE Moves(tab, tab')
  BY <1>2, StillMoves
<1>3. ASSUME NEW p \in Task, Block(p) \/ Kill(p) PROVE Moves(tab, tab')
  BY <1>2, <1>3 DEF Block, Kill
<1>4. ASSUME NEW p \in Pid, Reap(p) PROVE Moves(tab, tab')
  <2>1. PICK q \in Task : tab' = CloseProcess(tab, q)
    BY <1>4, FinishTab DEF Reap
  <2> QED BY <1>1, <2>1, CloseProcessKeeps DEF Moves
<1>5. ASSUME NEW p \in Pid, WakeStart(p) PROVE Moves(tab, tab')
  BY <1>2, <1>5 DEF WakeStart
<1>6. ASSUME NEW p \in Pid, WakeScan(p) \/ WakeStore(p) PROVE Moves(tab, tab')
  <2>1. ASSUME NEW rest \in SUBSET tab.wakes, tab' = [tab EXCEPT !.wakes = rest] PROVE Moves(tab, tab')
    <3>1. tab'.pipe = tab.pipe
      BY <1>1, <2>1, FewerWakes
    <3> QED BY <3>1, StillMoves
  <2>2. UNCHANGED tab \/ \E rest \in SUBSET tab.wakes : \E a : WakeDone(p, rest, a)
    BY <1>6 DEF WakeScan, WakeStore
  <2>3. UNCHANGED tab \/ \E rest \in SUBSET tab.wakes : tab' = [tab EXCEPT !.wakes = rest]
    BY <2>2 DEF WakeDone
  <2> QED BY <1>2, <2>1, <2>3
<1>7. CASE Preempt
  BY <1>2, <1>7 DEF Preempt
<1>8. CASE UNCHANGED vars
  BY <1>2, <1>8 DEF vars
<1> QED
  BY <1>3, <1>4, <1>5, <1>6, <1>7, <1>8, CallMoves DEF Next

LEMMA MovesRefine ==
    ASSUME InOrder(tab), InOrder(tab'), Moves(tab, tab')
    PROVE  Abs!Next
<1>1. CASE Shrinks(tab, tab')
  <2>1. \E left \in [Pipe -> SUBSET {"R", "W"}] :
           /\ \A k \in Pipe : left[k] \subseteq EndsOf(tab)[k]
           /\ EndsOf(tab') = left
           /\ QueueOf(tab') = [k \in Pipe |-> IF left[k] = {} THEN << >> ELSE QueueOf(tab)[k]]
    BY <1>1, CloseRefines
  <2>2. Abs!Close
    BY <2>1 DEF Abs!Close, EndsOf, QueueOf
  <2> QED BY <2>2 DEF Abs!Next
<1>2. CASE Creates(tab, tab')
  <2>1. PICK k \in Pipe : /\ EndsOf(tab)[k] = {}
                          /\ EndsOf(tab') = [EndsOf(tab) EXCEPT ![k] = {"R", "W"}]
                          /\ QueueOf(tab') = QueueOf(tab)
    BY <1>2, CreateRefines
  <2>2. Abs!Create(k)
    BY <2>1 DEF Abs!Create, EndsOf, QueueOf
  <2> QED BY <2>2 DEF Abs!Next
<1>3. ASSUME NEW k \in Pipe, Taken(tab, tab', k) PROVE Abs!Next
  <2>1. /\ "R" \in EndsOf(tab)[k] /\ EndsOf(tab') = EndsOf(tab)
        /\ \E n \in 1 .. Len(QueueOf(tab)[k]) :
              QueueOf(tab') = [QueueOf(tab) EXCEPT ![k] = SubSeq(@, n + 1, Len(@))]
    BY <1>3, TakeRefines
  <2>2. Abs!Take(k)
    BY <2>1 DEF Abs!Take, EndsOf, QueueOf
  <2> QED BY <2>2 DEF Abs!Next
<1>4. ASSUME NEW k \in Pipe, Filled(tab, tab', k) PROVE Abs!Next
  <2>1. /\ EndsOf(tab)[k] = {"R", "W"} /\ EndsOf(tab') = EndsOf(tab)
        /\ \E m \in 1 .. (PipeBufSize - Len(QueueOf(tab)[k])) : \E s \in [1 .. m -> Byte] :
              QueueOf(tab') = [QueueOf(tab) EXCEPT ![k] = @ \o s]
    BY <1>4, PutRefines
  <2>2. Abs!Put(k)
    BY <2>1 DEF Abs!Put, EndsOf, QueueOf
  <2> QED BY <2>2 DEF Abs!Next
<1> QED
  BY <1>1, <1>2, <1>3, <1>4 DEF Moves

LEMMA InitRefines == Init => Abs!Init
<1> SUFFICES ASSUME Init PROVE Abs!Init
  OBVIOUS
<1>1. IoTasks \in SUBSET Task /\ (BootPipes > 0 => {1, 2} \subseteq IoTasks)
  BY PipeIOAssumption
<1>2. InOrder(tab) /\ \A k \in Pipe : tab.pipe[k].ends \in {{}, End} /\ tab.pipe[k].count = 0
  BY <1>1, BootInOrder DEF Init
<1>3. ASSUME NEW k \in Pipe PROVE Content(tab.pipe[k]) = << >>
  <2>1. tab.pipe[k] \in Ring
    BY <1>2, FieldTypes DEF InOrder
  <2> QED BY <1>2, <2>1, ContentIs
<1> QED
  BY <1>2, <1>3 DEF Abs!Init, End

(***************************************************************************)
(* pipe.asm implements PipeSpec: under every interleaving of the calls, no *)
(* byte is lost, duplicated or reordered, a ring never overflows, and a    *)
(* pipe's bytes are dropped only when its second end is closed.            *)
(***************************************************************************)
THEOREM PipesImplementFifos == Spec => PipesAreFifos
<1>1. PipeInv /\ PipeInv' /\ [Next]_vars => Abs!Next
  <2> SUFFICES ASSUME PipeInv, PipeInv', [Next]_vars PROVE Abs!Next
    OBVIOUS
  <2>1. InOrder(tab) /\ InOrder(tab')
    BY DEF PipeInv
  <2>2. Moves(tab, tab')
    BY NextMoves
  <2> QED BY <2>1, <2>2, MovesRefine
<1> QED
  BY <1>1, InitRefines, PipeInvariant, PTL DEF Spec, PipesAreFifos, Abs!Spec
=============================================================================
