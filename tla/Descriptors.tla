---------------------------- MODULE Descriptors ----------------------------
(***************************************************************************)
(* The descriptor tables, the open-object table and the pipe table, with   *)
(* the routines of fd.asm and pipe.asm as operators from tables to tables. *)
(* FILE_IO is held around each of them, so a system call is a composition  *)
(* of these operators.                                                     *)
(*                                                                         *)
(* T.wakes collects the scheduler_wake_one calls the routines ask for: one *)
(* wake after a transfer, wakes until none is left after a close.          *)
(***************************************************************************)
EXTENDS ProcessTable, Sequences, FiniteSetsExt

CONSTANTS
    MaxFds,         \* MAX_FDS
    OpenMax,        \* OPEN_MAX
    MaxPipes,       \* MAX_PIPES
    PipeBufSize,    \* PIPE_BUF_SIZE
    Consoles,       \* console objects, 3 in the code: object i is every boot task's fd i
    BootPipes,      \* how many of the two static ping-pong pipes tasks_init wires
    Byte            \* the bytes written to pipes

\* Indices are bytes and $FF is reserved in each of the tables; the ring
\* index is masked with PIPE_BUF_SIZE - 1: a power of two.
ASSUME DescriptorsAssumption ==
    /\ MaxFds \in Nat /\ OpenMax \in Nat /\ MaxPipes \in Nat \ {0}
    /\ Consoles \in 1 .. OpenMax /\ Consoles <= MaxFds /\ MaxFds < 255 /\ OpenMax < 255 /\ MaxPipes < 255
    /\ PipeBufSize \in {2^i : i \in 0 .. 7}
    /\ BootPipes \in 0 .. 2 /\ Consoles + BootPipes <= MaxFds
    /\ BootPipes <= MaxPipes /\ Consoles + 2 * BootPipes <= OpenMax
    /\ Byte \subseteq 0 .. 255 /\ Byte # {}

Fd    == 0 .. (MaxFds - 1)
Obj   == 0 .. (OpenMax - 1)
Pipe  == 0 .. (MaxPipes - 1)
Index == 0 .. (PipeBufSize - 1)
None  == 255            \* FD_NONE, PIPE_NONE, SPAWN_FD_CLOSED
End   == {"R", "W"}

Slot    == [obj : Obj \cup {None}, flags : SUBSET End]
NoSlot  == [obj |-> None, flags |-> {}]
Object  == [type : {"NONE", "DEVICE", "FILE", "PIPE"}, refs : Nat,
            pipe : Pipe \cup {None}, end : End \cup {"-"}]
NoObj   == [type |-> "NONE", refs |-> 0, pipe |-> None, end |-> "-"]
Ring    == [ends : SUBSET End, head : Index, tail : Index, count : 0 .. PipeBufSize,
            buf : [Index -> Byte]]
WakeReq == [reason : {"PIPE_READ", "PIPE_WRITE"}, pipe : Pipe, all : BOOLEAN]
Tables  == [fd : [Task -> [Fd -> Slot]], obj : [Obj -> Object], pipe : [Pipe -> Ring],
            wakes : SUBSET WakeReq]

FreeObjs(T)   == {o \in Obj : T.obj[o].type = "NONE" /\ T.obj[o].refs = 0}
FreePipes(T)  == {k \in Pipe : T.pipe[k].ends = {}}
FreeFds(T, p) == {f \in Fd : T.fd[p][f].obj = None}
IsOpen(T, p, f) == T.fd[p][f].obj # None

(***************************************************************************)
(* fd_attach, fd_free_open, fd_close_current, fd_close_pid,                *)
(* pipe_close_endpoint, fd_close_process.                                  *)
(***************************************************************************)

\* An attach that forgets the reference.
AttachUncounted(T, p, f, o, fl) == [T EXCEPT !.fd[p][f] = [obj |-> o, flags |-> fl]]

Attach(T, p, f, o, fl) ==
    [T EXCEPT !.fd[p][f] = [obj |-> o, flags |-> fl], !.obj[o].refs = @ + 1]

\* fd_close_current: the slot and the count, and no effect on the object.
Detach(T, p, f) ==
    LET o == T.fd[p][f].obj IN
    IF o = None THEN T
    ELSE [T EXCEPT !.fd[p][f] = NoSlot, !.obj[o].refs = IF @ = 0 THEN 0 ELSE @ - 1]

FreeOpen(T, o) == [T EXCEPT !.obj[o].type = "NONE", !.obj[o].refs = 0]

\* A close that frees the pipe with its first end.
CloseEndFrees(T, o) ==
    LET k == T.obj[o].pipe IN
    IF k = None THEN T
    ELSE [T EXCEPT !.obj[o].pipe = None, !.obj[o].end = "-",
                   !.pipe[k] = [@ EXCEPT !.ends = {}, !.head = 0, !.tail = 0, !.count = 0]]

\* Closing the read end wakes every writer, closing the write end every reader.
CloseEnd(T, o) ==
    LET k    == T.obj[o].pipe
        e    == T.obj[o].end
        left == T.pipe[k].ends \ {e}
        wake == [reason |-> IF e = "R" THEN "PIPE_WRITE" ELSE "PIPE_READ",
                 pipe |-> k, all |-> TRUE]
    IN IF k = None THEN T
       ELSE [T EXCEPT
               !.obj[o].pipe = None, !.obj[o].end = "-",
               !.pipe[k] = IF left = {}
                           THEN [@ EXCEPT !.ends = {}, !.head = 0, !.tail = 0, !.count = 0]
                           ELSE [@ EXCEPT !.ends = left],
               !.wakes = @ \cup (IF e \in T.pipe[k].ends THEN {wake} ELSE {})]

\* A close that frees the object whoever else refers to it.
ClosePidFrees(T, p, f) ==
    LET o == T.fd[p][f].obj IN
    IF o = None \/ T.obj[o].type = "DEVICE" THEN Detach(T, p, f)
    ELSE FreeOpen(CloseEnd(Detach(T, p, f), o), o)

\* The last reference to a pipe end closes the end; a console object stays.
ClosePid(T, p, f) ==
    LET o == T.fd[p][f].obj IN
    IF o = None \/ T.obj[o].refs # 1 \/ T.obj[o].type = "DEVICE" THEN Detach(T, p, f)
    ELSE IF T.obj[o].type = "PIPE" THEN FreeOpen(CloseEnd(Detach(T, p, f), o), o)
    ELSE FreeOpen(Detach(T, p, f), o)

CloseProcess(T, p) ==
    LET upTo[f \in 0 .. MaxFds] == IF f = 0 THEN T ELSE ClosePid(upTo[f - 1], p, f - 1)
    IN upTo[MaxFds]

ClearSlots(T, p) == [T EXCEPT !.fd[p] = [f \in Fd |-> NoSlot]]

(***************************************************************************)
(* fd_dup, fd_dup2, fd_clone_between.  dup2 replaces its target with       *)
(* fd_close_current, the clone with fd_close_pid.                          *)
(***************************************************************************)
Dup(T, p, f) == Attach(T, p, Min(FreeFds(T, p)), T.fd[p][f].obj, T.fd[p][f].flags)

Dup2(T, p, f, g) ==
    IF f = g THEN T ELSE Attach(Detach(T, p, g), p, g, T.fd[p][f].obj, T.fd[p][f].flags)

Clone(T, p, f, c, g) ==
    Attach(ClosePid(T, c, g), c, g, T.fd[p][f].obj, T.fd[p][f].flags)

\* Spawn's mapping of the standard descriptors of c, in order, up to the
\* first source that is not open.
CloneMapped(T, p, c, m) ==
    LET upTo[g \in 0 .. Consoles] ==
            IF g = 0 THEN T
            ELSE IF m[g - 1] = None THEN upTo[g - 1]
            ELSE IF \E h \in 0 .. (g - 1) : m[h] # None /\ ~IsOpen(T, p, m[h]) THEN upTo[g - 1]
            ELSE Clone(upTo[g - 1], p, m[g - 1], c, g - 1)
    IN upTo[Consoles]

(***************************************************************************)
(* pipe_alloc_pair, pipe_create, pipe_create_between_fd.                   *)
(***************************************************************************)
PairFits(T) == Cardinality(FreeObjs(T)) >= 2 /\ FreePipes(T) # {}

PairRead(T)  == Min(FreeObjs(T))
PairWrite(T) == Min(FreeObjs(T) \ {PairRead(T)})

Endpoint(k, e) == [type |-> "PIPE", refs |-> 0, pipe |-> k, end |-> e]

AllocPair(T) ==
    LET k == Min(FreePipes(T)) IN
    [T EXCEPT !.obj[PairRead(T)] = Endpoint(k, "R"), !.obj[PairWrite(T)] = Endpoint(k, "W"),
              !.pipe[k] = [@ EXCEPT !.ends = End, !.head = 0, !.tail = 0, !.count = 0]]

\* pipe_release_pair: the write end first, then the read end.
ReleasePair(T, r, w) == FreeOpen(CloseEnd(FreeOpen(CloseEnd(T, w), w), r), r)

PipeCreate(T, p) ==
    LET r == PairRead(T)
        w == PairWrite(T)
        A == AllocPair(T)
        f == Min(FreeFds(T, p))
        g == Min(FreeFds(T, p) \ {f})
    IN IF ~PairFits(T) THEN T
       ELSE IF FreeFds(T, p) = {} THEN ReleasePair(A, r, w)
       ELSE IF FreeFds(T, p) = {f}
            THEN ReleasePair(Detach(Attach(A, p, f, r, {"R"}), p, f), r, w)
       ELSE Attach(Attach(A, p, f, r, {"R"}), p, g, w, {"W"})

PipeBetween(T, reader, writer, f) ==
    LET A == AllocPair(T) IN
    Attach(Attach(A, reader, f, PairRead(T), {"R"}), writer, f, PairWrite(T), {"W"})

(***************************************************************************)
(* ksys_open and ksys_opendir after the RP has opened the file.            *)
(***************************************************************************)
OpenFile(T, p, fl) ==
    LET o == Min(FreeObjs(T)) IN
    IF FreeObjs(T) = {} \/ FreeFds(T, p) = {} THEN T
    ELSE Attach([T EXCEPT !.obj[o].type = "FILE"], p, Min(FreeFds(T, p)), o, fl)

(***************************************************************************)
(* The transfer loops of pipe_read and pipe_write.                         *)
(***************************************************************************)
Advance(i, m) == (i + m) % PipeBufSize

\* A read that takes the bytes and leaves the tail.
ReadRingStays(T, k, n) ==
    [T EXCEPT !.pipe[k].count = @ - Min({n, @})]

ReadRing(T, k, n) ==
    LET r == T.pipe[k]
        m == Min({n, r.count}) IN
    [T EXCEPT !.pipe[k] = [r EXCEPT !.tail = Advance(r.tail, m), !.count = r.count - m],
              !.wakes = IF m = 0 THEN @
                        ELSE @ \cup {[reason |-> "PIPE_WRITE", pipe |-> k, all |-> FALSE]}]

Room(r) == PipeBufSize - r.count

WriteRing(T, k, s) ==
    LET r == T.pipe[k]
        m == Min({Len(s), Room(r)})
        put(i, j) == i = Advance(r.head, j - 1)
    IN [T EXCEPT
          !.pipe[k] = [r EXCEPT !.head = Advance(r.head, m), !.count = r.count + m,
                                !.buf = [i \in Index |-> IF \E j \in 1 .. m : put(i, j)
                                                         THEN s[CHOOSE j \in 1 .. m : put(i, j)]
                                                         ELSE r.buf[i]]],
          !.wakes = IF m = 0 THEN @
                    ELSE @ \cup {[reason |-> "PIPE_READ", pipe |-> k, all |-> FALSE]}]

(***************************************************************************)
(* fd_init_tables, fd_init_process for the boot tasks, and the static      *)
(* pipes of tasks_init: A from PID 1 to PID 2, B back.                     *)
(***************************************************************************)
ConsoleFlags(f) == IF f = 0 THEN {"R"} ELSE {"W"}

BootTables(boot) ==
    LET std == [fd   |-> [p \in Task |-> [f \in Fd |->
                            IF p \in boot /\ f < Consoles
                            THEN [obj |-> f, flags |-> ConsoleFlags(f)] ELSE NoSlot]],
                obj  |-> [o \in Obj |-> IF o < Consoles
                            THEN [NoObj EXCEPT !.type = "DEVICE", !.refs = Cardinality(boot)]
                            ELSE NoObj],
                pipe |-> [k \in Pipe |-> [ends |-> {}, head |-> 0, tail |-> 0, count |-> 0,
                                          buf |-> [i \in Index |-> Min(Byte)]]],
                wakes |-> {}]
        a   == IF BootPipes >= 1 THEN PipeBetween(std, 2, 1, Consoles) ELSE std
    IN IF BootPipes >= 2 THEN PipeBetween(a, 1, 2, Consoles + 1) ELSE a
=============================================================================
