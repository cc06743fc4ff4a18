------------------------------ MODULE Applets -------------------------------
(***************************************************************************)
(* The resident applets, one run of one of them: an action per system      *)
(* call, with reads and writes that transfer less than was asked for,      *)
(* calls that fail (Faults), and other processes that change the directory *)
(* under ls and the process table under ps.                                *)
(*                                                                         *)
(* Consecutive writes of an applet with nothing between them are one       *)
(* transfer of their concatenation, since neox_applet_write_all may stop   *)
(* and fail after any byte.  A diagnostic is a count.  cd is in Shell.     *)
(***************************************************************************)
EXTENDS CommandLine, Numbers

CONSTANTS
    Jobs,       \* the runs: an applet and its arguments
    Bytes,      \* what files hold
    Paths,      \* canonical file names
    Stored,     \* what the file system holds when the applet starts
    Stdin,      \* what cat finds on its standard input
    Cwd,        \* the working directory's name
    BufferSize, \* CAT_BUFFER_SIZE, CP_BUFFER_SIZE: 64
    Slots,      \* the places of a directory, 1 .. n
    Entries,    \* what a place may hold: a name, and whether it is a directory
    Listing,    \* what the directory of ls holds when it starts
    Pids,       \* process ids, 0 .. n
    Infos,      \* what get_process_info may tell of one
    Processes,  \* the process table when ps starts
    Changes,    \* bound: changes made by other processes
    Values,     \* numbers to format
    Probes,     \* arguments to parse
    Faults      \* the calls that may fail

ASSUME AppletsAssumption == BufferSize \in Nat \ {0} /\ Changes \in Nat

VARIABLES
    job,        \* the applet and its arguments
    pc,         \* its next step
    status,     \* what it returns
    err,        \* diagnostics on stderr
    out,        \* what it has written to stdout
    todo,       \* what neox_applet_write_all has yet to write
    after,      \* where it goes on when all of that is written
    open,       \* its open descriptors
    pos,        \* read position, directory position or pid
    pass,       \* the pass of ls
    files,      \* the file system
    listing,    \* the directory that ls reads
    table,      \* the process table
    stable,     \* history: places and pids that nobody has changed
    changes,    \* changes so far
    sent        \* history: the signal kill has sent

vars == <<job, pc, status, err, out, todo, after, open, pos, pass, files, listing, table, stable,
          changes, sent>>

NoFile   == [kind |-> "none", data |-> << >>]
NoEntry  == [name |-> "none", dir |-> FALSE]
NoSignal == [pid |-> 0, signal |-> 0]
CR       == <<"\r">>

Init ==
    /\ job \in Jobs /\ pc = "start" /\ status = "OK" /\ err = 0 /\ out = << >>
    /\ todo = << >> /\ after = "done" /\ open = {} /\ pos = 0 /\ pass = "dirs"
    /\ files = Stored /\ listing = Listing /\ table = Processes
    /\ stable = Slots \cup Pids /\ changes = 0 /\ sent = NoSignal

\* The RP's name for a path: open, delete, mkdir, rmdir and rename upper-case it.
Canon(w) == [i \in DOMAIN w |-> Upper(w[i])]

\* How an applet ends: with a status and that many more diagnostics.
End(st, messages) == pc' = "done" /\ status' = st /\ err' = err + messages /\ open' = {}
Errors    == {"ENOENT", "EINVAL", "EIO", "OTHER"}
Fails(call) == IF call \in Faults THEN Errors ELSE {}

world == <<files, listing, table, stable, changes>>
idle  == <<out, todo, after, pos, pass, sent>>

\* The arguments are one or two paths that fit their buffers.
PathsFit(as) == \A i \in DOMAIN as : CopyArgumentFits(as[i], LineMax)

\* The number of arguments each applet takes, at most and at least.
MostArgs  == [cat |-> 1, cp |-> 2, mv |-> 2, rm |-> 1, mkdir |-> 1, rmdir |-> 1, ls |-> 1, pwd |-> 0, ps |-> 0]
LeastArgs == [id \in DOMAIN MostArgs |-> IF id \in {"cat", "ls"} THEN 0 ELSE MostArgs[id]]
Usage(id, as) == Len(as) \in LeastArgs[id] .. MostArgs[id] /\ PathsFit(as)

\* Every applet that checks its arguments reports wrong ones and returns EINVAL.
RejectUsage ==
    /\ pc = "start" /\ job.id \in DOMAIN MostArgs /\ ~Usage(job.id, job.args)
    /\ End("EINVAL", 1) /\ UNCHANGED <<job, world, idle>>

Begins(id) == pc = "start" /\ job.id = id /\ (id \in DOMAIN MostArgs => Usage(id, job.args))

(***************************************************************************)
(* neox_applet_write_all.                                                  *)
(***************************************************************************)
\* Writing starts; when it is done the applet goes on at step k.
Emit(text, k) == todo' = text /\ after' = k /\ pc' = "write"

Destination == Canon(job.args[2])

\* A write that takes a short one for a complete one.
WroteAll(n) == todo' = << >> /\ pc' = after

\* n bytes were written: go on with the rest.
Wrote(n) ==
    /\ todo' = SubSeq(todo, n + 1, Len(todo))
    /\ pc' = IF n = Len(todo) THEN after ELSE "write"

WriteSome ==
    /\ pc = "write"
    /\ \E n \in 1 .. Len(todo) :
          /\ Wrote(n)
          /\ IF job.id = "cp"
             THEN /\ files' = [files EXCEPT ![Destination] = [kind |-> "file", data |-> @.data \o SubSeq(todo, 1, n)]]
                  /\ UNCHANGED out
             ELSE out' = out \o SubSeq(todo, 1, n) /\ UNCHANGED files
    /\ UNCHANGED <<job, status, err, after, open, pos, pass, listing, table, stable, changes, sent>>

\* What neox_applet_ls adds to a failed pass.
LsMessages(st) == IF st = "EIO" THEN 0 ELSE 1

\* A failure, or no byte written: echo ends in silence, ls may report twice.
WriteFails ==
    /\ pc = "write"
    /\ \E st \in Fails("write") :
          End(st, CASE job.id = "echo" -> 0 [] job.id = "ls" -> 1 + LsMessages(st) [] OTHER -> 1)
    /\ UNCHANGED <<job, world, idle>>

(***************************************************************************)
(* cat and cp.                                                             *)
(***************************************************************************)
OnStdin == job.id = "cat" /\ job.args = << >>
Source  == IF OnStdin THEN Stdin ELSE files[Canon(job.args[1])].data

\* The file system is a function on names, and whoever reads or writes a file
\* names one of them.
ASSUME FilesAssumption ==
    /\ Stdin \in Seq(Bytes)
    /\ Stored \in [Paths -> [kind : {"none", "file", "dir"}, data : Seq(Bytes)]]
    /\ \A j \in Jobs : j.id \in STRING /\ j.args \in Seq(Seq(STRING))
    /\ \A j \in Jobs : j.id \in {"cat", "cp"} /\ Usage(j.id, j.args) =>
          \A i \in 1 .. Len(j.args) : Canon(j.args[i]) \in Paths

CatStdin ==
    /\ Begins("cat") /\ OnStdin /\ pc' = "read"
    /\ UNCHANGED <<job, status, err, open, world, idle>>

OpenSource ==
    /\ (Begins("cat") /\ ~OnStdin) \/ (Begins("cp") /\ job.args[1] # job.args[2])
    /\ \/ /\ files[Canon(job.args[1])].kind = "file"
          /\ open' = {"source"} /\ pc' = IF job.id = "cp" THEN "create" ELSE "read"
          /\ UNCHANGED <<status, err>>
       \/ files[Canon(job.args[1])].kind = "none" /\ End("ENOENT", 1)
       \/ \E st \in Fails("open") : End(st, 1)
    /\ UNCHANGED <<job, world, idle>>

\* A comparison that fails in silence.
SamePathSilent ==
    /\ Begins("cp") /\ job.args[1] = job.args[2]
    /\ End("EINVAL", 0) /\ UNCHANGED <<job, world, idle>>

\* cp_paths_equal.
SamePath ==
    /\ Begins("cp") /\ job.args[1] = job.args[2]
    /\ End("EINVAL", 1) /\ UNCHANGED <<job, world, idle>>

\* An open that keeps what the destination holds.
CreateKeepsData ==
    /\ pc = "create"
    /\ files' = [files EXCEPT ![Destination].kind = "file"]
    /\ open' = open \cup {"destination"} /\ pc' = "read" /\ UNCHANGED <<status, err>>
    /\ UNCHANGED <<job, listing, table, stable, changes, idle>>

\* A failed open that leaves the source open.
CreateLeaks ==
    /\ pc = "create"
    /\ \E st \in Fails("open") : pc' = "done" /\ status' = st /\ err' = err + 1 /\ UNCHANGED <<open, files>>
    /\ UNCHANGED <<job, listing, table, stable, changes, idle>>

\* NEOX_OPEN_WRITE_TRUNC empties a file that exists.
CreateDestination ==
    /\ pc = "create"
    /\ \/ /\ files[Destination].kind # "dir"
          /\ files' = [files EXCEPT ![Destination] = [kind |-> "file", data |-> << >>]]
          /\ open' = open \cup {"destination"} /\ pc' = "read" /\ UNCHANGED <<status, err>>
       \/ files[Destination].kind = "dir" /\ End("OTHER", 1) /\ UNCHANGED files
       \/ \E st \in Fails("open") : End(st, 1) /\ UNCHANGED files
    /\ UNCHANGED <<job, listing, table, stable, changes, idle>>

\* A read gives at most a buffer, and at least a byte before the end.
ReadSome ==
    /\ pc = "read" /\ pos < Len(Source)
    /\ \E n \in 1 .. BufferSize :
          /\ pos + n <= Len(Source) /\ pos' = pos + n
          /\ Emit(SubSeq(Source, pos + 1, pos + n), "read")
    /\ UNCHANGED <<job, status, err, out, open, pass, sent, world>>

ReadFails ==
    /\ pc = "read" /\ \E st \in Fails("read") : End(st, 1)
    /\ UNCHANGED <<job, world, idle>>

\* At the end everything is closed; a failed close is reported, once.
ReadEnd ==
    /\ pc = "read" /\ pos >= Len(Source)
    /\ \/ End("OK", 0)
       \/ ~OnStdin /\ \E st \in Fails("close") : End(st, 1)
    /\ UNCHANGED <<job, world, idle>>

(***************************************************************************)
(* echo, pwd, kill, and the applets of one call.                           *)
(***************************************************************************)
\* The arguments with a space between two of them.
Joined(as) ==
    LET upto[n \in 0 .. Len(as)] ==
            CASE n = 0 -> << >> [] n = 1 -> as[1] [] OTHER -> upto[n - 1] \o <<" ">> \o as[n]
    IN upto[Len(as)]

Echo ==
    /\ Begins("echo") /\ Emit(Joined(job.args) \o CR, "done")
    /\ UNCHANGED <<job, status, err, out, open, pos, pass, sent, world>>

Pwd ==
    /\ Begins("pwd")
    /\ \/ Emit(Cwd \o CR, "done") /\ UNCHANGED <<status, err, open>>
       \/ (\E st \in Fails("getcwd") : End(st, 1)) /\ UNCHANGED <<todo, after>>
    /\ UNCHANGED <<job, out, pos, pass, sent, world>>

Kill ==
    /\ pc = "start" /\ job.id = "kill"
    /\ LET k == KillRequest(job.args) IN
       \/ k.pid = 0 /\ End("EINVAL", 1) /\ UNCHANGED sent
       \/ k.pid # 0 /\ End("OK", 0) /\ sent' = k
       \/ k.pid # 0 /\ (\E st \in Fails("signal") : End(st, 1)) /\ UNCHANGED sent
    /\ UNCHANGED <<job, out, todo, after, pos, pass, world>>

\* neox_applet_run_one_path and neox_applet_run_two_paths: one call on the RP,
\* which may refuse it, and a message for what it returns.
PathOperation(id, allowed, result) ==
    /\ Begins(id)
    /\ \/ allowed /\ End("OK", 0) /\ files' = result
       \/ ~allowed /\ (\E st \in {"ENOENT", "OTHER"} : End(st, 1)) /\ UNCHANGED files
       \/ (\E st \in Fails("path") : End(st, 1)) /\ UNCHANGED files
    /\ UNCHANGED <<job, listing, table, stable, changes, idle>>

Target == Canon(job.args[1])

Rm    == PathOperation("rm", files[Target].kind = "file", [files EXCEPT ![Target] = NoFile])
Rmdir == PathOperation("rmdir", files[Target].kind = "dir", [files EXCEPT ![Target] = NoFile])
Mkdir == PathOperation("mkdir", files[Target].kind = "none",
                       [files EXCEPT ![Target] = [kind |-> "dir", data |-> << >>]])
Mv    == PathOperation("mv", files[Target].kind # "none" /\ files[Destination].kind = "none",
                       [files EXCEPT ![Target] = NoFile, ![Destination] = files[Target]])

(***************************************************************************)
(* ls: one pass over the directory for the directories, one for the files. *)
(***************************************************************************)
LsRow(e) == <<e.name, IF e.dir THEN "<DIR>" ELSE "size">> \o CR

LsStart ==
    /\ Begins("ls") /\ pc' = "opendir"
    /\ UNCHANGED <<job, status, err, open, world, idle>>

\* A second pass that goes on where the first one ended.
OpenDirNoRewind ==
    /\ pc = "opendir" /\ open' = {"directory"} /\ pc' = "readdir"
    /\ UNCHANGED <<job, status, err, pos, out, todo, after, pass, sent, world>>

OpenDir ==
    /\ pc = "opendir"
    /\ \/ open' = {"directory"} /\ pos' = 0 /\ pc' = "readdir" /\ UNCHANGED <<status, err>>
       \/ (\E st \in Fails("opendir") : End(st, LsMessages(st))) /\ UNCHANGED pos
    /\ UNCHANGED <<job, out, todo, after, pass, sent, world>>

Ahead == {k \in Slots : k > pos /\ listing[k] # NoEntry}

ReadDir ==
    /\ pc = "readdir" /\ Ahead # {}
    /\ \E k \in Ahead :
          /\ \A l \in Ahead : k <= l
          /\ pos' = k
          /\ IF listing[k].dir = (pass = "dirs") THEN Emit(LsRow(listing[k]), "readdir")
             ELSE UNCHANGED <<todo, after, pc>>
    /\ UNCHANGED <<job, status, err, out, open, pass, sent, world>>

\* closedir, and the second pass.
CloseDir ==
    /\ pc = "readdir" /\ Ahead = {}
    /\ \/ /\ open' = {} /\ pass' = "files"
          /\ pc' = IF pass = "dirs" THEN "opendir" ELSE "done"
          /\ UNCHANGED <<status, err>>
       \/ (\E st \in Fails("close") : End(st, 1 + LsMessages(st))) /\ UNCHANGED pass
    /\ UNCHANGED <<job, out, todo, after, pos, sent, world>>

ReadDirFails ==
    /\ pc = "readdir" /\ \E st \in Fails("readdir") : End(st, 1 + LsMessages(st))
    /\ UNCHANGED <<job, world, idle>>

(***************************************************************************)
(* ps: one system call per pid.                                            *)
(***************************************************************************)
PsStateText(s) ==
    CASE s = "EMPTY" -> "EMP" [] s = "NEW" -> "NEW" [] s = "READY" -> "RDY" [] s = "RUNNING" -> "RUN"
      [] s = "BLOCKED" -> "BLK" [] s = "STOPPED" -> "STP" [] s = "ZOMBIE" -> "ZOM" [] OTHER -> "???"
PsWaitText(w) ==
    CASE w = "NONE" -> "----" [] w = "CONSOLE" -> "CON " [] w = "DEVICE" -> "DEV " [] w = "PIPE_READ" -> "PIPR"
      [] w = "TIMER" -> "TIMR" [] w = "PROCESS" -> "PROC" [] w = "LOCK" -> "LOCK" [] w = "PIPE_WRITE" -> "PIPW"
      [] w = "RP" -> "RP  " [] OTHER -> "????"

PsObjectText(wait, object) ==
    CASE wait = "NONE"               -> <<"---">>
      [] wait = "LOCK" /\ object = 0 -> <<"FIO">>
      [] wait = "LOCK" /\ object = 1 -> <<"PRC">>
      [] wait = "LOCK" /\ object > 1 -> <<"???">>
      [] OTHER                       -> FormatHex8(object) \o <<" ">>

PsSignalText(n) == (IF Len(FormatU32(n)) < 2 THEN <<" ">> ELSE << >>) \o FormatU32(n)

PsRow(p, i) ==
    FormatHex8(p) \o FormatHex8(i.parent) \o <<PsStateText(i.state), PsWaitText(i.wait)>>
    \o PsObjectText(i.wait, i.object) \o PsSignalText(i.signal) \o CR

PsStart ==
    /\ Begins("ps") /\ Emit(<<"PID PPID ST  WAIT OBJ SIG">> \o CR, "info")
    /\ UNCHANGED <<job, status, err, out, open, pos, pass, sent, world>>

\* A loop that an empty slot ends.
PsInfoBreaks ==
    /\ pc = "info" /\ pos \in Pids
    /\ IF table[pos].state = "EMPTY" THEN pos' = Cardinality(Pids) /\ UNCHANGED <<todo, after, pc>>
       ELSE pos' = pos + 1 /\ Emit(PsRow(pos, table[pos]), "info")
    /\ UNCHANGED <<job, status, err, out, open, pass, sent, world>>

PsInfo ==
    /\ pc = "info" /\ pos \in Pids /\ pos' = pos + 1
    /\ IF table[pos].state = "EMPTY" THEN UNCHANGED <<todo, after, pc>>
       ELSE Emit(PsRow(pos, table[pos]), "info")
    /\ UNCHANGED <<job, status, err, out, open, pass, sent, world>>

PsInfoFails ==
    /\ pc = "info" /\ pos \in Pids /\ \E st \in Fails("info") : End(st, 1)
    /\ UNCHANGED <<job, world, idle>>

\* A loop that waits for one pid more than there are.
PsEndLate ==
    /\ pc = "info" /\ pos > Cardinality(Pids) /\ End("OK", 0)
    /\ UNCHANGED <<job, world, idle>>

PsEnd ==
    /\ pc = "info" /\ pos \notin Pids /\ End("OK", 0)
    /\ UNCHANGED <<job, world, idle>>

(***************************************************************************)
(* Other processes, where the applet can notice them.                      *)
(***************************************************************************)
OtherEntry ==
    /\ job.id = "ls" /\ pc # "done" /\ changes < Changes /\ changes' = changes + 1
    /\ \E k \in Slots, e \in Entries \cup {NoEntry} :
          /\ e # listing[k] /\ (e = NoEntry \/ \A l \in Slots : listing[l].name # e.name)
          /\ listing' = [listing EXCEPT ![k] = e] /\ stable' = stable \ {k}
    /\ UNCHANGED <<job, pc, status, err, open, files, table, idle>>

OtherProcess ==
    /\ job.id = "ps" /\ pc # "done" /\ changes < Changes /\ changes' = changes + 1
    /\ \E p \in Pids \ {0}, i \in Infos :
          i # table[p] /\ table' = [table EXCEPT ![p] = i] /\ stable' = stable \ {p}
    /\ UNCHANGED <<job, pc, status, err, open, files, listing, idle>>

AppletStep ==
    \/ RejectUsage \/ WriteSome \/ WriteFails
    \/ CatStdin \/ OpenSource \/ SamePath \/ CreateDestination \/ ReadSome \/ ReadFails \/ ReadEnd
    \/ Echo \/ Pwd \/ Kill \/ Rm \/ Rmdir \/ Mkdir \/ Mv
    \/ LsStart \/ OpenDir \/ ReadDir \/ CloseDir \/ ReadDirFails
    \/ PsStart \/ PsInfo \/ PsInfoFails \/ PsEnd

Next == AppletStep \/ OtherEntry \/ OtherProcess

Spec     == Init /\ [][Next]_vars
FairSpec == Spec /\ WF_vars(AppletStep)

(***************************************************************************)
(* Properties.                                                             *)
(***************************************************************************)
\* cat_copy_descriptor and neox_applet_write_all: through short reads and short
\* writes cat puts out the bytes of its source in order, never one twice, and
\* all of them when it returns OK.
IsPrefixOf(s, t) == Len(s) <= Len(t) /\ SubSeq(t, 1, Len(s)) = s
CatExact ==
    job.id = "cat" =>
        /\ out # << >> => IsPrefixOf(out, Source)
        /\ pc = "done" /\ status = "OK" => out = Source

\* neox_applet_cp: when it returns OK, two paths that are two files now hold what
\* the source held, and whatever happens the source, and every file but the
\* destination, is what it was.
CopyComplete ==
    job.id = "cp" /\ Len(job.args) = 2 /\ Canon(job.args[1]) # Canon(job.args[2]) =>
        /\ pc = "done" /\ status = "OK" =>
              files[Destination].data = Stored[Canon(job.args[1])].data /\ files[Destination].kind = "file"
        /\ \A p \in Paths \ {Destination} : files[p] = Stored[p]

\* Every way out of cat, cp and ls: no descriptor stays open, and a destination
\* is open only behind its source.
HandlesClosed ==
    /\ pc \in {"start", "opendir", "info", "done"} => open = {}
    /\ "destination" \in open => "source" \in open

\* A failure is reported to stderr, once, and success is silent (echo reports
\* nothing; ls is silent when opendir fails with EIO, and reports an entry's
\* failure a second time as the directory's).
Diagnosed ==
    pc = "done" =>
        /\ status = "OK" => err = 0
        /\ status # "OK" /\ job.id \notin {"echo", "ls"} => err = 1
        /\ job.id = "ls" /\ status \notin {"OK", "EIO"} => err \in 1 .. 2

\* ls_list_pass, twice over a directory that others change meanwhile: an entry
\* that stays is listed exactly once, directories before files.
Occurrences(x) == Cardinality({i \in DOMAIN out : out[i] = x})
ListsStable ==
    job.id = "ls" /\ pc = "done" /\ status = "OK" =>
        /\ \A k \in Slots \cap stable : listing[k] # NoEntry => Occurrences(listing[k].name) = 1
        /\ \A i, j \in DOMAIN out : out[i] = "size" /\ out[j] = "<DIR>" => j < i

\* neox_applet_ps reads the table slot by slot while processes come and go: a
\* process that stays as it is has exactly one row, and that row is true.
RowAt(r, i) == i + Len(r) - 1 <= Len(out) /\ SubSeq(out, i, i + Len(r) - 1) = r
ReportsStable ==
    job.id = "ps" /\ pc = "done" /\ status = "OK" =>
        \A p \in Pids \cap stable : table[p].state # "EMPTY" =>
            /\ Cardinality({i \in DOMAIN out : RowAt(PsRow(p, table[p]), i)}) = 1
            /\ \A i \in Infos \ {table[p]} : \A k \in DOMAIN out : ~RowAt(PsRow(p, i), k)

\* neox_applet_kill signals exactly the process and the signal that were typed
\* in decimal, and only the four signals and the pids 1 to 7 that exist.
\* (The parsers, and neox_applet_format_u32, against the value of a numeral.)
ValueOf(w) ==
    LET value[i \in 0 .. Len(w)] == IF i = 0 THEN 0 ELSE value[i - 1] * 10 + DigitValue(w[i])
    IN value[Len(w)]
Numeral(w) == w # << >> /\ \A i \in DOMAIN w : IsDigit(w[i])
NumbersAgree ==
    /\ pc = "start" =>
          /\ \A w \in Probes, m \in {MaxPid, 19} :
                ParseDecimal(w, m) = IF Numeral(w) /\ ValueOf(w) <= m THEN ValueOf(w) ELSE NoNumber
          /\ \A n \in Values :
                /\ Numeral(FormatU32(n)) /\ ValueOf(FormatU32(n)) = n /\ Len(FormatU32(n)) <= 10
                /\ n > 0 => FormatU32(n)[1] # "0"
    /\ sent # NoSignal =>
          /\ sent.pid \in 1 .. MaxPid /\ sent.signal \in Signals
          /\ sent.pid = ValueOf(job.args[2]) /\ sent.signal = ValueOf(Tail(job.args[1]))

\* Every applet ends: reads and writes that make progress, however little,
\* finish the copy loops and the two passes.
Terminates == <>(pc = "done")
=============================================================================
