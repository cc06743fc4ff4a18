------------------------------- MODULE Shell --------------------------------
(***************************************************************************)
(* neosh: the loop of neosh_main, with one action per system call, between *)
(* the console (who owns it, what was entered, ^C), the file system and    *)
(* the foreground child.  The text of a line goes through CommandLine.     *)
(*                                                                         *)
(* The kernel and the RP are modelled by what the shell sees of them: a    *)
(* call named in Faults may fail; the console hands out whole lines, but   *)
(* never more than the reader asked for; chdir resolves a path to a        *)
(* directory, or fails when there is none.                                 *)
(***************************************************************************)
EXTENDS CommandMeaning, Numbers

CONSTANTS
    MaxFds,     \* descriptors of a process
    Places,     \* the directory that a path names, as its canonical text
    Typed,      \* the texts a user enters
    Probes,     \* the lines on which the parser is compared with the meaning
    QueueMax,   \* bound: entered lines that wait for a reader
    ShellPid,   \* the shell's process id
    Volatile,   \* the directories that other processes make and remove
    Faults,     \* the calls that may fail: "getcwd", "open", "seek", "spawn", "chdir", "read"
    Breaks,     \* whether ^C is pressed
    Routes      \* where the RP may route the console: "shell", "other", "none"

ASSUME ShellAssumption ==
    MaxFds \in 6 .. 255 /\ QueueMax \in Nat /\ Routes \subseteq {"shell", "other", "none"}

\* The root is a directory; what is typed, and what names a directory, is a text.
ASSUME TextsAssumption ==
    /\ Typed \cup Probes \subseteq Seq(STRING)
    /\ <<"/">> \in DOMAIN Places /\ \A p \in DOMAIN Places : Places[p] \in Seq(STRING)

\* A directory's text names it; it is a drive, a colon and names, and a name has
\* no ">", no control character and no character with bit 7 set.  What is typed
\* is one line, and does not begin like a prompt.
ASSUME NamesAssumption ==
    /\ DOMAIN HighBit \cap ({" ", "0", ":", "/", ">"} \cup LineEnd) = {}
    /\ \A p \in DOMAIN Places :
          LET d == Places[p] IN
          /\ d \in DOMAIN Places /\ Places[d] = d
          /\ Len(d) > 1 /\ d[1] \notin {" ", "\t", "<", ">"} /\ d[2] = ":"
          /\ \A i \in DOMAIN d : d[i] \notin DOMAIN HighBit \cup LineEnd \cup {">"}
    /\ \A t \in Typed :
          /\ \A i \in DOMAIN t : Seven(t[i]) \notin LineEnd
          /\ \A p \in DOMAIN Places :
                LET c == PromptCore(Places[p]) IN Len(t) < Len(c) \/ \E i \in DOMAIN c : Seven(t[i]) # c[i]

VARIABLES
    pc,         \* the next step of neosh_main
    core,       \* neosh_prompt up to its core length; empty at the default prompt
    command,    \* the resolved applet (nbox_launch_id) and its arguments
    plan,       \* neosh_plan
    redir,      \* neosh_input_fd, neosh_output_fd, neosh_error_fd
    opened,     \* opened_fd while neosh_open_redirection seeks
    saved,      \* old_cwd or current_cwd during a directory change
    previous,   \* neosh_previous_cwd; empty while it is not valid
    fds,        \* the shell's descriptor table
    cwd, dirs,  \* its working directory, and the directories that exist
    child,      \* the foreground child
    owner,      \* console_owner_pid
    pending,    \* SIG_INT is pending for the shell
    queue,      \* entered lines that nobody has read yet
    current,    \* history: what the user typed in the line being executed
    truncated   \* history: the files the current command has truncated

vars == <<pc, core, command, plan, redir, opened, saved, previous, fds, cwd, dirs, child, owner,
          pending, queue, current, truncated>>
envVars == <<cwd, dirs, child, owner, pending, queue>>

Closed       == 255                     \* NEOSH_FD_CLOSED
Std          == 0 .. 2
Root         == Places[<<"/">>]
DefaultCore  == <<"0", ":", "/", ">">>  \* neosh_default_prompt
Free         == [kind |-> "free", path |-> << >>, mode |-> "NONE", atEnd |-> FALSE]
Console      == [Free EXCEPT !.kind = "console"]
File(r)      == [kind |-> "file", path |-> r.path, mode |-> r.mode, atEnd |-> FALSE]
StdFds       == [f \in 0 .. MaxFds - 1 |-> IF f \in Std THEN Console ELSE Free]
NoCommand    == [id |-> "none", args |-> << >>]
NoChild      == [state |-> "NONE", id |-> "none", args |-> << >>, std |-> [f \in Std |-> Console],
                 status |-> "OK"]

Init ==
    /\ pc = "prompt" /\ core = << >> /\ command = NoCommand /\ plan = EmptyPlan
    /\ redir = [f \in Std |-> Closed] /\ opened = Closed
    /\ saved = << >> /\ previous = << >>
    /\ fds = StdFds
    /\ cwd = Root /\ dirs = {Places[p] : p \in DOMAIN Places}
    /\ child = NoChild /\ owner = "shell" /\ pending = FALSE
    /\ queue = << >> /\ current = [typed |-> << >>, whole |-> TRUE]
    /\ truncated = {}

(***************************************************************************)
(* The prompt and the line.                                                *)
(***************************************************************************)
\* A getcwd that does not look at the size of the buffer.
GetcwdAlways(size) == TRUE

\* getcwd writes the text and its terminator, or fails.
GetcwdFits(size) == Len(cwd) < size

\* The buffers of the finished command are written before they are read
\* again, so the model drops them here.
DropCommand ==
    /\ command' = NoCommand /\ plan' = EmptyPlan /\ saved' = << >>
    /\ current' = [typed |-> << >>, whole |-> TRUE] /\ truncated' = {}

PrintPrompt ==
    /\ pc = "prompt" /\ pc' = "read" /\ DropCommand
    /\ \/ GetcwdFits(LineMax - 2) /\ core' = PromptCore(cwd)
       \/ (~GetcwdFits(LineMax - 2) \/ "getcwd" \in Faults) /\ core' = << >>
    /\ UNCHANGED <<redir, opened, previous, fds>> /\ UNCHANGED envVars

\* An interrupted read that leaves the signal pending.
ReadInterruptedAgain ==
    /\ pc = "read" /\ pending /\ pc' = "prompt"
    /\ UNCHANGED <<core, command, plan, redir, opened, saved, previous, fds, current, truncated>>
    /\ UNCHANGED envVars

\* console_read returns EINTR to a reader with a pending SIG_INT.
ReadInterrupted ==
    /\ pc = "read" /\ pending
    /\ pending' = FALSE /\ pc' = "prompt"
    /\ UNCHANGED <<core, command, plan, redir, opened, saved, previous, fds, cwd, dirs, child, owner, queue,
                   current, truncated>>

\* A read of no bytes starts over; any other failure is simply tried again.
ReadNothing ==
    /\ pc = "read" /\ ~pending /\ "read" \in Faults
    /\ pc' = "prompt"
    /\ UNCHANGED <<core, command, plan, redir, opened, saved, previous, fds, current, truncated>>
    /\ UNCHANGED envVars

\* What one read takes of an entered line, and what it leaves in the queue.
Chunk(e)    == IF Len(e.text) < LineMax THEN e.text ELSE SubSeq(e.text, 1, LineMax - 1)
Leftover(e) ==
    IF Len(e.text) < LineMax THEN << >>
    ELSE <<[e EXCEPT !.text = SubSeq(e.text, LineMax, Len(e.text)), !.whole = FALSE]>>

\* Where the loop goes for a compact command line t with plan p.
Branch(t, p) ==
    LET r == Resolve(t) IN
    IF r.mode \in {"UNKNOWN", "NONE"} \/ (r.mode = "PARENT" /\ Redirected(p)) THEN "prompt"
    ELSE IF r.mode = "CHILD"            THEN (IF Redirected(p) THEN "open" ELSE "spawn")
    ELSE IF r.id = "kill"               THEN "kill"
    ELSE IF ~IsCdDash(Arguments(t))     THEN "cd_getcwd"
    ELSE IF previous = << >>            THEN "prompt"
    ELSE                                     "dash_getcwd"

\* A line of the console owner; without an owner, the reader becomes it.  The
\* line is cleaned, parsed and resolved without another system call.
ReadLine ==
    /\ pc = "read" /\ ~pending /\ owner \in {"shell", "none"} /\ queue # << >>
    /\ LET e == Head(queue)
           p == ParseRedirections(CleanLine(Chunk(e), core))
       IN /\ queue' = Leftover(e) \o Tail(queue)
          /\ current' = [typed |-> e.typed, whole |-> e.whole /\ Leftover(e) = << >>]
          /\ plan' = p.plan
          /\ redir' = [f \in Std |-> Closed]
          /\ IF p.verdict = "ok"
             THEN /\ pc' = Branch(p.command, p.plan)
                  /\ command' = [id |-> Resolve(p.command).id, args |-> ArgList(Arguments(p.command))]
             ELSE pc' = "prompt" /\ UNCHANGED command
    /\ owner' = "shell"
    /\ UNCHANGED <<core, opened, saved, previous, fds, cwd, dirs, child, pending, truncated>>

(***************************************************************************)
(* kill, in the shell itself.                                              *)
(***************************************************************************)
\* What the signal does to the shell: SIG_INT
\* becomes pending, SIG_KILL ends it; other targets are the kernel's affair.
Kill ==
    /\ pc = "kill"
    /\ \E k \in {KillRequest(command.args)} :
       /\ pc' = IF k.pid = ShellPid /\ k.signal = 9 THEN "gone" ELSE "prompt"
       /\ pending' = (pending \/ (k.pid = ShellPid /\ k.signal = 2))
    /\ UNCHANGED <<core, command, plan, redir, opened, saved, previous, fds, cwd, dirs, child, owner,
                   queue, current, truncated>>

(***************************************************************************)
(* cd and cd -.                                                            *)
(***************************************************************************)
\* getcwd into a local buffer, before the directory is changed.
SaveCwd ==
    /\ pc \in {"cd_getcwd", "dash_getcwd"}
    /\ \/ /\ GetcwdFits(LineMax) /\ saved' = cwd
          /\ pc' = IF pc = "cd_getcwd" THEN "cd" ELSE "dash"
       \/ /\ ~GetcwdFits(LineMax) \/ "getcwd" \in Faults
          /\ pc' = "prompt" /\ UNCHANGED saved
    /\ UNCHANGED <<core, command, plan, redir, opened, previous, fds, current, truncated>>
    /\ UNCHANGED envVars

\* chdir on a path.
Found(path)  == path \in DOMAIN Places /\ Places[path] \in dirs
ChdirTo(path) == IF Found(path) THEN {Places[path]} ELSE {}

\* The path neox_applet_cd passes to chdir, or none.
CdPath(as) ==
    CASE as = << >>                                          -> {<<"/">>}
      [] Len(as) = 1 /\ CopyArgumentFits(as[1], LineMax)     -> {as[1]}
      [] OTHER                                               -> {}

\* A directory change that records the directory it enters.
RecordPreviousWrong(old) == previous' = cwd'

RecordPrevious(old) == previous' = IF Len(old) < LineMax THEN old ELSE SubSeq(old, 1, LineMax - 1)

ChangeDir(paths) ==
    \/ \E p \in paths : \E d \in ChdirTo(p) : cwd' = d /\ RecordPrevious(saved)
    \/ /\ "chdir" \in Faults \/ \A p \in paths : ChdirTo(p) = {}
       /\ UNCHANGED <<cwd, previous>>

Cd ==
    /\ pc \in {"cd", "dash"} /\ pc' = "prompt"
    /\ ChangeDir(IF pc = "cd" THEN CdPath(command.args) ELSE {previous})
    /\ UNCHANGED <<core, command, plan, redir, opened, saved, fds, dirs, child, owner, pending, queue,
                   current, truncated>>

(***************************************************************************)
(* Redirections.                                                           *)
(***************************************************************************)
FreeFd(f) == /\ f \in DOMAIN fds /\ fds[f].kind = "free"
             /\ \A g \in DOMAIN fds : g < f => fds[g].kind # "free"

\* The stream to open next: stdin, then stdout, then stderr.
ToOpen(i) == /\ i \in Std /\ plan[i].mode # "NONE" /\ redir[i] = Closed
             /\ \A j \in Std : j < i => plan[j].mode = "NONE" \/ redir[j] # Closed

\* neosh_close_redirections, and the file a failed seek leaves behind.
CloseRedirections ==
    /\ fds' = [f \in DOMAIN fds |-> IF f = opened \/ \E i \in Std : redir[i] = f THEN Free ELSE fds[f]]
    /\ redir' = [i \in Std |-> Closed]
    /\ opened' = Closed

\* A refusal that leaves the files opened so far.
RefuseOpenOnly ==
    /\ pc' = "prompt"
    /\ redir' = [i \in Std |-> Closed] /\ opened' = Closed /\ UNCHANGED fds

RefuseOpen == pc' = "prompt" /\ CloseRedirections

OpenRedirection ==
    /\ pc = "open"
    /\ \E i \in Std :
       /\ ToOpen(i)
       /\ \/ \E f \in 0 .. MaxFds - 1 :
             /\ FreeFd(f)
             /\ fds' = [fds EXCEPT ![f] = File(plan[i])]
             /\ truncated' = truncated \cup {plan[j].path : j \in {i} \cap {k \in Std : plan[k].mode = "TRUNC"}}
             /\ IF plan[i].mode = "APPEND"
                THEN pc' = "seek" /\ opened' = f /\ UNCHANGED redir
                ELSE redir' = [redir EXCEPT ![i] = f] /\ UNCHANGED <<pc, opened>>
          \/ /\ "open" \in Faults \/ \A f \in 0 .. MaxFds - 1 : ~FreeFd(f)
             /\ RefuseOpen /\ UNCHANGED truncated
    /\ UNCHANGED <<core, command, plan, saved, previous, current>> /\ UNCHANGED envVars

SeekToEnd ==
    /\ pc = "seek"
    /\ \/ /\ fds' = [fds EXCEPT ![opened].atEnd = TRUE]
          /\ redir' = [i \in Std |-> IF ToOpen(i) THEN opened ELSE redir[i]]
          /\ opened' = Closed /\ pc' = "open"
       \/ "seek" \in Faults /\ RefuseOpen
    /\ UNCHANGED <<core, command, plan, saved, previous, current, truncated>> /\ UNCHANGED envVars

AllOpen ==
    /\ pc = "open" /\ \A i \in Std : ~ToOpen(i)
    /\ pc' = "spawn"
    /\ UNCHANGED <<core, command, plan, redir, opened, saved, previous, fds, current, truncated>>
    /\ UNCHANGED envVars

(***************************************************************************)
(* neosh_execute_child.                                                    *)
(***************************************************************************)
\* The child's stdin, stdout and stderr.
ChildStd == [i \in Std |-> IF redir[i] = Closed THEN fds[i] ELSE fds[redir[i]]]

Spawn ==
    /\ pc = "spawn"
    /\ \/ /\ child' = [state |-> "LIVE", id |-> command.id, args |-> command.args,
                       std |-> ChildStd, status |-> "OK"]
          /\ owner' = IF owner = "shell" THEN "child" ELSE owner
          /\ pc' = "wait" /\ UNCHANGED <<fds, redir, opened>>
       \/ /\ "spawn" \in Faults
          /\ pc' = "prompt" /\ CloseRedirections /\ UNCHANGED <<child, owner>>
    /\ UNCHANGED <<core, command, plan, saved, previous, cwd, dirs, pending, queue, current, truncated>>

\* A reap that does not give the console back.
ReapKeepsOwner == child' = NoChild /\ UNCHANGED owner

Reap == child' = NoChild /\ owner' = IF owner = "child" THEN "shell" ELSE owner

\* A wait that overlooks a child ended by a signal.
WaitOverlooksInterrupt ==
    /\ pc = "wait" /\ child.state = "ZOMBIE" /\ child.status # "INT"
    /\ Reap /\ pc' = "close"
    /\ UNCHANGED <<core, command, plan, redir, opened, saved, previous, fds, cwd, dirs, pending, queue,
                   current, truncated>>

WaitChild ==
    /\ pc = "wait" /\ child.state = "ZOMBIE"
    /\ Reap /\ pc' = "close"
    /\ UNCHANGED <<core, command, plan, redir, opened, saved, previous, fds, cwd, dirs, pending, queue,
                   current, truncated>>

CloseAfterChild ==
    /\ pc = "close" /\ pc' = "prompt" /\ CloseRedirections
    /\ UNCHANGED <<core, command, plan, saved, previous, current, truncated>> /\ UNCHANGED envVars

(***************************************************************************)
(* Around the shell: the user, the RP, the child, other processes.         *)
(***************************************************************************)
shellVars == <<pc, core, command, plan, redir, opened, saved, previous, fds, cwd, current, truncated>>

\* What stands in front of the cursor: the prompt, or the prompt of an earlier
\* line the cursor was moved to; nothing when a program is running.
OnScreen ==
    IF pc # "read" THEN {<< >>}
    ELSE {(IF core = << >> THEN DefaultCore ELSE core) \o <<" ">>}
         \cup (IF previous = << >> THEN {} ELSE {PromptCore(previous) \o <<" ">>})

\* Enter hands over the line as it stands on the screen.
Enter ==
    /\ Len(queue) < QueueMax
    /\ \E t \in Typed, p \in OnScreen :
          queue' = Append(queue, [text |-> p \o t \o <<"\r">>, typed |-> t, whole |-> TRUE])
    /\ UNCHANGED <<dirs, child, owner, pending>> /\ UNCHANGED shellVars

\* ^C: SIG_INT to the console owner; the shell catches it, a child ends.
Break ==
    /\ Breaks /\ pc # "gone"
    /\ \/ owner = "shell" /\ pending' = TRUE /\ UNCHANGED child
       \/ /\ owner = "child" /\ child.state = "LIVE"
          /\ child' = [child EXCEPT !.state = "ZOMBIE", !.status = "INT"] /\ UNCHANGED pending
    /\ UNCHANGED <<dirs, owner, queue>> /\ UNCHANGED shellVars

\* The RP routes the console elsewhere; the new route is also the new owner.
Reroute ==
    /\ \E r \in Routes : owner' = r
    /\ UNCHANGED <<dirs, child, pending, queue>> /\ UNCHANGED shellVars

\* cat without a file, on the console, reads it until it is interrupted.
ReadsConsole == child.id = "cat" /\ child.args = << >> /\ child.std[0].kind = "console"

ChildReads ==
    /\ child.state = "LIVE" /\ ReadsConsole /\ owner \in {"child", "none"} /\ queue # << >>
    /\ queue' = Tail(queue) /\ owner' = "child"
    /\ UNCHANGED <<dirs, child, pending>> /\ UNCHANGED shellVars

ChildEnds ==
    /\ child.state = "LIVE" /\ ~ReadsConsole
    /\ \E s \in {"OK", "ERR"} : child' = [child EXCEPT !.state = "ZOMBIE", !.status = s]
    /\ UNCHANGED <<dirs, owner, pending, queue>> /\ UNCHANGED shellVars

\* Another process makes or removes a directory.
OtherDirs ==
    /\ \E d \in Volatile :
          dirs' = IF d \in dirs THEN dirs \ {d} ELSE dirs \cup {d}
    /\ UNCHANGED <<child, owner, pending, queue>> /\ UNCHANGED shellVars

\* Everything the shell does on its own; reading a line also takes a user.
ShellStep ==
    \/ PrintPrompt \/ ReadInterrupted \/ Kill \/ SaveCwd \/ Cd
    \/ OpenRedirection \/ SeekToEnd \/ AllOpen \/ Spawn \/ WaitChild \/ CloseAfterChild

Next ==
    \/ ShellStep \/ ReadLine \/ ReadNothing
    \/ Enter \/ Break \/ Reroute \/ ChildReads \/ ChildEnds \/ OtherDirs

Spec     == Init /\ [][Next]_vars
FairSpec == Spec /\ WF_vars(ShellStep) /\ WF_vars(ChildEnds)

(***************************************************************************)
(* Properties.                                                             *)
(***************************************************************************)
Pcs      == {"prompt", "read", "kill", "cd_getcwd", "dash_getcwd", "cd", "dash", "open",
             "seek", "spawn", "wait", "close", "gone"}
FdValues == (0 .. MaxFds - 1) \cup {Closed}

\* The shell's variables have their types; texts fit the 64-byte buffers of
\* neosh.c and nbox.c they are kept in.
TypeOK ==
    /\ pc \in Pcs /\ Len(core) < LineMax
    /\ \A i \in Std : plan[i].mode \in {"NONE", "READ", "TRUNC", "APPEND"} /\ Len(plan[i].path) < LineMax
    /\ redir \in [Std -> FdValues] /\ opened \in FdValues
    /\ Len(saved) < LineMax /\ Len(previous) < LineMax
    /\ DOMAIN fds = 0 .. MaxFds - 1 /\ \A f \in DOMAIN fds : fds[f].kind \in {"free", "console", "file"}
    /\ child.state \in {"NONE", "LIVE", "ZOMBIE"} /\ child.status \in {"OK", "ERR", "INT"}
    /\ owner \in {"shell", "child", "other", "none"} /\ pending \in BOOLEAN

\* neosh_close_redirections on every path out of a command: apart from the
\* three standard descriptors the shell holds exactly the files in its three
\* redirection variables and the one it is seeking, all different, and so none
\* when it prompts.  One leaked descriptor per failed command would exhaust
\* the table of six after three of them.
DescriptorsOwned ==
    /\ \A f \in 0 .. MaxFds - 1 :
          fds[f].kind # "free" <=> f \in Std \/ f = opened \/ \E i \in Std : redir[i] = f
    /\ \A i \in Std : redir[i] # Closed => /\ redir[i] \notin Std /\ redir[i] # opened
                                          /\ \A j \in Std : j # i => redir[j] # redir[i]
    /\ opened # Closed => pc = "seek" /\ opened \notin Std
    /\ pc \in {"prompt", "read", "kill", "cd_getcwd", "dash_getcwd", "cd", "dash", "gone"} =>
          \A i \in Std : redir[i] = Closed

\* From the raw console line through neosh_clean_line, neosh_parse_redirections,
\* neosh_nbox_resolve and neosh_execute_child: a child that runs for a line that
\* was read whole is the command the user typed, with the typed arguments, its
\* streams on the files the line names (at their end for >> and 2>>), whatever
\* prompt stood in front of it; and no other file has been truncated.
Streams(m) ==
    [i \in Std |-> IF m.plan[i].mode = "NONE" THEN Console
                   ELSE [File(m.plan[i]) EXCEPT !.atEnd = (m.plan[i].mode = "APPEND")]]
TypedMeaning == Meaning([i \in DOMAIN current.typed |-> Seven(current.typed[i])])

RunsWhatWasTyped ==
    LET m == TypedMeaning IN
    current.whole =>
        /\ child.state # "NONE" =>
              /\ m.ok /\ \E c \in Commands : c.id = child.id /\ TokenMatches(m.words[1], c.name)
              /\ child.args = Tail(m.words)
              /\ child.std = Streams(m)
        /\ \A p \in truncated : \E i \in Std : m.plan[i] = [mode |-> "TRUNC", path |-> p]

\* neosh_read_line "Reads one complete VDU-edited input line": a child runs only
\* for a line that was read complete.
RunsOnlyCompleteLines == child.state # "NONE" => current.whole

\* neosh_parse_redirections accepts exactly the well-formed lines and finds
\* their streams and words: the scan and the declarative meaning agree on every
\* probe.  (A fact about the operators, looked at once, in the initial state.)
ParserAgrees == Init => \A t \in Probes : Agrees(t)

\* The console belongs to the foreground child only while there is one, and
\* the shell prompts and reads only when its child has been reaped.
ConsoleFollowsChild ==
    /\ owner = "child" => child.state # "NONE"
    /\ child.state # "NONE" <=> pc = "wait"

\* neosh_execute_cd_parent and neosh_execute_cd_dash: the directory changes only
\* when cd was typed, to the directory it names (cd alone: the root; cd -: the
\* previous one), and the directory left is what cd - returns to.
ChangesDirAsTold ==
    [][cwd' # cwd =>
         /\ previous' = cwd
         /\ current.whole =>
              LET ws == TypedMeaning.words IN
              /\ TokenMatches(ws[1], <<"C", "D">>)
              /\ cwd' = IF Len(ws) = 1 THEN Root ELSE IF ws[2] = <<"-">> THEN previous ELSE Places[ws[2]]]_vars

\* The loop of neosh_main returns to its read: whatever fails, the shell
\* reads again, unless its child reads the console or it has been killed.
ShellReturns == pc # "read" ~> (pc \in {"read", "gone"} \/ ReadsConsole)

\* A ^C that reached the shell while it could not read, before its child was
\* published or after it had ended, is not forgotten: the next read takes it.
BreakIsTaken == pending ~> (~pending \/ pc = "gone" \/ ReadsConsole)
=============================================================================
