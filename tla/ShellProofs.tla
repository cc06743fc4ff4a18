----------------------------- MODULE ShellProofs ----------------------------
(***************************************************************************)
(* For any text a user may enter, any directories, any table size and any  *)
(* calls that fail: the shell's descriptors are all accounted for, the     *)
(* console belongs to its child exactly as long as there is one, every     *)
(* text fits the buffer it is kept in, and the parser makes of every line  *)
(* that fits the line buffer what the line means.                          *)
(*                                                                         *)
(* The first two parts hold for every plan and every branch the parser can *)
(* take, so they do not look into it.  The next ones are about the parser  *)
(* alone.  The last ones put the two together: what is entered behind a    *)
(* prompt, cleaned, parsed, resolved and executed is the command that was  *)
(* typed, with its arguments and its streams.                              *)
(***************************************************************************)
EXTENDS Shell, SequenceTheorems, FiniteSetTheorems, WellFoundedInduction, TLAPS

(***************************************************************************)
(* Descriptors and the console.                                            *)
(***************************************************************************)
\* The records keep their fields, so that EXCEPT is an update.
Shapes ==
    /\ redir \in [Std -> FdValues] /\ opened \in FdValues
    /\ fds = [f \in 0 .. MaxFds - 1 |-> fds[f]]
    /\ \A f \in 0 .. MaxFds - 1 :
          fds[f] = [kind |-> fds[f].kind, path |-> fds[f].path, mode |-> fds[f].mode, atEnd |-> fds[f].atEnd]
    /\ child = [state |-> child.state, id |-> child.id, args |-> child.args, std |-> child.std,
                status |-> child.status]

\* While a file is being positioned, it is known which stream it is for.
SeekHasStream == pc = "seek" => opened # Closed /\ \E i \in Std : ToOpen(i)

Inv == Shapes /\ DescriptorsOwned /\ SeekHasStream

\* Where the shell is when it has no redirection open.
Idle == {"prompt", "read", "kill", "cd_getcwd", "dash_getcwd", "cd", "dash", "gone"}

\* Executing a line begins with one of these steps, whatever was typed.
LEMMA BranchTarget ==
    ASSUME NEW t, NEW p
    PROVE  Branch(t, p) \in {"prompt", "open", "spawn", "kill", "cd_getcwd", "dash_getcwd"}
  BY DEF Branch

\* A step that leaves the descriptors and the redirections alone, and neither
\* enters nor leaves the opening of redirections, keeps the invariant.
LEMMA FrameKeepsInv ==
    ASSUME Inv, UNCHANGED <<redir, opened, fds>>, Shapes',
           \/ UNCHANGED <<pc, plan>>
           \/ pc' # "seek" /\ pc # "seek" /\ (pc' \in Idle => pc \in Idle)
    PROVE  Inv'
  <1>1. DescriptorsOwned'
    BY DEF Inv, DescriptorsOwned, Idle
  <1>2. SeekHasStream'
    BY DEF Inv, SeekHasStream, ToOpen
  <1> QED BY <1>1, <1>2 DEF Inv

\* With nothing redirected, the open descriptors are the standard ones.
LEMMA OnlyStdOwned ==
    ASSUME redir = [i \in Std |-> Closed], opened = Closed,
           \A f \in 0 .. MaxFds - 1 : fds[f].kind # "free" <=> f \in Std
    PROVE  DescriptorsOwned
  <1>1. \A f \in 0 .. MaxFds - 1 : f # opened /\ \A i \in Std : redir[i] # f
    BY ShellAssumption DEF Closed
  <1> QED BY <1>1 DEF DescriptorsOwned

\* neosh_close_redirections leaves the standard descriptors and nothing else.
LEMMA CloseKeepsInv ==
    ASSUME Inv, CloseRedirections, pc' # "seek", UNCHANGED child \/ Shapes'
    PROVE  Inv'
  <1>1. /\ redir' = [i \in Std |-> Closed] /\ opened' = Closed
        /\ fds' = [f \in 0 .. MaxFds - 1 |-> IF f = opened \/ \E i \in Std : redir[i] = f THEN Free ELSE fds[f]]
    BY DEF CloseRedirections, Inv, Shapes
  <1>2. Shapes'
    BY <1>1 DEF Inv, Shapes, FdValues, Free
  <1>3. DescriptorsOwned'
    <2>1. Free.kind = "free"
      BY DEF Free
    <2>2. \A f \in 0 .. MaxFds - 1 : fds'[f] = IF f = opened \/ \E i \in Std : redir[i] = f THEN Free ELSE fds[f]
      BY <1>1
    <2>3. \A f \in Std : f # opened /\ \A i \in Std : redir[i] # f
      BY ShellAssumption DEF Inv, DescriptorsOwned, Closed, Std
    <2>4. \A f \in 0 .. MaxFds - 1 : fds'[f].kind # "free" <=> f \in Std
      BY <2>1, <2>2, <2>3 DEF Inv, DescriptorsOwned
    <2>5. \A f \in 0 .. MaxFds - 1 : f # opened' /\ \A i \in Std : redir'[i] # f
      BY <1>1, ShellAssumption DEF Closed
    <2> QED BY <1>1, <2>4, <2>5 DEF DescriptorsOwned
  <1>4. SeekHasStream'
    BY DEF SeekHasStream
  <1> QED BY <1>2, <1>3, <1>4 DEF Inv

LEMMA InitInv == Init => Inv
  <1> SUFFICES ASSUME Init PROVE Inv
    OBVIOUS
  <1>1. Shapes
    BY DEF Init, Shapes, StdFds, Console, Free, NoChild, FdValues
  <1>2. DescriptorsOwned
    <2>1. \A f \in 0 .. MaxFds - 1 : fds[f].kind # "free" <=> f \in Std
      BY DEF Init, StdFds, Console, Free
    <2> QED BY <2>1, OnlyStdOwned DEF Init
  <1>3. SeekHasStream
    BY DEF Init, SeekHasStream
  <1> QED BY <1>1, <1>2, <1>3 DEF Inv

LEMMA ReadLineKeepsInv == ASSUME Inv, ReadLine PROVE Inv'
  <1>1. /\ redir' = [f \in Std |-> Closed] /\ opened' = opened /\ fds' = fds /\ child' = child
        /\ pc = "read"
    BY DEF ReadLine
  <1>2. pc' # "seek"
    BY BranchTarget DEF ReadLine
  <1>3. Shapes'
    BY <1>1 DEF Inv, Shapes, FdValues
  <1>4. DescriptorsOwned'
    BY <1>1 DEF Inv, DescriptorsOwned
  <1>5. SeekHasStream'
    BY <1>2 DEF SeekHasStream
  <1> QED BY <1>3, <1>4, <1>5 DEF Inv

LEMMA OpenKeepsInv == ASSUME Inv, OpenRedirection PROVE Inv'
  <1>1. PICK i \in Std :
           /\ ToOpen(i)
           /\ \/ \E f \in 0 .. MaxFds - 1 :
                 /\ FreeFd(f)
                 /\ fds' = [fds EXCEPT ![f] = File(plan[i])]
                 /\ IF plan[i].mode = "APPEND"
                    THEN pc' = "seek" /\ opened' = f /\ UNCHANGED redir
                    ELSE redir' = [redir EXCEPT ![i] = f] /\ UNCHANGED <<pc, opened>>
              \/ RefuseOpen
    BY DEF OpenRedirection
  <1>2. pc = "open" /\ plan' = plan /\ child' = child
    BY DEF OpenRedirection, envVars
  <1>3. CASE RefuseOpen
    BY <1>2, <1>3, CloseKeepsInv DEF RefuseOpen
  <1>4. ASSUME NEW f \in 0 .. MaxFds - 1, FreeFd(f), fds' = [fds EXCEPT ![f] = File(plan[i])],
               IF plan[i].mode = "APPEND"
               THEN pc' = "seek" /\ opened' = f /\ UNCHANGED redir
               ELSE redir' = [redir EXCEPT ![i] = f] /\ UNCHANGED <<pc, opened>>
        PROVE  Inv'
    <2>1. /\ f \notin Std /\ f # Closed /\ opened = Closed /\ redir[i] = Closed
          /\ \A j \in Std : redir[j] # f
      BY <1>1, <1>2, <1>4, ShellAssumption DEF Inv, DescriptorsOwned, FreeFd, ToOpen, Closed
    <2>2. \A g \in 0 .. MaxFds - 1 : fds'[g] = IF g = f THEN File(plan[i]) ELSE fds[g]
      BY <1>4 DEF Inv, Shapes
    <2>3. Shapes'
      BY <1>2, <1>4, <2>2 DEF Inv, Shapes, File, FdValues
    <2>4. File(plan[i]).kind # "free"
      BY DEF File
    <2>5. CASE plan[i].mode = "APPEND"
      <3>1. pc' = "seek" /\ opened' = f /\ redir' = redir
        BY <1>4, <2>5
      <3>2. DescriptorsOwned'
        BY <2>1, <2>2, <2>4, <3>1 DEF Inv, Shapes, DescriptorsOwned
      <3>3. SeekHasStream'
        BY <1>1, <1>2, <2>1, <3>1 DEF SeekHasStream, ToOpen
      <3> QED BY <2>3, <3>2, <3>3 DEF Inv
    <2>6. CASE plan[i].mode # "APPEND"
      <3>1. pc' = "open" /\ opened' = opened /\ redir' = [redir EXCEPT ![i] = f]
        BY <1>2, <1>4, <2>6
      <3>2. \A j \in Std : redir'[j] = IF j = i THEN f ELSE redir[j]
        BY <3>1 DEF Inv, Shapes
      <3>3. DescriptorsOwned'
        BY <2>1, <2>2, <2>4, <3>1, <3>2 DEF Inv, DescriptorsOwned
      <3>4. SeekHasStream'
        BY <3>1 DEF SeekHasStream
      <3> QED BY <2>3, <3>3, <3>4 DEF Inv
    <2> QED BY <2>5, <2>6
  <1> QED BY <1>1, <1>3, <1>4

LEMMA SeekKeepsInv == ASSUME Inv, SeekToEnd PROVE Inv'
  <1>1. pc = "seek" /\ plan' = plan /\ child' = child
    BY DEF SeekToEnd, envVars
  <1>2. CASE RefuseOpen
    BY <1>1, <1>2, CloseKeepsInv DEF RefuseOpen
  <1>3. CASE /\ fds' = [fds EXCEPT ![opened].atEnd = TRUE]
             /\ redir' = [i \in Std |-> IF ToOpen(i) THEN opened ELSE redir[i]]
             /\ opened' = Closed /\ pc' = "open"
    <2>1. PICK i \in Std : ToOpen(i)
      BY <1>1 DEF Inv, SeekHasStream
    <2>2. \A j \in Std : j # i => ~ToOpen(j)
      BY <2>1 DEF ToOpen, Std
    <2>3. redir[i] = Closed /\ \A j \in Std : redir'[j] = IF j = i THEN opened ELSE redir[j]
      BY <1>3, <2>1, <2>2 DEF ToOpen
    <2>4. opened \in 0 .. MaxFds - 1 /\ opened # Closed
      BY <1>1 DEF Inv, Shapes, SeekHasStream, FdValues
    <2>5. \A f \in 0 .. MaxFds - 1 : fds'[f] = IF f = opened THEN [fds[f] EXCEPT !.atEnd = TRUE] ELSE fds[f]
      BY <1>3, <2>4 DEF Inv, Shapes
    <2>6. \A f \in 0 .. MaxFds - 1 : /\ fds'[f].kind = fds[f].kind /\ fds'[f].path = fds[f].path
                                     /\ fds'[f].mode = fds[f].mode
                                     /\ fds'[f] = [kind |-> fds'[f].kind, path |-> fds'[f].path,
                                                   mode |-> fds'[f].mode, atEnd |-> fds'[f].atEnd]
      BY <2>5 DEF Inv, Shapes
    <2>7. Shapes'
      BY <1>1, <1>3, <2>3, <2>4, <2>6 DEF Inv, Shapes, FdValues
    <2>8. DescriptorsOwned'
      BY <1>3, <2>3, <2>4, <2>6, ShellAssumption DEF Inv, DescriptorsOwned, Closed
    <2>9. SeekHasStream'
      BY <1>3 DEF SeekHasStream
    <2> QED BY <2>7, <2>8, <2>9 DEF Inv
  <1> QED BY <1>2, <1>3 DEF SeekToEnd

LEMMA SpawnKeepsInv == ASSUME Inv, Spawn PROVE Inv'
  <1>1. CASE /\ child' = [state |-> "LIVE", id |-> command.id, args |-> command.args,
                          std |-> ChildStd, status |-> "OK"]
             /\ pc' = "wait" /\ UNCHANGED <<fds, redir, opened>>
    <2>1. Shapes'
      BY <1>1 DEF Inv, Shapes
    <2> QED BY <1>1, <2>1, FrameKeepsInv DEF Spawn, Idle
  <1>2. CASE pc' = "prompt" /\ CloseRedirections /\ UNCHANGED child
    BY <1>2, CloseKeepsInv
  <1> QED BY <1>1, <1>2 DEF Spawn

\* The shell's other steps, and the steps of everyone else.
LEMMA OtherKeepsInv ==
    ASSUME Inv,
           \/ PrintPrompt \/ ReadInterrupted \/ ReadNothing \/ Kill \/ SaveCwd \/ Cd \/ AllOpen \/ WaitChild
           \/ Enter \/ Break \/ Reroute \/ ChildReads \/ ChildEnds \/ OtherDirs
    PROVE  Inv'
  <1>1. ASSUME UNCHANGED <<redir, opened, fds, child>>, pc' # "seek", pc # "seek", pc' \in Idle => pc \in Idle
        PROVE  Inv'
    BY <1>1, FrameKeepsInv DEF Inv, Shapes
  <1>2. CASE PrintPrompt \/ ReadInterrupted \/ ReadNothing \/ Kill \/ SaveCwd \/ Cd
    BY <1>1, <1>2 DEF PrintPrompt, ReadInterrupted, ReadNothing, Kill, SaveCwd, Cd, envVars, Idle
  <1>3. CASE AllOpen
    BY <1>1, <1>3 DEF AllOpen, envVars, Idle
  <1>4. CASE WaitChild
    <2>1. Shapes'
      BY <1>4 DEF WaitChild, Reap, NoChild, Inv, Shapes
    <2> QED BY <1>4, <2>1, FrameKeepsInv DEF WaitChild, Idle
  <1>5. CASE Enter \/ Break \/ Reroute \/ ChildReads \/ ChildEnds \/ OtherDirs
    <2>1. UNCHANGED <<pc, plan, redir, opened, fds>>
      BY <1>5 DEF Enter, Break, Reroute, ChildReads, ChildEnds, OtherDirs, shellVars
    <2>2. \/ child' = child
          \/ child' = [child EXCEPT !.state = "ZOMBIE", !.status = "INT"]
          \/ \E s \in {"OK", "ERR"} : child' = [child EXCEPT !.state = "ZOMBIE", !.status = s]
      BY <1>5 DEF Enter, Break, Reroute, ChildReads, ChildEnds, OtherDirs
    <2>3. Shapes'
      BY <2>1, <2>2 DEF Inv, Shapes
    <2> QED BY <2>1, <2>3, FrameKeepsInv
  <1> QED BY <1>2, <1>3, <1>4, <1>5

LEMMA NextKeepsInv == Inv /\ [Next]_vars => Inv'
  <1> SUFFICES ASSUME Inv, [Next]_vars PROVE Inv'
    OBVIOUS
  <1>1. CASE ReadLine
    BY <1>1, ReadLineKeepsInv
  <1>2. CASE OpenRedirection
    BY <1>2, OpenKeepsInv
  <1>3. CASE SeekToEnd
    BY <1>3, SeekKeepsInv
  <1>4. CASE Spawn
    BY <1>4, SpawnKeepsInv
  <1>5. CASE CloseAfterChild
    BY <1>5, CloseKeepsInv DEF CloseAfterChild, envVars
  <1>6. CASE UNCHANGED vars
    BY <1>6, FrameKeepsInv DEF vars, Inv, Shapes
  <1> QED BY <1>1, <1>2, <1>3, <1>4, <1>5, <1>6, OtherKeepsInv DEF Next, ShellStep

\* The descriptors the shell opened for a command are closed on every way out
\* of it, for any sequence of commands and any calls that fail.
THEOREM NoDescriptorLeaks == Spec => []DescriptorsOwned
  BY InitInv, NextKeepsInv, PTL DEF Spec, Inv

ConsoleInv == Shapes /\ ConsoleFollowsChild

LEMMA NextKeepsConsole == Inv /\ ConsoleInv /\ [Next]_vars => ConsoleInv'
  <1> SUFFICES ASSUME Inv, ConsoleInv, [Next]_vars PROVE ConsoleFollowsChild'
    BY NextKeepsInv DEF Inv, ConsoleInv
  <1>0. child = [state |-> child.state, id |-> child.id, args |-> child.args, std |-> child.std,
                 status |-> child.status]
    BY DEF ConsoleInv, Shapes
  <1>1. ASSUME UNCHANGED <<child, owner>>, pc # "wait", pc' # "wait" PROVE ConsoleFollowsChild'
    BY <1>1 DEF ConsoleInv, ConsoleFollowsChild
  <1>2. CASE PrintPrompt \/ ReadInterrupted \/ ReadNothing \/ Kill \/ SaveCwd \/ Cd
    BY <1>1, <1>2 DEF PrintPrompt, ReadInterrupted, ReadNothing, Kill, SaveCwd, Cd, envVars
  <1>3. CASE OpenRedirection \/ SeekToEnd \/ AllOpen \/ CloseAfterChild
    BY <1>1, <1>3 DEF OpenRedirection, SeekToEnd, AllOpen, CloseAfterChild, RefuseOpen, envVars
  <1>4. CASE ReadLine
    BY <1>4, BranchTarget DEF ReadLine, ConsoleInv, ConsoleFollowsChild
  <1>5. CASE Spawn
    BY <1>5 DEF Spawn, ConsoleInv, ConsoleFollowsChild
  <1>6. CASE WaitChild
    BY <1>6 DEF WaitChild, Reap, NoChild, ConsoleInv, ConsoleFollowsChild
  <1>7. CASE Break \/ ChildEnds
    BY <1>0, <1>7 DEF Break, ChildEnds, shellVars, ConsoleInv, ConsoleFollowsChild
  <1>8. CASE Enter \/ Reroute \/ ChildReads \/ OtherDirs
    BY <1>8, ShellAssumption DEF Enter, Reroute, ChildReads, OtherDirs, shellVars, ConsoleInv, ConsoleFollowsChild
  <1>9. CASE UNCHANGED vars
    BY <1>9 DEF vars, ConsoleInv, ConsoleFollowsChild
  <1> QED BY <1>2, <1>3, <1>4, <1>5, <1>6, <1>7, <1>8, <1>9 DEF Next, ShellStep

\* The console is the child's only while there is one, and the shell is in
\* waitpid exactly then: it never prompts or reads beside its child.
THEOREM ConsoleIsHandedBack == Spec => []ConsoleFollowsChild
  <1>1. Init => ConsoleInv
    BY InitInv DEF Inv, ConsoleInv, Init, ConsoleFollowsChild, NoChild
  <1> QED BY <1>1, InitInv, NextKeepsInv, NextKeepsConsole, PTL DEF Spec, ConsoleInv

(***************************************************************************)
(* The parser's loop, round by round.                                      *)
(***************************************************************************)
LEMMA LeastNumber ==
    ASSUME NEW S \in SUBSET Nat, S # {}
    PROVE  \E n \in S : \A m \in S : n <= m
  <1> DEFINE R == OpToRel(<, Nat)
  <1>1. IsWellFoundedOn(R, Nat) BY NatLessThanWellFounded
  <1>2. PICK x \in S : \A y \in S : ~ (<<y, x>> \in R)
    <2> HIDE DEF R
    <2> QED BY <1>1, WFMin
  <1>3. \A y \in S : ~(y < x) BY <1>2 DEF OpToRel
  <1> QED BY <1>3

\* What holds of 0, and of n + 1 when it holds of n, holds up to N.
LEMMA Upward ==
    ASSUME NEW N \in Nat, NEW S, 0 \in S, \A n \in 0 .. N - 1 : n \in S => n + 1 \in S
    PROVE  \A n \in 0 .. N : n \in S
  <1> SUFFICES ASSUME NEW k \in 0 .. N, k \notin S PROVE FALSE OBVIOUS
  <1> DEFINE Bad == {n \in 0 .. N : n \notin S}
  <1>1. Bad \in SUBSET Nat /\ k \in Bad OBVIOUS
  <1>2. PICK n \in Bad : \A m \in Bad : n <= m BY <1>1, LeastNumber
  <1>3. n # 0 /\ n \in 1 .. N BY <1>2
  <1>4. n - 1 \in 0 .. N - 1 /\ n - 1 \notin Bad BY <1>2, <1>3
  <1>5. n - 1 \in S BY <1>4
  <1>6. (n - 1) + 1 \in S BY <1>4, <1>5
  <1> QED BY <1>2, <1>3, <1>6

(***************************************************************************)
(* The rounds of the parser's loop.                                        *)
(***************************************************************************)
Round(t, v, n) == IF n = 0 THEN {Scan} ELSE {ParseStep(t, s) : s \in v[n - 1]}
Rounds(t) == CHOOSE v : v = [n \in 0 .. Len(t) + 1 |-> Round(t, v, n)]

LEMMA RoundsChoice == \A t : ParseRedirections(t) = CHOOSE s \in Rounds(t)[Len(t) + 1] : TRUE
  BY Zenon DEF ParseRedirections, Rounds, Round

LEMMA RoundsExist ==
    ASSUME NEW t, NEW N \in Nat
    PROVE  \E v : v = [n \in 0 .. N |-> Round(t, v, n)]
  <1> DEFINE Has(k) == \E v : v = [n \in 0 .. k |-> Round(t, v, n)]
             Good == {k \in 0 .. N : Has(k)}
  <1>1. 0 \in Good
    <2> DEFINE e == [n \in 0 .. 0 |-> {Scan}]
    <2>1. e = [n \in 0 .. 0 |-> Round(t, e, n)] BY DEF Round
    <2>2. Has(0)
      <3> HIDE DEF e
      <3> QED BY <2>1, Zenon
    <2> HIDE DEF Has
    <2> QED BY <2>2
  <1>2. ASSUME NEW k \in 0 .. N - 1, k \in Good PROVE k + 1 \in Good
    <2>1. PICK v : v = [n \in 0 .. k |-> Round(t, v, n)] BY <1>2, Zenon
    <2> DEFINE z == {ParseStep(t, s) : s \in v[k]}
               w == [n \in 0 .. k + 1 |-> IF n = k + 1 THEN z ELSE v[n]]
    <2>2. ASSUME NEW n \in 0 .. k + 1 PROVE w[n] = Round(t, w, n)
      <3>1. CASE n = k + 1
        <4>1. n # 0 /\ n - 1 = k /\ k \in 0 .. k + 1 /\ k # k + 1 BY <3>1
        <4> HIDE DEF z
        <4>2. w[n] = z /\ w[n - 1] = v[k] BY <3>1, <4>1
        <4> HIDE DEF w
        <4> QED BY <4>1, <4>2, Zenon DEF Round, z
      <3>2. CASE n = 0
        <4>1. w[n] = v[n] /\ n \in 0 .. k BY <3>2
        <4>2. v[n] = Round(t, v, n)
          <5> HIDE DEF w
          <5> QED BY <4>1, <2>1, Zenon
        <4> QED BY <4>1, <4>2, <3>2 DEF Round
      <3>3. CASE n \in 1 .. k
        <4>1. n # 0 /\ n \in 0 .. k /\ n - 1 \in 0 .. k + 1 /\ n - 1 # k + 1 /\ n # k + 1 BY <3>3
        <4> HIDE DEF z
        <4>2. w[n] = v[n] /\ w[n - 1] = v[n - 1] BY <4>1
        <4> HIDE DEF w
        <4>3. v[n] = Round(t, v, n)
          <5> DEFINE b == [m \in 0 .. k |-> Round(t, v, m)]
          <5>1. b[n] = Round(t, v, n) BY <4>1, Zenon
          <5> QED BY <5>1, <2>1
        <4> QED BY <4>1, <4>2, <4>3 DEF Round
      <3> QED BY <3>1, <3>2, <3>3
    <2>3. w = [n \in 0 .. k + 1 |-> Round(t, w, n)]
      <3> DEFINE f == [n \in 0 .. k + 1 |-> Round(t, w, n)]
      <3>1. w = [n \in 0 .. k + 1 |-> w[n]] OBVIOUS
      <3> HIDE DEF w
      <3> QED BY <3>1, <2>2
    <2>4. Has(k + 1)
      <3> HIDE DEF w
      <3> QED BY <2>3, Zenon
    <2>5. k + 1 \in 0 .. N OBVIOUS
    <2> HIDE DEF Has
    <2> QED BY <2>4, <2>5, Zenon
  <1>3. N \in Good
    <2> HIDE DEF Good
    <2>1. \A n \in 0 .. N - 1 : n \in Good => n + 1 \in Good BY <1>2
    <2>2. \A n \in 0 .. N : n \in Good BY <1>1, <2>1, Upward, Zenon
    <2> QED BY <2>2
  <1> HIDE DEF Has
  <1>4. Has(N) BY <1>3
  <1> QED BY <1>4 DEF Has

\* An invariant of the loop, as a set of scans, holds of its result; so does an
\* invariant that counts the rounds.
LEMMA ParsedInvariant ==
    ASSUME NEW t, Len(t) \in Nat, NEW I, Scan \in I[0],
           \A n \in 0 .. Len(t) : \A s \in I[n] : ParseStep(t, s) \in I[n + 1]
    PROVE  ParseRedirections(t) \in I[Len(t) + 1]
  <1> DEFINE N == Len(t) + 1
             v == Rounds(t)
  <1>1. N \in Nat /\ N - 1 = Len(t) OBVIOUS
  <1>2. v = [n \in 0 .. N |-> Round(t, v, n)]
    <2>1. \E u : u = [n \in 0 .. N |-> Round(t, u, n)] BY <1>1, RoundsExist, Zenon
    <2> QED BY <2>1, Zenon DEF Rounds
  <1> HIDE DEF v
  <1>a. \A n \in 0 .. N : v[n] = Round(t, v, n)
    <2> DEFINE b == [m \in 0 .. N |-> Round(t, v, m)]
    <2>1. \A n \in 0 .. N : b[n] = Round(t, v, n) BY Zenon
    <2> HIDE DEF b
    <2>2. v = b BY <1>2, Zenon DEF b
    <2> QED BY <2>1, <2>2
  <1> DEFINE Good == {n \in 0 .. N : \E s \in I[n] : v[n] = {s}}
  <1>3. 0 \in Good
    <2>1. 0 \in 0 .. N BY <1>1
    <2>2. Round(t, v, 0) = {Scan} BY Zenon DEF Round
    <2>3. v[0] = {Scan} BY <2>1, <2>2, <1>a, Zenon
    <2> QED BY <2>1, <2>3
  <1>4. ASSUME NEW n \in 0 .. N - 1, n \in Good PROVE n + 1 \in Good
    <2>1. PICK s \in I[n] : v[n] = {s} BY <1>4
    <2>2. n + 1 \in 0 .. N /\ n + 1 # 0 /\ (n + 1) - 1 = n /\ n \in 0 .. Len(t) BY <1>1
    <2>3. v[n + 1] = {ParseStep(t, x) : x \in v[n]} BY <2>2, <1>a DEF Round
    <2>4. v[n + 1] = {ParseStep(t, s)} BY <2>1, <2>3
    <2>5. ParseStep(t, s) \in I[n + 1] BY <2>1, <2>2
    <2> QED BY <2>2, <2>4, <2>5
  <1>5. N \in Good
    <2> HIDE DEF Good
    <2>1. \A n \in 0 .. N - 1 : n \in Good => n + 1 \in Good BY <1>4
    <2> HIDE DEF N
    <2>2. \A n \in 0 .. N : n \in Good BY <1>1, <1>3, <2>1, Upward, Zenon
    <2>3. N \in 0 .. N BY <1>1
    <2> QED BY <2>2, <2>3
  <1>6. PICK s \in I[N] : v[N] = {s} BY <1>5
  <1>7. ParseRedirections(t) \in v[N]
    <2>1. ParseRedirections(t) = CHOOSE x \in v[N] : TRUE BY RoundsChoice, Zenon DEF v
    <2>2. \E x \in v[N] : TRUE BY <1>6
    <2> QED BY <2>1, <2>2, Zenon
  <1> QED BY <1>6, <1>7

(***************************************************************************)
(* Characters, operators and tokens.                                       *)
(***************************************************************************)
LtC    == "<"
GtC    == ">"
TwoC   == "2"
SpaceC == " "
Chars  == STRING \cup {SpaceC, LtC, GtC, TwoC, "\r", "0", ":", "/"}

LEMMA CharsDiffer == LtC # GtC /\ LtC # TwoC /\ GtC # TwoC /\ SpaceC \in Chars
  BY Zenon DEF LtC, GtC, TwoC, SpaceC, Chars

Op(x, f, m) == [text |-> x, fd |-> f, mode |-> m]

LEMMA OperatorList ==
    Operators = {Op(<<LtC>>, 0, "READ"), Op(<<GtC>>, 1, "TRUNC"), Op(<<GtC, GtC>>, 1, "APPEND"),
                 Op(<<TwoC, GtC>>, 2, "TRUNC"), Op(<<TwoC, GtC, GtC>>, 2, "APPEND")}
  BY Zenon DEF Operators, Op, LtC, GtC, TwoC

LEMMA OperatorFacts ==
    /\ \A o \in Operators : /\ o.fd \in 0 .. 2 /\ o.mode \in {"READ", "TRUNC", "APPEND"}
                            /\ Len(o.text) \in 1 .. 3 /\ o.text # << >>
    /\ \A o, q \in Operators : o.text = q.text => o = q
    /\ "NONE" \notin {"READ", "TRUNC", "APPEND"}
  <1>1. \A o \in Operators : o.fd \in 0 .. 2 /\ o.mode \in {"READ", "TRUNC", "APPEND"} /\ Len(o.text) \in 1 .. 3
                          /\ o.text # << >>
    BY OperatorList, SMTT(30) DEF Op
  <1>2. \A o, q \in Operators : o.text = q.text => o = q
    BY OperatorList, CharsDiffer, SMTT(30) DEF Op
  <1> QED BY <1>1, <1>2

\* The first place from i on that is in B, or the end.
LEMMA FirstStop ==
    ASSUME NEW N \in Nat, NEW i \in 1 .. N + 1, NEW B
    PROVE  \E j \in i .. N + 1 : (j = N + 1 \/ j \in B) /\ \A k \in i .. j - 1 : k \notin B
  <1> DEFINE S == {j \in i .. N + 1 : j = N + 1 \/ j \in B}
  <1>1. S \in SUBSET Nat /\ N + 1 \in S OBVIOUS
  <1>2. PICK j \in S : \A m \in S : j <= m BY <1>1, LeastNumber
  <1>3. \A k \in i .. j - 1 : k \notin B
    <2> SUFFICES ASSUME NEW k \in i .. j - 1, k \in B PROVE FALSE OBVIOUS
    <2>1. k \in S BY <1>2
    <2> QED BY <2>1, <1>2
  <1> QED BY <1>2, <1>3

\* Skips(t, i, j): there are spaces from i up to j, and no space at j.
Skips(t, i, j) == j \in i .. Len(t) + 1 /\ (j = Len(t) + 1 \/ ~IsSpace(t[j])) /\ \A k \in i .. j - 1 : IsSpace(t[k])
Covers(t, i, j) == j \in i .. Len(t) + 1 /\ (j = Len(t) + 1 \/ IsSpace(t[j])) /\ \A k \in i .. j - 1 : ~IsSpace(t[k])

LEMMA SkipFacts ==
    ASSUME NEW t, Len(t) \in Nat, NEW i \in 1 .. Len(t) + 1
    PROVE  Skips(t, i, SkipSpaces(t, i))
  <1> DEFINE B == {j \in 1 .. Len(t) : ~IsSpace(t[j])}
  <1>1. PICK j \in i .. Len(t) + 1 : (j = Len(t) + 1 \/ j \in B) /\ \A k \in i .. j - 1 : k \notin B
    <2> HIDE DEF B
    <2> QED BY FirstStop, Zenon
  <1>2. \A k \in i .. j - 1 : k \in 1 .. Len(t) OBVIOUS
  <1>3. (j = Len(t) + 1 \/ ~IsSpace(t[j])) /\ \A k \in i .. j - 1 : IsSpace(t[k]) BY <1>1, <1>2
  <1> QED BY <1>3, Zenon DEF SkipSpaces, Skips

LEMMA CoverFacts ==
    ASSUME NEW t, Len(t) \in Nat, NEW i \in 1 .. Len(t) + 1
    PROVE  Covers(t, i, WordEnd(t, i))
  <1> DEFINE B == {j \in 1 .. Len(t) : IsSpace(t[j])}
  <1>1. PICK j \in i .. Len(t) + 1 : (j = Len(t) + 1 \/ j \in B) /\ \A k \in i .. j - 1 : k \notin B
    <2> HIDE DEF B
    <2> QED BY FirstStop, Zenon
  <1>2. \A k \in i .. j - 1 : k \in 1 .. Len(t) OBVIOUS
  <1>3. (j = Len(t) + 1 \/ IsSpace(t[j])) /\ \A k \in i .. j - 1 : ~IsSpace(t[k]) BY <1>1, <1>2
  <1> QED BY <1>3, Zenon DEF WordEnd, Covers

\* A piece of a text.
LEMMA Piece ==
    ASSUME NEW A, NEW t \in Seq(A), NEW i \in 1 .. Len(t) + 1, NEW j \in i - 1 .. Len(t)
    PROVE  /\ SubSeq(t, i, j) \in Seq(A) /\ Len(SubSeq(t, i, j)) = j - i + 1
           /\ \A k \in 1 .. j - i + 1 : SubSeq(t, i, j)[k] = t[i + k - 1]
           /\ SubSeq(t, i, j) = << >> <=> j = i - 1
  <1>1. Len(t) \in Nat /\ \A k \in i .. j : t[k] \in A BY LenProperties, ElementOfSeq
  <1>2. /\ SubSeq(t, i, j) \in Seq(A)
        /\ Len(SubSeq(t, i, j)) = IF i <= j THEN j - i + 1 ELSE 0
        /\ \A k \in 1 .. j - i + 1 : SubSeq(t, i, j)[k] = t[i + k - 1]
    BY <1>1, SubSeqProperties
  <1>3. Len(SubSeq(t, i, j)) = j - i + 1 BY <1>1, <1>2
  <1>4. SubSeq(t, i, j) = << >> <=> Len(SubSeq(t, i, j)) = 0 BY <1>2, EmptySeq
  <1> QED BY <1>1, <1>2, <1>3, <1>4

\* The next token of a text.
LEMMA TokenFacts ==
    ASSUME NEW A, NEW t \in Seq(A), NEW i \in 1 .. Len(t) + 1
    PROVE  LET k == NextToken(t, i)
               s == SkipSpaces(t, i) IN
           /\ Skips(t, i, s) /\ Covers(t, s, k.cursor)
           /\ s \in 1 .. Len(t) + 1 /\ k.cursor \in s .. Len(t) + 1 /\ k.cursor \in 1 .. Len(t) + 1
           /\ k.word \in Seq(A) /\ Len(k.word) = k.cursor - s
           /\ k.word = SubSeq(t, s, k.cursor - 1)
           /\ k.word = << >> <=> s = Len(t) + 1
           /\ k.word = << >> <=> k.cursor = s
  <1> DEFINE s == SkipSpaces(t, i)
             e == WordEnd(t, s)
  <1>1. Len(t) \in Nat BY LenProperties
  <1>2. Skips(t, i, s) BY <1>1, SkipFacts
  <1>3. s \in 1 .. Len(t) + 1 BY <1>1, <1>2 DEF Skips
  <1>4. Covers(t, s, e) BY <1>1, <1>3, CoverFacts
  <1> HIDE DEF s, e
  <1>5. e \in s .. Len(t) + 1 /\ e \in 1 .. Len(t) + 1 BY <1>1, <1>3, <1>4 DEF Covers
  <1>6. NextToken(t, i).word = SubSeq(t, s, e - 1) /\ NextToken(t, i).cursor = e BY DEF NextToken, s, e
  <1>7. e = s <=> s = Len(t) + 1
    <2>1. s = Len(t) + 1 => e = s BY <1>1, <1>3, <1>5
    <2>2. s # Len(t) + 1 => ~IsSpace(t[s]) BY <1>2 DEF Skips
    <2>3. e = s => s = Len(t) + 1 \/ IsSpace(t[s]) BY <1>4 DEF Covers
    <2> QED BY <2>1, <2>2, <2>3
  <1>8. e - 1 \in s - 1 .. Len(t) BY <1>1, <1>3, <1>5
  <1>9. /\ SubSeq(t, s, e - 1) \in Seq(A) /\ Len(SubSeq(t, s, e - 1)) = (e - 1) - s + 1
        /\ SubSeq(t, s, e - 1) = << >> <=> e - 1 = s - 1
    <2> DEFINE f == e - 1
    <2>1. f \in s - 1 .. Len(t) BY <1>8
    <2> HIDE DEF f
    <2>2. /\ SubSeq(t, s, f) \in Seq(A) /\ Len(SubSeq(t, s, f)) = f - s + 1
          /\ \A k \in 1 .. f - s + 1 : SubSeq(t, s, f)[k] = t[s + k - 1]
          /\ SubSeq(t, s, f) = << >> <=> f = s - 1
      BY <1>3, <2>1, Piece, ZenonT(40)
    <2> QED BY <2>2, Zenon DEF f
  <1>10. (e - 1) - s + 1 = e - s /\ (e - 1 = s - 1 <=> e = s) BY <1>1, <1>3, <1>5
  <1> QED BY <1>2, <1>3, <1>4, <1>5, <1>6, <1>7, <1>9, <1>10, Zenon DEF s, e

(***************************************************************************)
(* What every round keeps: texts that fit their buffers.                   *)
(***************************************************************************)
BufferTexts        == {w \in Seq(Chars) : Len(w) < LineMax}
Modes        == {"NONE", "READ", "TRUNC", "APPEND"}
Redirections == [mode : Modes, path : BufferTexts]
Plans        == [0 .. 2 -> Redirections]
Scans(t)     == [cursor : 1 .. Len(t) + 1, plan : Plans, command : BufferTexts, verdict : {"scan", "ok", "bad"}]

LEMMA EmptyTyped == << >> \in BufferTexts /\ Unused \in Redirections /\ EmptyPlan \in Plans
  <1>1. << >> \in BufferTexts
    <2>1. << >> \in Seq(Chars) /\ Len(<< >>) = 0 OBVIOUS
    <2> QED BY <2>1, CommandLineAssumption DEF BufferTexts
  <1>2. Unused \in Redirections
    <2> HIDE DEF BufferTexts
    <2> QED BY <1>1 DEF Unused, Redirections, Modes
  <1> QED BY <1>1, <1>2, Zenon DEF EmptyPlan, Plans

LEMMA ScanTyped == \A t : Len(t) \in Nat => Scan \in Scans(t)
  BY EmptyTyped DEF Scan, Scans

LEMMA BadTyped == \A t : \A s \in Scans(t) : [s EXCEPT !.verdict = "bad"] \in Scans(t) /\ [s EXCEPT !.verdict = "ok"] \in Scans(t)
  BY DEF Scans

\* How a scan goes on with a redirection.
StoreGoes(s, op, path, c) ==
    LET r == StoreRedirection(s, op, path, c) IN
    IF s.plan[op.fd].mode # "NONE" \/ path = << >> \/ Len(path) >= LineMax
    THEN r.verdict = "bad"
    ELSE /\ r.verdict = s.verdict /\ r.command = s.command /\ r.cursor = c
         /\ r.plan = [s.plan EXCEPT ![op.fd] = [mode |-> op.mode, path |-> path]]

LEMMA StoreTyped ==
    ASSUME NEW t, NEW s \in Scans(t), NEW op \in Operators, NEW path \in Seq(Chars), NEW c \in 1 .. Len(t) + 1
    PROVE  StoreRedirection(s, op, path, c) \in Scans(t) /\ StoreGoes(s, op, path, c)
  <1>1. op.fd \in 0 .. 2 /\ op.mode \in Modes BY OperatorFacts DEF Modes
  <1>2. CASE s.plan[op.fd].mode # "NONE" \/ path = << >> \/ Len(path) >= LineMax
    BY <1>2, BadTyped DEF StoreRedirection, Scans, StoreGoes
  <1>3. CASE ~(s.plan[op.fd].mode # "NONE" \/ path = << >> \/ Len(path) >= LineMax)
    <2> DEFINE d == [mode |-> op.mode, path |-> path]
    <2>1. path \in BufferTexts BY <1>3, LenProperties, CommandLineAssumption DEF BufferTexts
    <2>2. d \in Redirections BY <2>1, <1>1 DEF Redirections
    <2> HIDE DEF d
    <2>3. StoreRedirection(s, op, path, c) = [s EXCEPT !.plan[op.fd] = d, !.cursor = c]
      BY <1>3, Zenon DEF StoreRedirection, d
    <2>4. s.plan \in Plans BY DEF Scans
    <2>5. [s.plan EXCEPT ![op.fd] = d] \in Plans BY <2>2, <2>4, <1>1 DEF Plans
    <2>6. [s EXCEPT !.plan[op.fd] = d, !.cursor = c] \in Scans(t) BY <2>5 DEF Scans
    <2>7. LET r == [s EXCEPT !.plan[op.fd] = d, !.cursor = c] IN
          r.verdict = s.verdict /\ r.command = s.command /\ r.cursor = c /\ r.plan = [s.plan EXCEPT ![op.fd] = d]
      BY DEF Scans
    <2> QED BY <1>3, <2>3, <2>6, <2>7, Zenon DEF d, StoreGoes
  <1> QED BY <1>2, <1>3, Zenon

\* A command with a word appended, and how a scan goes on with it.
Appended(c, w) == IF c = << >> THEN w ELSE c \o <<SpaceC>> \o w

AppendGoes(s, w, c) ==
    LET text == Appended(s.command, w)
        r    == AppendCommandToken(s, w, c) IN
    IF (s.command # << >> /\ Len(s.command) >= LineMax - 1) \/ Len(text) >= LineMax
    THEN r.verdict = "bad"
    ELSE r.verdict = s.verdict /\ r.command = text /\ r.cursor = c /\ r.plan = s.plan

LEMMA AppendTyped ==
    ASSUME NEW t, NEW s \in Scans(t), NEW w \in Seq(Chars), NEW c \in 1 .. Len(t) + 1
    PROVE  AppendCommandToken(s, w, c) \in Scans(t) /\ AppendGoes(s, w, c)
  <1> DEFINE text == Appended(s.command, w)
             long == (s.command # << >> /\ Len(s.command) >= LineMax - 1) \/ Len(text) >= LineMax
  <1>1. s.command \in Seq(Chars) BY DEF Scans, BufferTexts
  <1>2. text \in Seq(Chars)
    <2>1. <<SpaceC>> \in Seq(Chars) BY CharsDiffer
    <2>2. s.command \o <<SpaceC>> \in Seq(Chars) BY <1>1, <2>1, ConcatProperties
    <2>3. s.command \o <<SpaceC>> \o w \in Seq(Chars) BY <2>2, ConcatProperties
    <2> QED BY <2>3 DEF Appended
  <1>3. AppendCommandToken(s, w, c) = IF long THEN [s EXCEPT !.verdict = "bad"] ELSE [s EXCEPT !.command = text, !.cursor = c]
    BY Zenon DEF AppendCommandToken, SpaceC, Appended
  <1> HIDE DEF text
  <1>4. CASE long
    BY <1>3, <1>4, BadTyped DEF Scans, text, AppendGoes
  <1>5. CASE ~long
    <2>1. text \in BufferTexts BY <1>2, <1>5, LenProperties, CommandLineAssumption DEF BufferTexts
    <2>2. [s EXCEPT !.command = text, !.cursor = c] \in Scans(t) BY <2>1 DEF Scans
    <2>3. LET r == [s EXCEPT !.command = text, !.cursor = c] IN
          r.verdict = s.verdict /\ r.command = text /\ r.cursor = c /\ r.plan = s.plan
      BY DEF Scans
    <2> QED BY <1>3, <1>5, <2>2, <2>3, Zenon DEF text, AppendGoes
  <1> QED BY <1>4, <1>5

LEMMA ClassifyIsOperator ==
    ASSUME NEW w \in Seq(Chars), IsRedirection(w)
    PROVE  /\ Classify(w) \in Operators /\ Starts(w, Classify(w).text)
           /\ \A q \in OperatorsOf(w) : Len(q.text) <= Len(Classify(w).text)
  <1> DEFINE S == {n \in 0 .. 3 : \E o \in OperatorsOf(w) : Len(o.text) = 3 - n}
  <1>0. \A x \in 1 .. 3 : 3 - x \in 0 .. 3 /\ x = 3 - (3 - x) OBVIOUS
  <1>1. \A o \in OperatorsOf(w) : o \in Operators /\ Len(o.text) \in 1 .. 3 BY OperatorFacts DEF OperatorsOf
  <1>2. S # {}
    <2>1. PICK o \in OperatorsOf(w) : TRUE BY DEF IsRedirection
    <2>2. 3 - Len(o.text) \in 0 .. 3 /\ Len(o.text) = 3 - (3 - Len(o.text)) BY <1>0, <1>1, Zenon
    <2>3. 3 - Len(o.text) \in S BY <2>2
    <2> QED BY <2>3
  <1>3. PICK n \in S : \A m \in S : n <= m
    <2>1. S \in SUBSET Nat OBVIOUS
    <2> HIDE DEF S
    <2> QED BY <1>2, <2>1, LeastNumber
  <1>4. PICK o \in OperatorsOf(w) : Len(o.text) = 3 - n BY <1>3
  <1>5. \A q \in OperatorsOf(w) : Len(q.text) <= Len(o.text)
    <2> SUFFICES ASSUME NEW q \in OperatorsOf(w) PROVE Len(q.text) <= Len(o.text) OBVIOUS
    <2>1. Len(q.text) \in 1 .. 3 BY <1>1
    <2>2. 3 - Len(q.text) \in S
      <3>1. 3 - Len(q.text) \in 0 .. 3 /\ Len(q.text) = 3 - (3 - Len(q.text)) BY <1>0, <2>1, Zenon
      <3> QED BY <3>1
    <2>3. n <= 3 - Len(q.text) /\ n \in 0 .. 3 BY <2>2, <1>3
    <2> QED BY <1>4, <2>1, <2>3
  <1>6. /\ Classify(w) \in OperatorsOf(w)
        /\ \A q \in OperatorsOf(w) : Len(q.text) <= Len(Classify(w).text)
    BY <1>4, <1>5, Zenon DEF Classify
  <1> QED BY <1>6 DEF OperatorsOf

\* The outcomes of a round.
LEMMA ParseCases ==
    ASSUME NEW t, NEW s
    PROVE  LET tok  == NextToken(t, s.cursor)
               path == NextToken(t, tok.cursor)
               op   == Classify(tok.word)
           IN
           /\ s.verdict # "scan" => ParseStep(t, s) = s
           /\ s.verdict = "scan" /\ tok.word = << >> =>
                 ParseStep(t, s) = [s EXCEPT !.verdict = IF s.command = << >> /\ Redirected(s.plan) THEN "bad" ELSE "ok"]
           /\ s.verdict = "scan" /\ tok.word # << >> =>
                 /\ ~IsRedirection(tok.word) => ParseStep(t, s) = AppendCommandToken(s, tok.word, tok.cursor)
                 /\ IsRedirection(tok.word) /\ Len(tok.word) > Len(op.text) =>
                       ParseStep(t, s) = StoreRedirection(s, op, SubSeq(tok.word, Len(op.text) + 1, Len(tok.word)), tok.cursor)
                 /\ IsRedirection(tok.word) /\ ~(Len(tok.word) > Len(op.text)) =>
                       /\ path.word = << >> \/ IsRedirection(path.word) => ParseStep(t, s) = [s EXCEPT !.verdict = "bad"]
                       /\ path.word # << >> /\ ~IsRedirection(path.word) =>
                             ParseStep(t, s) = StoreRedirection(s, op, path.word, path.cursor)
  BY Zenon DEF ParseStep

\* The file that is glued to an operator.
LEMMA GluedPath ==
    ASSUME NEW w \in Seq(Chars), NEW op \in Operators, Len(w) > Len(op.text)
    PROVE  LET p == SubSeq(w, Len(op.text) + 1, Len(w)) IN
           p \in Seq(Chars) /\ p # << >> /\ Len(p) < Len(w)
  <1>1. Len(w) \in Nat /\ Len(op.text) \in 1 .. 3 BY LenProperties, OperatorFacts
  <1>2. Len(op.text) + 1 \in 1 .. Len(w) + 1 /\ Len(w) \in (Len(op.text) + 1) - 1 .. Len(w) /\ Len(w) # (Len(op.text) + 1) - 1
        /\ Len(w) - (Len(op.text) + 1) + 1 < Len(w)
    <2>1. \A n \in Nat, m \in 1 .. 3 : n > m =>
             m + 1 \in 1 .. n + 1 /\ n \in (m + 1) - 1 .. n /\ n # (m + 1) - 1 /\ n - (m + 1) + 1 < n
      OBVIOUS
    <2> QED BY <1>1, <2>1, Zenon
  <1>3. LET i == Len(op.text) + 1 IN
        /\ SubSeq(w, i, Len(w)) \in Seq(Chars) /\ Len(SubSeq(w, i, Len(w))) = Len(w) - i + 1
        /\ SubSeq(w, i, Len(w)) = << >> <=> Len(w) = i - 1
    <2> DEFINE i == Len(op.text) + 1
    <2>1. i \in 1 .. Len(w) + 1 /\ Len(w) \in i - 1 .. Len(w) BY <1>2
    <2> HIDE DEF i
    <2>2. /\ SubSeq(w, i, Len(w)) \in Seq(Chars) /\ Len(SubSeq(w, i, Len(w))) = Len(w) - i + 1
          /\ \A k \in 1 .. Len(w) - i + 1 : SubSeq(w, i, Len(w))[k] = w[i + k - 1]
          /\ SubSeq(w, i, Len(w)) = << >> <=> Len(w) = i - 1
      BY <2>1, Piece, ZenonT(40)
    <2> QED BY <2>2 DEF i
  <1> QED BY <1>2, <1>3, Zenon

LEMMA StoreIn ==
    ASSUME NEW t, NEW s \in Scans(t), NEW op \in Operators, NEW path \in Seq(Chars), NEW c \in 1 .. Len(t) + 1
    PROVE  StoreRedirection(s, op, path, c) \in Scans(t)
  BY StoreTyped, Zenon

LEMMA AppendIn ==
    ASSUME NEW t, NEW s \in Scans(t), NEW w \in Seq(Chars), NEW c \in 1 .. Len(t) + 1
    PROVE  AppendCommandToken(s, w, c) \in Scans(t)
  BY AppendTyped, Zenon

LEMMA StepTyped ==
    ASSUME NEW t \in Seq(Chars), NEW s \in Scans(t)
    PROVE  ParseStep(t, s) \in Scans(t)
  <1> DEFINE tok  == NextToken(t, s.cursor)
             path == NextToken(t, tok.cursor)
             op   == Classify(tok.word)
  <1>1. s.cursor \in 1 .. Len(t) + 1 BY DEF Scans
  <1>2. tok.word \in Seq(Chars) /\ tok.cursor \in 1 .. Len(t) + 1 BY <1>1, TokenFacts
  <1>3. path.word \in Seq(Chars) /\ path.cursor \in 1 .. Len(t) + 1
    <2> HIDE DEF tok
    <2> QED BY <1>2, TokenFacts
  <1> HIDE DEF tok, path, op
  <1>4. /\ s.verdict # "scan" => ParseStep(t, s) = s
        /\ s.verdict = "scan" /\ tok.word = << >> =>
              ParseStep(t, s) = [s EXCEPT !.verdict = IF s.command = << >> /\ Redirected(s.plan) THEN "bad" ELSE "ok"]
        /\ s.verdict = "scan" /\ tok.word # << >> =>
              /\ ~IsRedirection(tok.word) => ParseStep(t, s) = AppendCommandToken(s, tok.word, tok.cursor)
              /\ IsRedirection(tok.word) /\ Len(tok.word) > Len(op.text) =>
                    ParseStep(t, s) = StoreRedirection(s, op, SubSeq(tok.word, Len(op.text) + 1, Len(tok.word)), tok.cursor)
              /\ IsRedirection(tok.word) /\ ~(Len(tok.word) > Len(op.text)) =>
                    /\ path.word = << >> \/ IsRedirection(path.word) => ParseStep(t, s) = [s EXCEPT !.verdict = "bad"]
                    /\ path.word # << >> /\ ~IsRedirection(path.word) =>
                          ParseStep(t, s) = StoreRedirection(s, op, path.word, path.cursor)
    BY ParseCases DEF tok, path, op
  <1>5. CASE s.verdict # "scan" BY <1>4, <1>5
  <1>6. CASE s.verdict = "scan" /\ tok.word = << >> BY <1>4, <1>6, BadTyped
  <1>7. CASE s.verdict = "scan" /\ tok.word # << >> /\ ~IsRedirection(tok.word)
    BY <1>2, <1>4, <1>7, AppendIn
  <1>8. CASE s.verdict = "scan" /\ tok.word # << >> /\ IsRedirection(tok.word)
    <2>1. op \in Operators BY <1>2, <1>8, ClassifyIsOperator DEF op
    <2>2. CASE Len(tok.word) > Len(op.text)
      <3> DEFINE p == SubSeq(tok.word, Len(op.text) + 1, Len(tok.word))
      <3>1. p \in Seq(Chars) BY <1>2, <2>1, <2>2, GluedPath
      <3> HIDE DEF p
      <3>2. ParseStep(t, s) = StoreRedirection(s, op, p, tok.cursor) BY <1>4, <1>8, <2>2, Zenon DEF p
      <3> QED BY <3>1, <3>2, <2>1, <1>2, StoreIn
    <2>3. CASE ~(Len(tok.word) > Len(op.text)) /\ (path.word = << >> \/ IsRedirection(path.word))
      BY <1>4, <1>8, <2>3, BadTyped
    <2>4. CASE ~(Len(tok.word) > Len(op.text)) /\ path.word # << >> /\ ~IsRedirection(path.word)
      <3>1. ParseStep(t, s) = StoreRedirection(s, op, path.word, path.cursor) BY <1>4, <1>8, <2>4, Zenon
      <3> QED BY <3>1, <2>1, <1>3, StoreIn
    <2> QED BY <2>2, <2>3, <2>4
  <1> QED BY <1>5, <1>6, <1>7, <1>8

\* What the parser makes of any line fits the buffers of its plan.
LEMMA ParsedTyped ==
    ASSUME NEW t \in Seq(Chars)
    PROVE  ParseRedirections(t) \in Scans(t)
  <1> DEFINE I == [n \in 0 .. Len(t) + 1 |-> Scans(t)]
  <1>1. Len(t) \in Nat BY LenProperties
  <1>2. \A n \in 0 .. Len(t) : n \in 0 .. Len(t) + 1 /\ n + 1 \in 0 .. Len(t) + 1 BY <1>1
  <1>3. 0 \in 0 .. Len(t) + 1 /\ Len(t) + 1 \in 0 .. Len(t) + 1 BY <1>1
  <1>4. \A n \in 0 .. Len(t) + 1 : I[n] = Scans(t) OBVIOUS
  <1> HIDE DEF I
  <1>5. Scan \in I[0] BY <1>1, <1>3, <1>4, ScanTyped
  <1>6. \A n \in 0 .. Len(t) : \A s \in I[n] : ParseStep(t, s) \in I[n + 1]
    <2> SUFFICES ASSUME NEW n \in 0 .. Len(t), NEW s \in I[n] PROVE ParseStep(t, s) \in I[n + 1] OBVIOUS
    <2>1. s \in Scans(t) BY <1>2, <1>4
    <2>2. ParseStep(t, s) \in Scans(t) BY <2>1, StepTyped
    <2> QED BY <2>2, <1>2, <1>4
  <1>7. ParseRedirections(t) \in I[Len(t) + 1] BY <1>1, <1>5, <1>6, ParsedInvariant
  <1> QED BY <1>3, <1>4, <1>7

\* Any string is a character here, so what is typed is a text.
LEMMA TextsOfStrings == Seq(STRING) \subseteq Seq(Chars)
  <1> SUFFICES ASSUME NEW s \in Seq(STRING) PROVE s \in Seq(Chars) OBVIOUS
  <1>1. Len(s) \in Nat /\ s \in [1 .. Len(s) -> STRING] BY LenProperties
  <1>2. STRING \subseteq Chars BY DEF Chars
  <1> HIDE DEF Chars
  <1>3. s \in [1 .. Len(s) -> Chars] BY <1>1, <1>2
  <1> QED BY <1>1, <1>3, SeqDef

LEMMA SevenTyped == \A c \in Chars : Seven(c) \in Chars
  <1>1. STRING \subseteq Chars BY DEF Chars
  <1> QED BY <1>1, HighBitAssumption, Zenon DEF Seven

\* The marks that end a line.
LEMMA EndFacts ==
    ASSUME NEW t, Len(t) \in Nat, NEW i \in 1 .. Len(t) + 1
    PROVE  /\ EndOfLine(t, i) \in i .. Len(t) + 1
           /\ EndOfLine(t, i) = Len(t) + 1 \/ t[EndOfLine(t, i)] \in LineEnd
           /\ \A k \in i .. EndOfLine(t, i) - 1 : t[k] \notin LineEnd
  <1> DEFINE B == {j \in 1 .. Len(t) : t[j] \in LineEnd}
  <1>1. PICK j \in i .. Len(t) + 1 : (j = Len(t) + 1 \/ j \in B) /\ \A k \in i .. j - 1 : k \notin B
    <2> HIDE DEF B
    <2> QED BY FirstStop, Zenon
  <1>2. \A k \in i .. j - 1 : k \in 1 .. Len(t) OBVIOUS
  <1>3. (j = Len(t) + 1 \/ t[j] \in LineEnd) /\ \A k \in i .. j - 1 : t[k] \notin LineEnd BY <1>1, <1>2
  <1> QED BY <1>3, Zenon DEF EndOfLine

\* Seven bits of every character.
Sevens(t) == [i \in DOMAIN t |-> Seven(t[i])]

LEMMA SevensTyped ==
    ASSUME NEW t \in Seq(Chars)
    PROVE  /\ Sevens(t) \in Seq(Chars) /\ Len(Sevens(t)) = Len(t)
           /\ \A i \in 1 .. Len(t) : Sevens(t)[i] = Seven(t[i])
  <1>1. Len(t) \in Nat /\ DOMAIN t = 1 .. Len(t) /\ \A i \in 1 .. Len(t) : t[i] \in Chars
    BY LenProperties, ElementOfSeq
  <1>2. Sevens(t) = [i \in 1 .. Len(t) |-> Seven(t[i])] BY <1>1, Zenon DEF Sevens
  <1>3. \A i \in 1 .. Len(t) : Seven(t[i]) \in Chars BY <1>1, SevenTyped
  <1>4. Sevens(t) \in [1 .. Len(t) -> Chars] /\ DOMAIN Sevens(t) = 1 .. Len(t) BY <1>2, <1>3
  <1>5. Sevens(t) \in Seq(Chars) BY <1>1, <1>4, SeqDef
  <1>6. Len(Sevens(t)) = Len(t) BY <1>1, <1>4, <1>5, LenProperties
  <1> QED BY <1>2, <1>5, <1>6

\* neosh_clean_line yields a text that fits its buffer.
LEMMA CleanTyped ==
    ASSUME NEW raw \in Seq(Chars), NEW c \in Seq(Chars)
    PROVE  CleanLine(raw, c) \in BufferTexts
  <1> DEFINE text  == Sevens(raw)
             from  == IF HasPrompt(raw, c) THEN Len(c) + 1 ELSE 1
             first == SkipSpaces(text, from)
             stop  == EndOfLine(text, first)
             upto  == IF stop - first < LineMax THEN stop - 1 ELSE first + LineMax - 2
  <1>1. text \in Seq(Chars) /\ Len(text) = Len(raw) BY SevensTyped
  <1>2. Len(raw) \in Nat /\ Len(c) \in Nat BY LenProperties
  <1>3. from \in 1 .. Len(text) + 1
    <2>1. HasPrompt(raw, c) => Len(c) <= Len(raw) BY Zenon DEF HasPrompt
    <2> QED BY <1>1, <1>2, <2>1
  <1> HIDE DEF text, from
  <1>4. first \in 1 .. Len(text) + 1 BY <1>1, <1>2, <1>3, SkipFacts DEF Skips
  <1> HIDE DEF first
  <1>5. stop \in first .. Len(text) + 1 BY <1>1, <1>2, <1>4, EndFacts
  <1> HIDE DEF stop
  <1>6. upto \in first - 1 .. Len(text) /\ upto - first + 1 < LineMax
    BY <1>1, <1>2, <1>4, <1>5, CommandLineAssumption
  <1> HIDE DEF upto
  <1>7. SubSeq(text, first, upto) \in Seq(Chars) /\ Len(SubSeq(text, first, upto)) = upto - first + 1
    BY <1>1, <1>4, <1>6, Piece
  <1>8. CleanLine(raw, c) = SubSeq(text, first, upto)
    BY Zenon DEF CleanLine, text, from, first, stop, upto, Sevens
  <1> QED BY <1>6, <1>7, <1>8 DEF BufferTexts

(***************************************************************************)
(* The types of the shell's variables.                                     *)
(***************************************************************************)
Entries == [text : Seq(Chars), typed : Typed, whole : BOOLEAN]

Texts ==
    /\ cwd \in Seq(Chars) /\ core \in BufferTexts /\ saved \in BufferTexts /\ previous \in BufferTexts
    /\ plan \in Plans /\ queue \in Seq(Entries)

Control ==
    /\ pc \in Pcs
    /\ \A f \in 0 .. MaxFds - 1 : fds[f].kind \in {"free", "console", "file"}
    /\ child.state \in {"NONE", "LIVE", "ZOMBIE"} /\ child.status \in {"OK", "ERR", "INT"}
    /\ owner \in {"shell", "child", "other", "none"} /\ pending \in BOOLEAN

TypeInv == Shapes /\ Texts /\ Control

LEMMA TypeInvImplies == TypeInv => TypeOK
  <1> SUFFICES ASSUME TypeInv PROVE TypeOK OBVIOUS
  <1>1. Len(core) < LineMax /\ Len(saved) < LineMax /\ Len(previous) < LineMax
    BY DEF TypeInv, Texts, BufferTexts
  <1>2. \A i \in Std : plan[i].mode \in {"NONE", "READ", "TRUNC", "APPEND"} /\ Len(plan[i].path) < LineMax
    BY DEF TypeInv, Texts, Plans, Redirections, BufferTexts, Std, Modes
  <1>3. DOMAIN fds = 0 .. MaxFds - 1 BY DEF TypeInv, Shapes
  <1> QED BY <1>1, <1>2, <1>3 DEF TypeInv, Shapes, Control, TypeOK

LEMMA DirsAreTexts == \A p \in DOMAIN Places : Places[p] \in Seq(Chars)
  BY TextsAssumption, TextsOfStrings

LEMMA InitTyped == Init => TypeInv
  <1> SUFFICES ASSUME Init PROVE TypeInv OBVIOUS
  <1>1. Root \in Seq(Chars) BY DirsAreTexts, TextsAssumption DEF Root
  <1>2. << >> \in Seq(Entries) OBVIOUS
  <1>3. Texts BY <1>1, <1>2, EmptyTyped DEF Init, Texts
  <1>4. Control BY DEF Init, Control, Pcs, NoChild, StdFds, Console, Free
  <1> QED BY <1>3, <1>4, InitInv DEF Inv, TypeInv

\* A step keeps the texts when it keeps the variables that hold them.
LEMMA TextsKept ==
    ASSUME Texts, UNCHANGED <<cwd, core, saved, previous, plan, queue>> PROVE Texts'
  BY DEF Texts

LEMMA DropTyped == ASSUME DropCommand PROVE plan' \in Plans /\ saved' \in BufferTexts
  BY EmptyTyped DEF DropCommand

LEMMA PromptTexts == ASSUME Texts, PrintPrompt PROVE Texts'
  <1>1. cwd' = cwd /\ previous' = previous /\ queue' = queue BY DEF PrintPrompt, envVars
  <1>2. plan' \in Plans /\ saved' \in BufferTexts BY DropTyped DEF PrintPrompt
  <1>3. core' \in BufferTexts
    <2>1. CASE core' = << >> BY <2>1, EmptyTyped
    <2>2. CASE GetcwdFits(LineMax - 2) /\ core' = PromptCore(cwd)
      <3>1. cwd \in Seq(Chars) /\ Len(cwd) < LineMax - 2 BY <2>2 DEF Texts, GetcwdFits
      <3>2. core' = Append(cwd, GtC) BY <2>2 DEF PromptCore, GtC
      <3>3. GtC \in Chars BY Zenon DEF GtC, Chars
      <3>4. core' \in Seq(Chars) /\ Len(core') = Len(cwd) + 1 BY <3>1, <3>2, <3>3, AppendProperties
      <3>5. Len(cwd) \in Nat BY <3>1, LenProperties
      <3>6. Len(core') < LineMax BY <3>1, <3>4, <3>5, CommandLineAssumption
      <3> QED BY <3>4, <3>6 DEF BufferTexts
    <2> QED BY <2>1, <2>2 DEF PrintPrompt
  <1> QED BY <1>1, <1>2, <1>3 DEF Texts

\* What a read takes of a line, and what it leaves, are texts.
LEMMA ChunkTyped ==
    ASSUME NEW e \in Entries
    PROVE  Chunk(e) \in Seq(Chars) /\ Leftover(e) \in Seq(Entries)
  <1>1. e.text \in Seq(Chars) /\ Len(e.text) \in Nat BY LenProperties DEF Entries
  <1>2. CASE Len(e.text) < LineMax BY <1>1, <1>2 DEF Chunk, Leftover
  <1>3. CASE ~(Len(e.text) < LineMax)
    <2> DEFINE n == LineMax - 1
               m == Len(e.text)
    <2>1. /\ 1 \in 1 .. m + 1 /\ n \in 1 - 1 .. m
          /\ LineMax \in 1 .. m + 1 /\ m \in LineMax - 1 .. m
      BY <1>1, <1>3, CommandLineAssumption
    <2>2. SubSeq(e.text, 1, n) \in Seq(Chars)
      <3> HIDE DEF n
      <3> QED BY <1>1, <2>1, Piece
    <2>3. SubSeq(e.text, LineMax, m) \in Seq(Chars)
      BY <1>1, <2>1, Piece
    <2>4. [e EXCEPT !.text = SubSeq(e.text, LineMax, m), !.whole = FALSE] \in Entries
      <3> DEFINE rest == SubSeq(e.text, LineMax, m)
      <3>1. rest \in Seq(Chars) BY <2>3
      <3> HIDE DEF rest
      <3>2. [e EXCEPT !.text = rest, !.whole = FALSE] \in Entries BY <3>1 DEF Entries
      <3> QED BY <3>2 DEF rest
    <2>5. Chunk(e) = SubSeq(e.text, 1, n) BY <1>3, Zenon DEF Chunk
    <2>6. Leftover(e) = <<[e EXCEPT !.text = SubSeq(e.text, LineMax, m), !.whole = FALSE]>>
      BY <1>3, Zenon DEF Leftover
    <2> QED
      <3> DEFINE r == [e EXCEPT !.text = SubSeq(e.text, LineMax, m), !.whole = FALSE]
      <3>1. r \in Entries BY <2>4
      <3> HIDE DEF r
      <3>2. <<r>> \in Seq(Entries) BY <3>1
      <3>3. Leftover(e) = <<r>> BY <2>6 DEF r
      <3> QED BY <2>2, <2>5, <3>2, <3>3
  <1> QED BY <1>2, <1>3

LEMMA ReadTexts == ASSUME Texts, ReadLine PROVE Texts'
  <1> DEFINE e == Head(queue)
             t == CleanLine(Chunk(e), core)
  <1>1. queue \in Seq(Entries) /\ queue # << >> BY DEF Texts, ReadLine
  <1>2. e \in Entries /\ Tail(queue) \in Seq(Entries) BY <1>1, HeadTailProperties
  <1>3. queue' = Leftover(e) \o Tail(queue) /\ plan' = ParseRedirections(t).plan
        /\ UNCHANGED <<cwd, core, saved, previous>>
    BY DEF ReadLine
  <1> HIDE DEF e
  <1>4. Chunk(e) \in Seq(Chars) /\ Leftover(e) \in Seq(Entries) BY <1>2, ChunkTyped
  <1>5. queue' \in Seq(Entries) BY <1>2, <1>3, <1>4, ConcatProperties
  <1>6. t \in Seq(Chars) BY <1>4, CleanTyped DEF Texts, BufferTexts
  <1> HIDE DEF t
  <1>7. plan' \in Plans BY <1>3, <1>6, ParsedTyped DEF Scans
  <1> QED BY <1>3, <1>5, <1>7 DEF Texts

LEMMA SaveTexts == ASSUME Texts, SaveCwd PROVE Texts'
  <1>1. saved' = saved \/ (GetcwdFits(LineMax) /\ saved' = cwd) BY DEF SaveCwd
  <1>2. saved' \in BufferTexts BY <1>1 DEF Texts, GetcwdFits, BufferTexts
  <1> QED BY <1>2 DEF Texts, SaveCwd, envVars

LEMMA CdTexts == ASSUME Texts, Cd PROVE Texts'
  <1>1. UNCHANGED <<core, plan, saved, queue>> BY DEF Cd
  <1>2. CASE UNCHANGED <<cwd, previous>> BY <1>1, <1>2, TextsKept
  <1>3. ASSUME NEW p \in DOMAIN Places, cwd' = Places[p], RecordPrevious(saved) PROVE Texts'
    <2>1. cwd' \in Seq(Chars) BY <1>3, DirsAreTexts
    <2>2. saved \in BufferTexts BY DEF Texts
    <2>3. previous' = saved BY <1>3, <2>2 DEF RecordPrevious, BufferTexts
    <2> QED BY <1>1, <2>1, <2>2, <2>3 DEF Texts
  <1> QED BY <1>2, <1>3 DEF Cd, ChangeDir, ChdirTo, Found

LEMMA FewTyped ==
    /\ \A a \in Chars : <<a>> \in Seq(Chars)
    /\ \A a, b, c, d \in Chars : <<a, b, c, d>> \in Seq(Chars)
  <1> HIDE DEF Chars
  <1> QED OBVIOUS

LEMMA FixedTexts == <<"\r">> \in Seq(Chars) /\ <<" ">> \in Seq(Chars) /\ DefaultCore \in Seq(Chars) /\ ">" \in Chars
  <1>1. \A a \in {"\r", " ", "0", ":", "/", ">"} : a \in Chars BY Zenon DEF Chars, SpaceC, GtC
  <1>2. "\r" \in Chars /\ " " \in Chars /\ "0" \in Chars /\ ":" \in Chars /\ "/" \in Chars /\ ">" \in Chars
    BY <1>1, Zenon
  <1> QED BY <1>2, FewTyped, Zenon DEF DefaultCore

\* What stands in front of the cursor is a text.
LEMMA ScreenTexts ==
    ASSUME Texts, NEW p \in OnScreen PROVE p \in Seq(Chars)
  <1> DEFINE sp == <<" ">>
  <1>1. sp \in Seq(Chars) /\ DefaultCore \in Seq(Chars) /\ ">" \in Chars BY FixedTexts
  <1> HIDE DEF sp
  <1>2. core \in Seq(Chars) /\ previous \in Seq(Chars) BY DEF Texts, BufferTexts
  <1>3. PromptCore(previous) \in Seq(Chars)
    <2>1. \A c \in Chars : Append(previous, c) \in Seq(Chars) BY <1>2, AppendProperties
    <2> QED BY <1>1, <2>1, Zenon DEF PromptCore
  <1>4. \A q \in Seq(Chars) : q \o sp \in Seq(Chars) BY <1>1, ConcatProperties
  <1>5. OnScreen \subseteq {<< >>, DefaultCore \o sp, core \o sp, PromptCore(previous) \o sp}
    BY DEF OnScreen, sp
  <1>6. p = << >> \/ p = DefaultCore \o sp \/ p = core \o sp \/ p = PromptCore(previous) \o sp BY <1>5, Zenon
  <1>7. << >> \in Seq(Chars) BY EmptyTyped DEF BufferTexts
  <1> QED BY <1>1, <1>2, <1>3, <1>4, <1>6, <1>7, Zenon

\* A line behind what stands on the screen is a text.
LEMMA EnterTexts == ASSUME Texts, Enter PROVE Texts'
  <1>1. PICK t \in Typed, p \in OnScreen :
           queue' = Append(queue, [text |-> p \o t \o <<"\r">>, typed |-> t, whole |-> TRUE])
    BY DEF Enter
  <1> DEFINE cr == <<"\r">>
  <1>2. cr \in Seq(Chars) BY FixedTexts
  <1>4. t \in Seq(Chars) BY TextsAssumption, TextsOfStrings
  <1> HIDE DEF cr
  <1>5. p \in Seq(Chars) BY ScreenTexts
  <1>6. p \o t \o cr \in Seq(Chars)
    <2>1. p \o t \in Seq(Chars) BY <1>4, <1>5, ConcatProperties
    <2> QED BY <1>2, <2>1, ConcatProperties
  <1> DEFINE x == p \o t \o cr
  <1>7. queue' = Append(queue, [text |-> x, typed |-> t, whole |-> TRUE]) BY <1>1 DEF cr
  <1>8. x \in Seq(Chars) BY <1>6
  <1> HIDE DEF x
  <1>9. [text |-> x, typed |-> t, whole |-> TRUE] \in Entries BY <1>8 DEF Entries
  <1>10. queue' \in Seq(Entries) BY <1>7, <1>9, AppendProperties DEF Texts
  <1> QED BY <1>10 DEF Texts, Enter, shellVars

LEMMA NextKeepsTexts == ASSUME Texts, [Next]_vars PROVE Texts'
  <1>1. CASE ReadInterrupted \/ ReadNothing \/ Kill \/ OpenRedirection \/ SeekToEnd \/ AllOpen \/ Spawn
             \/ WaitChild \/ CloseAfterChild \/ UNCHANGED vars
    BY <1>1, TextsKept DEF ReadInterrupted, ReadNothing, Kill, OpenRedirection, SeekToEnd, AllOpen, Spawn,
                           WaitChild, CloseAfterChild, envVars, vars
  <1>2. CASE Break \/ Reroute \/ ChildEnds \/ OtherDirs
    BY <1>2, TextsKept DEF Break, Reroute, ChildEnds, OtherDirs, shellVars
  <1>3. CASE ChildReads
    <2>1. queue' \in Seq(Entries) BY <1>3, HeadTailProperties DEF ChildReads, Texts
    <2> QED BY <1>3, <2>1 DEF ChildReads, shellVars, Texts
  <1> QED BY <1>1, <1>2, <1>3, PromptTexts, ReadTexts, SaveTexts, CdTexts, EnterTexts DEF Next, ShellStep

LEMMA ShapesControl ==
    ASSUME Inv, TypeInv, [Next]_vars PROVE Control'
  <1>0. child = [state |-> child.state, id |-> child.id, args |-> child.args, std |-> child.std,
                 status |-> child.status]
    BY DEF TypeInv, Shapes
  <1>a. \A f \in 0 .. MaxFds - 1 : fds[f].kind \in {"free", "console", "file"} BY DEF TypeInv, Control
  <1>b. fds = [f \in 0 .. MaxFds - 1 |-> fds[f]] BY DEF TypeInv, Shapes
  <1>1. ASSUME CloseRedirections PROVE \A f \in 0 .. MaxFds - 1 : fds'[f].kind \in {"free", "console", "file"}
    <2>1. DOMAIN fds = 0 .. MaxFds - 1 BY <1>b
    <2>2. \A f \in 0 .. MaxFds - 1 : fds'[f] = Free \/ fds'[f] = fds[f] BY <1>1, <2>1 DEF CloseRedirections
    <2> QED BY <2>2, <1>a DEF Free
  <1>2. CASE PrintPrompt \/ ReadInterrupted \/ ReadNothing \/ Kill \/ SaveCwd \/ Cd \/ AllOpen
    BY <1>2 DEF PrintPrompt, ReadInterrupted, ReadNothing, Kill, SaveCwd, Cd, AllOpen, envVars, TypeInv, Control, Pcs
  <1>3. CASE ReadLine
    <2>1. pc' \in Pcs BY <1>3, BranchTarget DEF ReadLine, Pcs
    <2> QED BY <1>3, <2>1 DEF ReadLine, TypeInv, Control
  <1>4. CASE OpenRedirection
    <2>1. UNCHANGED <<child, owner, pending>> /\ pc' \in Pcs BY <1>4 DEF OpenRedirection, RefuseOpen, envVars, Pcs
    <2>2. \A f \in 0 .. MaxFds - 1 : fds'[f].kind \in {"free", "console", "file"}
      <3>1. CASE CloseRedirections BY <1>1, <3>1
      <3>2. ASSUME NEW g \in 0 .. MaxFds - 1, NEW i \in Std, fds' = [fds EXCEPT ![g] = File(plan[i])]
            PROVE  \A f \in 0 .. MaxFds - 1 : fds'[f].kind \in {"free", "console", "file"}
        <4>1. \A f \in 0 .. MaxFds - 1 : fds'[f] = IF f = g THEN File(plan[i]) ELSE fds[f] BY <3>2, <1>b
        <4>2. File(plan[i]).kind = "file" BY DEF File
        <4> QED BY <4>1, <4>2, <1>a
      <3> QED BY <1>4, <3>1, <3>2 DEF OpenRedirection, RefuseOpen
    <2> QED BY <2>1, <2>2 DEF TypeInv, Control
  <1>5. CASE SeekToEnd
    <2>1. UNCHANGED <<child, owner, pending>> /\ pc' \in Pcs BY <1>5 DEF SeekToEnd, RefuseOpen, envVars, Pcs
    <2>2. \A f \in 0 .. MaxFds - 1 : fds'[f].kind \in {"free", "console", "file"}
      <3>1. CASE CloseRedirections BY <1>1, <3>1
      <3>2. CASE fds' = [fds EXCEPT ![opened].atEnd = TRUE]
        <4>1. opened \in 0 .. MaxFds - 1
          BY <1>5 DEF SeekToEnd, Inv, SeekHasStream, Shapes, FdValues
        <4>2. \A f \in 0 .. MaxFds - 1 : fds'[f] = IF f = opened THEN [fds[f] EXCEPT !.atEnd = TRUE] ELSE fds[f]
          BY <3>2, <4>1, <1>b
        <4>3. \A f \in 0 .. MaxFds - 1 : fds'[f].kind = fds[f].kind BY <4>2 DEF TypeInv, Shapes
        <4> QED BY <4>3, <1>a
      <3> QED BY <1>5, <3>1, <3>2 DEF SeekToEnd, RefuseOpen
    <2> QED BY <2>1, <2>2 DEF TypeInv, Control
  <1>6. CASE Spawn
    <2>4. pending' \in BOOLEAN BY <1>6 DEF Spawn, TypeInv, Control
    <2>1. pc' \in Pcs /\ owner' \in {"shell", "child", "other", "none"}
      BY <1>6 DEF Spawn, Pcs, TypeInv, Control
    <2>2. child'.state \in {"NONE", "LIVE", "ZOMBIE"} /\ child'.status \in {"OK", "ERR", "INT"}
      BY <1>6 DEF Spawn, TypeInv, Control
    <2>3. \A f \in 0 .. MaxFds - 1 : fds'[f].kind \in {"free", "console", "file"}
      BY <1>6, <1>1, <1>a DEF Spawn
    <2> QED BY <2>1, <2>2, <2>3, <2>4 DEF Control
  <1>7. CASE WaitChild BY <1>7 DEF WaitChild, Reap, NoChild, TypeInv, Control, Pcs
  <1>8. CASE CloseAfterChild
    BY <1>8, <1>1 DEF CloseAfterChild, envVars, TypeInv, Control, Pcs
  <1>9. CASE Break \/ ChildEnds
    BY <1>0, <1>9 DEF Break, ChildEnds, shellVars, TypeInv, Control
  <1>10. CASE Enter \/ Reroute \/ ChildReads \/ OtherDirs
    BY <1>10, ShellAssumption DEF Enter, Reroute, ChildReads, OtherDirs, shellVars, TypeInv, Control
  <1>11. CASE UNCHANGED vars BY <1>11 DEF vars, TypeInv, Control
  <1> QED BY <1>2, <1>3, <1>4, <1>5, <1>6, <1>7, <1>8, <1>9, <1>10, <1>11 DEF Next, ShellStep

LEMMA NextKeepsTypes == Inv /\ TypeInv /\ [Next]_vars => TypeInv'
  <1> SUFFICES ASSUME Inv, TypeInv, [Next]_vars PROVE TypeInv' OBVIOUS
  <1>1. Inv' BY NextKeepsInv
  <1>2. Texts' BY NextKeepsTexts DEF TypeInv
  <1>3. Control' BY ShapesControl
  <1> QED BY <1>1, <1>2, <1>3 DEF Inv, TypeInv

THEOREM ShellTypeCorrect == Spec => []TypeOK
  BY InitInv, InitTyped, NextKeepsInv, NextKeepsTypes, TypeInvImplies, PTL DEF Spec

(***************************************************************************)
(* The members of a set of positions, listed in their order.               *)
(***************************************************************************)
\* S holds numbers up to N.
LEMMA FiniteUpTo == \A N \in Nat : \A S \in SUBSET (1 .. N) : IsFiniteSet(S) /\ Cardinality(S) \in Nat
  <1> TAKE N \in Nat
  <1> TAKE S \in SUBSET (1 .. N)
  <1>1. IsFiniteSet(1 .. N) BY FS_Interval
  <1> QED BY <1>1, FS_Subset, FS_CardinalityType

\* Whom the n-th place of the list can be given to.
Ranked(S, n) == {i \in S : Cardinality({j \in S : j <= i}) = n}

LEMMA ListedDef ==
    \A S : /\ DOMAIN Listed(S) = 1 .. Cardinality(S)
           /\ \A n \in 1 .. Cardinality(S) : Listed(S)[n] = CHOOSE i : i \in Ranked(S, n)
  <1> TAKE S
  <1>1. DOMAIN Listed(S) = 1 .. Cardinality(S) BY Zenon DEF Listed
  <1>2. ASSUME NEW n \in 1 .. Cardinality(S) PROVE Listed(S)[n] = CHOOSE i : i \in Ranked(S, n)
    <2>1. Listed(S)[n] = CHOOSE i \in S : Cardinality({j \in S : j <= i}) = n BY Zenon DEF Listed
    <2>2. (CHOOSE i \in S : Cardinality({j \in S : j <= i}) = n) = CHOOSE i : i \in Ranked(S, n)
      BY Zenon DEF Ranked
    <2> QED BY <2>1, <2>2, Zenon
  <1> QED BY <1>1, <1>2

\* S holds numbers up to some bound; m is above all of them.
Bounded(S)  == \E N \in Nat : S \in SUBSET (1 .. N)
Above(m, S) == \E N \in Nat : S \in SUBSET (1 .. N) /\ m \in Nat /\ m > N

\* A number above all others is listed last.
ListGrows(S, m) ==
    /\ Cardinality(S) \in Nat /\ Cardinality(S \cup {m}) = Cardinality(S) + 1
    /\ Listed(S \cup {m})[Cardinality(S) + 1] = m
    /\ \A n \in 1 .. Cardinality(S) : Listed(S \cup {m})[n] = Listed(S)[n]

LEMMA ListedAppend == ASSUME NEW S, NEW m, Above(m, S) PROVE ListGrows(S, m) /\ Bounded(S) /\ Bounded(S \cup {m})
  <1>0. PICK N \in Nat : S \in SUBSET (1 .. N) /\ m \in Nat /\ m > N BY DEF Above
  <1> DEFINE T == S \cup {m}
             K == Cardinality(S)
  <1>1. IsFiniteSet(S) /\ K \in Nat BY <1>0, FiniteUpTo
  <1>2. m \notin S BY <1>0
  <1>3. Cardinality(T) = K + 1 BY <1>1, <1>2, FS_AddElement
  <1>4. \A i \in S : {j \in T : j <= i} = {j \in S : j <= i} BY <1>0
  <1>5. {j \in T : j <= m} = T
    <2>1. \A j \in T : j <= m BY <1>0
    <2> HIDE DEF T
    <2> QED BY <2>1
  <1>6. \A n \in 1 .. K : Ranked(T, n) = Ranked(S, n)
    <2> HIDE DEF K
    <2> SUFFICES ASSUME NEW n \in 1 .. K, NEW i PROVE i \in Ranked(T, n) <=> i \in Ranked(S, n) OBVIOUS
    <2>1. CASE i \in S BY <2>1, <1>4 DEF Ranked
    <2>2. CASE i = m
      <3>1. i \notin S /\ K + 1 # n BY <2>2, <1>1, <1>2
      <3>2. i \notin Ranked(S, n) BY <3>1 DEF Ranked
      <3>3. i \notin Ranked(T, n) BY <2>2, <3>1, <1>3, <1>5 DEF Ranked
      <3> QED BY <3>2, <3>3
    <2>3. CASE i \notin T BY <2>3 DEF Ranked
    <2> QED BY <2>1, <2>2, <2>3
  <1>7. Ranked(T, K + 1) = {m}
    <2>1. m \in Ranked(T, K + 1) BY <1>3, <1>5 DEF Ranked
    <2>2. ASSUME NEW i \in S PROVE i \notin Ranked(T, K + 1)
      <3>1. {j \in S : j <= i} \in SUBSET S OBVIOUS
      <3>2. Cardinality({j \in S : j <= i}) \in Nat /\ Cardinality({j \in S : j <= i}) <= K
        BY <1>1, <3>1, FS_Subset, FS_CardinalityType
      <3>3. Cardinality({j \in T : j <= i}) # K + 1 BY <3>2, <1>1, <1>4
      <3> QED BY <3>3 DEF Ranked
    <2> QED BY <2>1, <2>2 DEF Ranked
  <1> HIDE DEF T, K
  <1>8. DOMAIN Listed(T) = 1 .. K + 1 /\ \A n \in 1 .. K + 1 : Listed(T)[n] = CHOOSE i : i \in Ranked(T, n)
    BY <1>3, ListedDef
  <1>9. DOMAIN Listed(S) = 1 .. K /\ \A n \in 1 .. K : Listed(S)[n] = CHOOSE i : i \in Ranked(S, n)
    BY ListedDef DEF K
  <1>10. \A n \in 1 .. K : n \in 1 .. K + 1 BY <1>1
  <1>11. K + 1 \in 1 .. K + 1 BY <1>1
  <1>12. (CHOOSE i : i \in {m}) = m OBVIOUS
  <1>13. Listed(T)[K + 1] = m BY <1>7, <1>8, <1>11, <1>12
  <1>14. \A n \in 1 .. K : Listed(T)[n] = Listed(S)[n] BY <1>6, <1>8, <1>9, <1>10
  <1>15. T \in SUBSET (1 .. m) /\ m \in Nat BY <1>0 DEF T
  <1> QED BY <1>0, <1>1, <1>3, <1>13, <1>14, <1>15 DEF T, K, ListGrows, Bounded

\* What is listed is in the set.
ListsOnly(S) == \A n \in 1 .. Cardinality(S) : Listed(S)[n] \in S

LEMMA ListedIn == ASSUME NEW S, Bounded(S) PROVE ListsOnly(S)
  <1>0. PICK N \in Nat : S \in SUBSET (1 .. N) BY DEF Bounded
  <1> DEFINE P(k)  == S \cap (1 .. k)
             Good  == {k \in 0 .. N : ListsOnly(P(k))}
  <1>1. 0 \in Good
    <2>1. P(0) = {} OBVIOUS
    <2>2. Cardinality(P(0)) = 0 BY <2>1, FS_EmptySet
    <2> QED BY <2>2 DEF ListsOnly
  <1>2. ASSUME NEW k \in 0 .. N - 1, k \in Good PROVE k + 1 \in Good
    <2>1. k \in Nat /\ k + 1 \in Nat /\ k + 1 \in 0 .. N /\ k + 1 > k /\ P(k) \in SUBSET (1 .. k) OBVIOUS
    <2>2. CASE k + 1 \notin S
      <3>1. P(k + 1) = P(k) BY <2>2
      <3> QED BY <3>1, <1>2, <2>1
    <2>3. CASE k + 1 \in S
      <3> DEFINE Q == P(k)
                 m == k + 1
                 L == Cardinality(Q)
      <3>1. P(k + 1) = Q \cup {m} BY <2>3
      <3>2. \A n \in 1 .. L : Listed(Q)[n] \in Q BY <1>2 DEF ListsOnly
      <3>3. Above(m, Q) BY <2>1 DEF Above
      <3> HIDE DEF P, Q, m
      <3>4. ListGrows(Q, m) BY <3>3, ListedAppend
      <3>5. \A n \in 1 .. L + 1 : n \in 1 .. L \/ n = L + 1 BY <3>4 DEF ListGrows
      <3>6. ListsOnly(Q \cup {m}) BY <3>2, <3>4, <3>5 DEF ListGrows, ListsOnly
      <3>7. ListsOnly(P(k + 1)) BY <3>1, <3>6
      <3> QED BY <2>1, <3>7
    <2> QED BY <2>2, <2>3
  <1>3. N \in Good
    <2> HIDE DEF Good
    <2>1. \A n \in 0 .. N - 1 : n \in Good => n + 1 \in Good BY <1>2
    <2>2. \A n \in 0 .. N : n \in Good BY <1>1, <2>1, Upward, Zenon
    <2> QED BY <2>2
  <1>4. P(N) = S BY <1>0
  <1> QED BY <1>3, <1>4

(***************************************************************************)
(* What a function has at the members of a set of positions.               *)
(***************************************************************************)
Valued(f, S, A) == \A i \in S : f[i] \in A

Picks(f, S, A) ==
    /\ Picked(f, S) \in Seq(A) /\ Len(Picked(f, S)) = Cardinality(S)
    /\ \A n \in 1 .. Cardinality(S) : Picked(f, S)[n] = f[Listed(S)[n]]

LEMMA PickedAt == ASSUME NEW A, NEW S, NEW f, Bounded(S), Valued(f, S, A) PROVE Picks(f, S, A)
  <1> DEFINE at == Listed(S)
             p  == [n \in DOMAIN at |-> f[at[n]]]
             K  == Cardinality(S)
  <1>1. K \in Nat BY FiniteUpTo DEF Bounded
  <1>2. DOMAIN at = 1 .. K BY ListedDef
  <1>3. \A n \in 1 .. K : at[n] \in S BY ListedIn DEF ListsOnly
  <1> HIDE DEF at, K
  <1>4. p = [n \in 1 .. K |-> f[at[n]]] BY <1>2
  <1>5. \A n \in 1 .. K : p[n] \in A /\ p[n] = f[at[n]] BY <1>3, <1>4 DEF Valued
  <1>6. DOMAIN p = 1 .. K BY <1>4
  <1>7. p = [n \in 1 .. K |-> p[n]] BY <1>2
  <1> HIDE DEF p
  <1>8. p \in [1 .. K -> A] BY <1>5, <1>7
  <1>9. p \in Seq(A) BY <1>1, <1>8, SeqDef
  <1>10. Len(p) = K BY <1>1, <1>6, <1>9, LenProperties
  <1>11. << >> \o p = p BY <1>9, ConcatEmptySeq
  <1>12. Picked(f, S) = << >> \o p BY Zenon DEF Picked, p, at
  <1> QED BY <1>5, <1>9, <1>10, <1>11, <1>12 DEF at, K, Picks

Alike(f, g, S) == \A i \in S : f[i] = g[i]

LEMMA PickedSame ==
    ASSUME NEW A, NEW S, NEW f, NEW g, Bounded(S), Valued(f, S, A), Alike(f, g, S)
    PROVE  Picked(f, S) = Picked(g, S)
  <1>1. ListsOnly(S) BY ListedIn
  <1>2. Valued(g, S, A) BY DEF Valued, Alike
  <1>3. Picks(f, S, A) /\ Picks(g, S, A) BY <1>2, PickedAt
  <1>4. \A n \in 1 .. Cardinality(S) : Picked(f, S)[n] = Picked(g, S)[n] BY <1>1, <1>3 DEF ListsOnly, Alike, Picks
  <1> QED BY <1>3, <1>4, SeqEqual DEF Picks

\* g goes on where f ends.
Extends(f, g, m, S) == Above(m, S) /\ Alike(f, g, S) /\ \E A : Valued(f, S, A) /\ g[m] \in A
PickGrows(f, g, m, S) == Picked(g, S \cup {m}) = Append(Picked(f, S), g[m])

LEMMA PickedAppend == ASSUME NEW S, NEW m, NEW f, NEW g, Extends(f, g, m, S) PROVE PickGrows(f, g, m, S)
  <1>0. PICK A : Valued(f, S, A) /\ g[m] \in A BY DEF Extends
  <1> DEFINE T == S \cup {m}
             K == Cardinality(S)
             p == Picked(f, S)
             q == Picked(g, T)
             r == Append(p, g[m])
  <1>1. ListGrows(S, m) /\ Bounded(S) /\ Bounded(T) BY ListedAppend DEF Extends
  <1>2. Valued(g, T, A) BY <1>0 DEF Valued, Alike, Extends
  <1>3. ListsOnly(S) BY <1>1, ListedIn
  <1>4. Picks(f, S, A) /\ Picks(g, T, A)
    <2> HIDE DEF T
    <2> QED BY <1>0, <1>1, <1>2, PickedAt
  <1>5. K \in Nat /\ Cardinality(T) = K + 1 BY <1>1 DEF ListGrows
  <1>6. p \in Seq(A) /\ Len(p) = K /\ q \in Seq(A) /\ Len(q) = K + 1 BY <1>4, <1>5 DEF Picks
  <1>7. \A n \in 1 .. K : q[n] = p[n]
    <2> SUFFICES ASSUME NEW n \in 1 .. K PROVE q[n] = p[n] OBVIOUS
    <2>1. n \in 1 .. K + 1 BY <1>5
    <2>2. q[n] = g[Listed(T)[n]] /\ p[n] = f[Listed(S)[n]] BY <1>4, <1>5, <2>1 DEF Picks
    <2>3. Listed(T)[n] = Listed(S)[n] /\ Listed(S)[n] \in S BY <1>1, <1>3 DEF ListGrows, ListsOnly
    <2> QED BY <2>2, <2>3 DEF Alike, Extends
  <1>8. q[K + 1] = g[m]
    <2>1. K + 1 \in 1 .. K + 1 BY <1>5
    <2>2. q[K + 1] = g[Listed(T)[K + 1]] BY <1>4, <1>5, <2>1 DEF Picks
    <2> QED BY <2>2, <1>1 DEF ListGrows
  <1> HIDE DEF K, p, q, T
  <1>9. r \in Seq(A) /\ Len(r) = K + 1 /\ r[K + 1] = g[m] /\ \A n \in 1 .. K : r[n] = p[n]
    BY <1>0, <1>6, AppendProperties
  <1> HIDE DEF r
  <1>10. \A n \in 1 .. K + 1 : q[n] = r[n]
    <2>1. \A n \in 1 .. K + 1 : n \in 1 .. K \/ n = K + 1 BY <1>5
    <2> QED BY <1>7, <1>8, <1>9, <2>1
  <1>11. q = r BY <1>6, <1>9, <1>10, SeqEqual
  <1> QED BY <1>11 DEF q, r, p, T, PickGrows

(***************************************************************************)
(* Tokens are words.                                                       *)
(***************************************************************************)
\* The words there can be.
Solid == {w \in Seq(Chars) : w # << >> /\ \A k \in 1 .. Len(w) : ~IsSpace(w[k])}

LEMMA CoversOnce ==
    ASSUME NEW t, Len(t) \in Nat, NEW i \in 1 .. Len(t) + 1, NEW d, NEW e, Covers(t, i, d), Covers(t, i, e)
    PROVE  d = e
  <1>1. d \in i .. Len(t) + 1 /\ e \in i .. Len(t) + 1 BY DEF Covers
  <1>2. ASSUME d < e PROVE FALSE
    <2>1. d # Len(t) + 1 /\ d \in i .. e - 1 BY <1>1, <1>2
    <2> QED BY <2>1 DEF Covers
  <1>3. ASSUME e < d PROVE FALSE
    <2>1. e # Len(t) + 1 /\ e \in i .. d - 1 BY <1>1, <1>3
    <2> QED BY <2>1 DEF Covers
  <1> QED BY <1>1, <1>2, <1>3

\* The word at a place goes up to the next space.
LEMMA WordAtIs ==
    ASSUME NEW t \in Seq(Chars), NEW i \in 1 .. Len(t), ~IsSpace(t[i]), NEW e, Covers(t, i, e)
    PROVE  WordAt(t, i) = SubSeq(t, i, e - 1) /\ WordAt(t, i) \in Solid
  <1>1. Len(t) \in Nat /\ i \in 1 .. Len(t) + 1 BY LenProperties
  <1>2. e \in i .. Len(t) + 1 BY DEF Covers
  <1>3. e # i BY <1>1, <1>2 DEF Covers
  <1> DEFINE Good(n) == /\ \A j \in i .. i + n - 1 : j <= Len(t) /\ ~IsSpace(t[j])
                        /\ i + n > Len(t) \/ IsSpace(t[i + n])
  <1>4. e - i \in 1 .. Len(t) /\ i + (e - i) = e /\ i + (e - i) - 1 = e - 1 BY <1>1, <1>2, <1>3
  <1>5. Good(e - i)
    <2>1. \A j \in i .. e - 1 : j <= Len(t) /\ ~IsSpace(t[j]) BY <1>1, <1>2 DEF Covers
    <2>2. e > Len(t) \/ IsSpace(t[e]) BY <1>1, <1>2 DEF Covers
    <2> QED BY <1>4, <2>1, <2>2
  <1>6. ASSUME NEW n \in 1 .. Len(t), Good(n) PROVE n = e - i
    <2>1. i + n <= Len(t) + 1
      <3>1. i + n - 1 \in i .. i + n - 1 BY <1>1
      <3>2. i + n - 1 <= Len(t) BY <1>6, <3>1
      <3> QED BY <1>1, <3>2
    <2>2. i + n \in i .. Len(t) + 1 BY <1>1, <2>1
    <2>3. i + n = Len(t) + 1 \/ IsSpace(t[i + n]) BY <1>1, <1>6, <2>1
    <2>4. Covers(t, i, i + n) BY <1>6, <2>2, <2>3 DEF Covers
    <2>5. i + n = e BY <1>1, <2>4, CoversOnce
    <2> QED BY <1>1, <2>5
  <1> DEFINE m == CHOOSE n \in 1 .. Len(t) : Good(n)
  <1>7. m = e - i
    <2> HIDE DEF Good
    <2>1. m \in 1 .. Len(t) /\ Good(m) BY <1>4, <1>5
    <2> QED BY <2>1, <1>6
  <1>8. WordAt(t, i) = SubSeq(t, i, i + m - 1) BY Zenon DEF WordAt
  <1> HIDE DEF m
  <1>9. i + m - 1 = e - 1 BY <1>4, <1>7
  <1> DEFINE f == e - 1
             w == SubSeq(t, i, f)
  <1>10. f \in i - 1 .. Len(t) /\ f # i - 1 BY <1>1, <1>2, <1>3
  <1> HIDE DEF f
  <1>11. /\ w \in Seq(Chars) /\ Len(w) = f - i + 1
         /\ \A k \in 1 .. f - i + 1 : w[k] = t[i + k - 1]
         /\ w = << >> <=> f = i - 1
    BY <1>1, <1>10, Piece, ZenonT(40)
  <1>12. \A k \in 1 .. f - i + 1 : i + k - 1 \in i .. f BY <1>1, <1>10
  <1>13. \A k \in i .. f : ~IsSpace(t[k]) BY DEF Covers, f
  <1>14. w \in Solid BY <1>10, <1>11, <1>12, <1>13 DEF Solid
  <1> QED BY <1>8, <1>9, <1>14 DEF f

\* p is how q begins.
Begins(p, q) == Len(p) <= Len(q) /\ \A k \in 1 .. Len(p) : q[k] = p[k]

(***************************************************************************)
(* The words of the text before a place.                                   *)
(***************************************************************************)
Before(t, c) == {i \in 1 .. c - 1 : StartsWord(t, i)}
WordsAt(t)   == [i \in Beginnings(t) |-> WordAt(t, i)]
Read(t, c)   == Picked(WordsAt(t), Before(t, c))

LEMMA WordsAreSolid ==
    ASSUME NEW t \in Seq(Chars)
    PROVE  Valued(WordsAt(t), Beginnings(t), Solid)
  <1> SUFFICES ASSUME NEW i \in Beginnings(t) PROVE WordsAt(t)[i] \in Solid BY DEF Valued
  <1>1. i \in 1 .. Len(t) /\ ~IsSpace(t[i]) BY DEF Beginnings, StartsWord
  <1>2. Len(t) \in Nat /\ i \in 1 .. Len(t) + 1 BY <1>1, LenProperties
  <1>3. Covers(t, i, WordEnd(t, i)) BY <1>2, CoverFacts
  <1>4. WordAt(t, i) \in Solid BY <1>1, <1>3, WordAtIs
  <1> QED BY <1>4 DEF WordsAt

LEMMA BeforeFacts ==
    ASSUME NEW t \in Seq(Chars), NEW c \in 1 .. Len(t) + 1
    PROVE  /\ Before(t, c) \subseteq Beginnings(t) /\ Bounded(Before(t, c))
           /\ Valued(WordsAt(t), Before(t, c), Solid)
           /\ \A m \in c .. Len(t) + 1 : Above(m, Before(t, c))
           /\ Read(t, c) \in Seq(Solid)
  <1>1. Len(t) \in Nat BY LenProperties
  <1>2. Before(t, c) \subseteq Beginnings(t) BY <1>1 DEF Before, Beginnings
  <1>3. c - 1 \in Nat /\ Before(t, c) \in SUBSET (1 .. c - 1) BY <1>1 DEF Before
  <1>4. Bounded(Before(t, c)) BY <1>3 DEF Bounded
  <1>5. \A m \in c .. Len(t) + 1 : Above(m, Before(t, c)) 
    <2>1. \A m \in c .. Len(t) + 1 : m \in Nat /\ m > c - 1 BY <1>1
    <2> QED BY <1>3, <2>1 DEF Above
  <1>6. Valued(WordsAt(t), Before(t, c), Solid) BY <1>2, WordsAreSolid DEF Valued
  <1>7. Picks(WordsAt(t), Before(t, c), Solid) BY <1>4, <1>6, PickedAt
  <1> QED BY <1>2, <1>4, <1>5, <1>6, <1>7 DEF Picks, Read

LEMMA ReadAll ==
    ASSUME NEW t \in Seq(Chars)
    PROVE  Words(t) = Read(t, Len(t) + 1) /\ Read(t, 1) = << >>
  <1>1. Len(t) \in Nat BY LenProperties
  <1>2. Before(t, Len(t) + 1) = Beginnings(t) BY <1>1 DEF Before, Beginnings
  <1>3. Before(t, 1) = {} BY DEF Before
  <1>4. Read(t, 1) \in Seq(Solid) /\ Len(Read(t, 1)) = 0
    <2>1. 1 \in 1 .. Len(t) + 1 BY <1>1
    <2>2. Bounded({}) /\ Valued(WordsAt(t), {}, Solid) BY <1>3, <2>1, BeforeFacts
    <2>3. Picks(WordsAt(t), {}, Solid) BY <2>2, PickedAt
    <2>4. Cardinality({}) = 0 BY FS_EmptySet
    <2> QED BY <1>3, <2>3, <2>4 DEF Picks, Read
  <1>5. Read(t, 1) = << >> BY <1>4, EmptySeq
  <1> QED BY <1>2, <1>5, Zenon DEF Words, Read, WordsAt

\* A place where no word goes on.
Between(t, c) == c = 1 \/ c = Len(t) + 1 \/ IsSpace(t[c])

\* A token is the next word.
LEMMA NextWord ==
    ASSUME NEW t \in Seq(Chars), NEW c \in 1 .. Len(t) + 1, Between(t, c)
    PROVE  LET k == NextToken(t, c) IN
           /\ k.cursor \in c .. Len(t) + 1 /\ Between(t, k.cursor)
           /\ k.word = << >> => Words(t) = Read(t, c)
           /\ k.word # << >> => /\ k.word \in Solid /\ Read(t, k.cursor) = Append(Read(t, c), k.word)
                                /\ k.cursor > c
                                /\ Len(k.word) <= k.cursor - 1
                                /\ c > 1 => Len(k.word) <= k.cursor - 1 - c
  <1> DEFINE s == SkipSpaces(t, c)
             e == NextToken(t, c).cursor
             w == NextToken(t, c).word
  <1>1. Len(t) \in Nat BY LenProperties
  <1>2. /\ Skips(t, c, s) /\ Covers(t, s, e)
        /\ s \in 1 .. Len(t) + 1 /\ e \in s .. Len(t) + 1 /\ e \in 1 .. Len(t) + 1
        /\ w \in Seq(Chars) /\ Len(w) = e - s
        /\ w = SubSeq(t, s, e - 1)
        /\ w = << >> <=> s = Len(t) + 1
        /\ w = << >> <=> e = s
    BY TokenFacts, Zenon
  <1> HIDE DEF s, e, w
  <1>3. s \in c .. Len(t) + 1 /\ \A k \in c .. s - 1 : IsSpace(t[k]) BY <1>2 DEF Skips
  <1>4. \A k \in s .. e - 1 : ~IsSpace(t[k]) BY <1>2 DEF Covers
  <1>5. e \in c .. Len(t) + 1 BY <1>1, <1>2, <1>3
  <1>6. Between(t, e) BY <1>2 DEF Covers, Between
  <1>7. \A k \in c .. s - 1 : ~StartsWord(t, k) BY <1>3 DEF StartsWord
  <1>8. CASE w = << >>
    <2>1. s = Len(t) + 1 BY <1>2, <1>8
    <2>2. Before(t, Len(t) + 1) = Before(t, c)
      <3>1. \A k \in 1 .. Len(t) : k \in 1 .. c - 1 \/ k \in c .. s - 1 BY <1>1, <2>1
      <3>2. \A k \in 1 .. c - 1 : k \in 1 .. Len(t) BY <1>1
      <3>3. (Len(t) + 1) - 1 = Len(t) BY <1>1
      <3> QED BY <1>7, <3>1, <3>2, <3>3 DEF Before
    <2>3. Words(t) = Read(t, c) BY <2>2, ReadAll DEF Read
    <2> QED BY <1>5, <1>6, <1>8, <2>3 DEF e, w
  <1>9. CASE w # << >>
    <2>1. s \in 1 .. Len(t) /\ e > s BY <1>1, <1>2, <1>9
    <2>2. ~IsSpace(t[s])
      <3>1. s \in s .. e - 1 BY <1>2, <2>1
      <3> QED BY <1>4, <3>1
    <2>3. StartsWord(t, s)
      <3>1. CASE s = c
        <4>1. s = 1 BY <3>1, <2>1, <2>2 DEF Between
        <4> QED BY <4>1, <2>2 DEF StartsWord
      <3>2. CASE s # c
        <4>1. s - 1 \in c .. s - 1 BY <1>3, <3>2
        <4> QED BY <4>1, <1>3, <2>2 DEF StartsWord
      <3> QED BY <3>1, <3>2
    <2>4. \A k \in s + 1 .. e - 1 : ~StartsWord(t, k)
      <3> SUFFICES ASSUME NEW k \in s + 1 .. e - 1 PROVE ~StartsWord(t, k) OBVIOUS
      <3>1. k # 1 /\ k - 1 \in s .. e - 1 BY <1>2, <2>1
      <3> QED BY <3>1, <1>4 DEF StartsWord
    <2>5. Before(t, e) = Before(t, c) \cup {s}
      <3>1. \A k \in 1 .. e - 1 : k \in 1 .. c - 1 \/ k \in c .. s - 1 \/ k = s \/ k \in s + 1 .. e - 1
        BY <1>1, <1>2, <1>3
      <3>2. \A k \in 1 .. c - 1 : k \in 1 .. e - 1 BY <1>2, <1>3
      <3>3. s \in 1 .. e - 1 BY <1>2, <2>1
      <3> QED BY <1>7, <2>3, <2>4, <3>1, <3>2, <3>3 DEF Before
    <2>6. WordAt(t, s) = w /\ w \in Solid
      <3>1. WordAt(t, s) = SubSeq(t, s, e - 1) /\ WordAt(t, s) \in Solid BY <1>2, <2>1, <2>2, WordAtIs
      <3> QED BY <3>1, <1>2
    <2>7. WordsAt(t)[s] = w BY <2>1, <2>3, <2>6 DEF WordsAt, Beginnings
    <2>8. Read(t, e) = Append(Read(t, c), w)
      <3> DEFINE S == Before(t, c)
                 f == WordsAt(t)
      <3>1. Above(s, S) /\ Valued(f, S, Solid) BY <1>3, BeforeFacts
      <3>2. f[s] \in Solid BY <2>6, <2>7
      <3> HIDE DEF S, f
      <3>4. Extends(f, f, s, S) BY <3>1, <3>2, Zenon DEF Extends, Alike
      <3>5. PickGrows(f, f, s, S) BY <3>4, PickedAppend
      <3> QED BY <3>5, <2>5, <2>7 DEF PickGrows, Read, S, f
    <2>9. e > c /\ Len(w) <= e - 1
      <3>1. e \in Nat /\ s \in Nat /\ c \in Nat /\ s >= 1 /\ s >= c BY <1>1, <1>2, <1>3
      <3>2. e - s <= e - 1 /\ e > c BY <2>1, <3>1
      <3> QED BY <3>2, <1>2, Zenon
    <2>10. c > 1 => Len(w) <= e - 1 - c
      <3> SUFFICES ASSUME c > 1 PROVE Len(w) <= e - 1 - c OBVIOUS
      <3>1. s # c BY <2>1, <2>2 DEF Between
      <3> QED BY <3>1, <1>2, <1>3
    <2> QED BY <1>5, <1>6, <1>9, <2>6, <2>8, <2>9, <2>10 DEF e, w
  <1> QED BY <1>8, <1>9

\* What has been read stays read.
\* One place further: a word that begins there is read.
LEMMA ReadNext ==
    ASSUME NEW t \in Seq(Chars), NEW d \in 1 .. Len(t)
    PROVE  /\ ~StartsWord(t, d) => Read(t, d + 1) = Read(t, d)
           /\ StartsWord(t, d) => WordAt(t, d) \in Solid /\ Read(t, d + 1) = Append(Read(t, d), WordAt(t, d))
  <1> DEFINE S == Before(t, d)
             f == WordsAt(t)
  <1>0. Len(t) \in Nat BY LenProperties
  <1>1. d \in 1 .. Len(t) + 1 BY <1>0
  <1>2. /\ \A k \in 1 .. (d + 1) - 1 : k \in 1 .. d - 1 \/ k = d
        /\ \A k \in 1 .. d - 1 : k \in 1 .. (d + 1) - 1
        /\ d \in 1 .. (d + 1) - 1
    BY <1>0
  <1>3. CASE ~StartsWord(t, d)
    <2>1. Before(t, d + 1) = Before(t, d) BY <1>2, <1>3 DEF Before
    <2> QED BY <1>3, <2>1 DEF Read
  <1>4. CASE StartsWord(t, d)
    <2>1. Before(t, d + 1) = S \cup {d} BY <1>2, <1>4 DEF Before
    <2>2. d \in d .. Len(t) + 1 BY <1>1
    <2>3. Above(d, S) /\ Valued(f, S, Solid) BY <1>1, <2>2, BeforeFacts
    <2>4. d \in Beginnings(t) BY <1>4 DEF Beginnings
    <2>5. f[d] \in Solid /\ f[d] = WordAt(t, d) BY <2>4, WordsAreSolid DEF Valued, WordsAt
    <2> HIDE DEF S, f
    <2>6. Extends(f, f, d, S) BY <2>3, <2>5, Zenon DEF Extends, Alike
    <2>7. PickGrows(f, f, d, S) BY <2>6, PickedAppend
    <2>8. Read(t, d + 1) = Append(Read(t, d), f[d]) BY <2>1, <2>7 DEF PickGrows, Read, S, f
    <2> QED BY <1>4, <2>5, <2>8
  <1> QED BY <1>3, <1>4

LEMMA ReadOn ==
    ASSUME NEW t \in Seq(Chars), NEW c \in 1 .. Len(t) + 1
    PROVE  Begins(Read(t, c), Words(t))
  <1>1. Len(t) \in Nat BY LenProperties
  <1> DEFINE N    == Len(t) + 1 - c
             Good == {n \in 0 .. N : Begins(Read(t, c), Read(t, c + n))}
  <1>2. N \in Nat /\ c + N = Len(t) + 1 /\ c + 0 = c BY <1>1
  <1>3. 0 \in Good
    <2>1. Read(t, c) \in Seq(Solid) BY BeforeFacts
    <2>2. Len(Read(t, c)) <= Len(Read(t, c)) BY <2>1, LenProperties
    <2> QED BY <1>2, <2>2 DEF Begins
  <1>4. ASSUME NEW n \in 0 .. N - 1, n \in Good PROVE n + 1 \in Good
    <2> DEFINE d == c + n
    <2>1. n + 1 \in 0 .. N /\ c + (n + 1) = d + 1 /\ d \in 1 .. Len(t) /\ d \in 1 .. Len(t) + 1 BY <1>1, <1>2
    <2>2. Begins(Read(t, c), Read(t, d)) BY <1>4
    <2> HIDE DEF d
    <2>3. CASE ~StartsWord(t, d)
      <3>1. Read(t, d + 1) = Read(t, d) BY <2>1, <2>3, ReadNext
      <3> QED BY <2>1, <2>2, <3>1
    <2>4. CASE StartsWord(t, d)
      <3> DEFINE w == WordAt(t, d)
      <3>8. w \in Solid /\ Read(t, d + 1) = Append(Read(t, d), w) BY <2>1, <2>4, ReadNext
      <3>6. Read(t, d) \in Seq(Solid) BY <2>1, BeforeFacts
      <3> HIDE DEF w
      <3>12. /\ Len(Append(Read(t, d), w)) = Len(Read(t, d)) + 1 /\ Len(Read(t, d)) \in Nat
             /\ \A k \in 1 .. Len(Read(t, d)) : Append(Read(t, d), w)[k] = Read(t, d)[k]
        BY <3>6, <3>8, AppendProperties, LenProperties
      <3>13. Read(t, c) \in Seq(Solid) /\ Len(Read(t, c)) \in Nat BY BeforeFacts, LenProperties
      <3>14. Begins(Read(t, c), Read(t, d + 1))
        <4> DEFINE x == Read(t, c)
                   y == Read(t, d)
                   z == Append(Read(t, d), w)
        <4>1. /\ Len(x) \in Nat /\ Len(y) \in Nat /\ Len(z) = Len(y) + 1 /\ Len(x) <= Len(y)
              /\ \A k \in 1 .. Len(x) : y[k] = x[k]
              /\ \A k \in 1 .. Len(y) : z[k] = y[k]
          BY <2>2, <3>12, <3>13 DEF Begins
        <4> HIDE DEF x, y, z
        <4>2. \A k \in 1 .. Len(x) : k \in 1 .. Len(y) BY <4>1
        <4>3. Begins(x, z) BY <4>1, <4>2 DEF Begins
        <4> QED BY <4>3, <3>8 DEF x, z
      <3> QED BY <2>1, <3>14
    <2> QED BY <2>3, <2>4
  <1>5. N \in Good
    <2> HIDE DEF Good, N
    <2>1. \A n \in 0 .. N - 1 : n \in Good => n + 1 \in Good BY <1>4
    <2>2. \A n \in 0 .. N : n \in Good BY <1>2, <1>3, <2>1, Upward, Zenon
    <2> QED BY <1>2, <2>2
  <1>6. Begins(Read(t, c), Read(t, Len(t) + 1)) BY <1>2, <1>5
  <1> QED BY <1>6, ReadAll

(***************************************************************************)
(* Operators, in the scan and in the meaning.                              *)
(***************************************************************************)
LEMMA TextsOfOperators == \A o \in Operators : o.text \in Seq(Chars)
  <1>1. LtC \in Chars /\ GtC \in Chars /\ TwoC \in Chars BY Zenon DEF Chars
  <1> HIDE DEF Chars
  <1>2. \A a, b, c \in Chars : <<a>> \in Seq(Chars) /\ <<a, b>> \in Seq(Chars) /\ <<a, b, c>> \in Seq(Chars) OBVIOUS
  <1>3. /\ <<LtC>> \in Seq(Chars) /\ <<GtC>> \in Seq(Chars) /\ <<GtC, GtC>> \in Seq(Chars)
        /\ <<TwoC, GtC>> \in Seq(Chars) /\ <<TwoC, GtC, GtC>> \in Seq(Chars)
    BY <1>1, <1>2, Zenon
  <1> SUFFICES ASSUME NEW o \in Operators PROVE o.text \in Seq(Chars) OBVIOUS
  <1>4. \/ o.text = <<LtC>> \/ o.text = <<GtC>> \/ o.text = <<GtC, GtC>>
        \/ o.text = <<TwoC, GtC>> \/ o.text = <<TwoC, GtC, GtC>>
    BY OperatorList DEF Op
  <1> QED BY <1>3, <1>4, Zenon

\* Beginning with a text, character by character.
LEMMA StartsIs ==
    ASSUME NEW w \in Seq(Chars), NEW p \in Seq(Chars), p # << >>
    PROVE  Starts(w, p) <=> Begins(p, w)
  <1>1. Len(p) \in Nat \ {0} /\ Len(w) \in Nat BY LenProperties, EmptySeq
  <1> DEFINE m == Len(p)
             q == SubSeq(w, 1, m)
  <1>2. CASE m <= Len(w)
    <2>1. 1 \in 1 .. Len(w) + 1 /\ m \in 1 - 1 .. Len(w) /\ m - 1 + 1 = m /\ \A k : 1 + k - 1 = 1 + k - 1 BY <1>1, <1>2
    <2> HIDE DEF m
    <2>2. /\ q \in Seq(Chars) /\ Len(q) = m - 1 + 1 /\ \A k \in 1 .. m - 1 + 1 : q[k] = w[1 + k - 1]
      BY <2>1, Piece
    <2>3. \A k \in 1 .. m : 1 + k - 1 = k OBVIOUS
    <2>4. Len(q) = m /\ \A k \in 1 .. m : q[k] = w[k] BY <2>1, <2>2, <2>3
    <2> HIDE DEF q
    <2>5. q = p <=> \A k \in 1 .. m : w[k] = p[k]
      <3>1. (\A k \in 1 .. m : w[k] = p[k]) => q = p BY <2>2, <2>4, SeqEqual DEF m
      <3> QED BY <3>1, <2>4
    <2> QED BY <1>2, <2>5 DEF Starts, Begins, q, m
  <1>3. CASE ~(m <= Len(w)) BY <1>3 DEF Starts, Begins
  <1> QED BY <1>2, <1>3

LEMMA BeginsSame ==
    ASSUME NEW A, NEW p \in Seq(A), NEW q \in Seq(A), Begins(p, q), Len(p) = Len(q)
    PROVE  p = q
  BY SeqEqual DEF Begins

Bare(w) == IsRedirection(w) /\ ~(Len(w) > Len(Classify(w).text))

\* The operator of a word, in the scan and in the meaning.
LEMMA OpOfIs ==
    ASSUME NEW ws, NEW k, ws[k] \in Seq(Chars)
    PROVE  /\ IsOp(ws, k) <=> IsRedirection(ws[k])
           /\ IsRedirection(ws[k]) => OpOf(ws, k) = Classify(ws[k])
           /\ IsBare(ws, k) <=> Bare(ws[k])
  <1> DEFINE w == ws[k]
             c == Classify(w)
  <1>1. IsOp(ws, k) <=> IsRedirection(w) BY DEF IsOp, IsRedirection, OperatorsOf
  <1>2. CASE ~IsRedirection(w) BY <1>1, <1>2 DEF IsBare, Bare
  <1>3. CASE IsRedirection(w)
    <2> HIDE DEF w
    <2>0. w \in Seq(Chars) BY DEF w
    <2>1. c \in Operators /\ Starts(w, c.text) /\ \A q \in OperatorsOf(w) : Len(q.text) <= Len(c.text)
      BY <1>3, <2>0, ClassifyIsOperator
    <2> HIDE DEF c
    <2>2. \A o \in Operators : o.text \in Seq(Chars) /\ o.text # << >> /\ Len(o.text) \in Nat
      BY TextsOfOperators, OperatorFacts, LenProperties
    <2>3. \A o \in Operators : Starts(w, o.text) <=> Begins(o.text, w) BY <2>0, <2>2, StartsIs
    <2>4. \A o, q \in Operators : Starts(o.text, q.text) <=> Begins(q.text, o.text) BY <2>2, StartsIs
    <2>5. ASSUME NEW o \in Operators, NEW q \in Operators, Begins(o.text, w), Begins(q.text, w), Len(q.text) <= Len(o.text)
          PROVE  Begins(q.text, o.text)
      <3> DEFINE x == o.text
                 y == q.text
      <3>1. Len(x) \in Nat /\ Len(y) \in Nat /\ Len(y) <= Len(x) BY <2>2, <2>5
      <3>2. \A n \in 1 .. Len(x) : w[n] = x[n] BY <2>5 DEF Begins
      <3>3. \A n \in 1 .. Len(y) : w[n] = y[n] BY <2>5 DEF Begins
      <3> HIDE DEF x, y
      <3>4. \A n \in 1 .. Len(y) : n \in 1 .. Len(x) BY <3>1
      <3>5. Begins(y, x) BY <3>1, <3>2, <3>3, <3>4 DEF Begins
      <3> QED BY <3>5 DEF x, y
    <2> DEFINE Best(o) == Starts(w, o.text) /\ \A q \in Operators : Starts(w, q.text) => Starts(o.text, q.text)
    <2>6. Best(c)
      <3> SUFFICES ASSUME NEW q \in Operators, Starts(w, q.text) PROVE Starts(c.text, q.text) BY <2>1
      <3>1. q \in OperatorsOf(w) BY DEF OperatorsOf
      <3> QED BY <3>1, <2>1, <2>3, <2>4, <2>5
    <2>7. ASSUME NEW o \in Operators, Best(o) PROVE o = c
      <3> DEFINE x == o.text
                 y == c.text
      <3>1. Begins(x, y) /\ Begins(y, x) BY <2>1, <2>4, <2>6, <2>7
      <3>2. x \in Seq(Chars) /\ y \in Seq(Chars) /\ Len(x) \in Nat /\ Len(y) \in Nat BY <2>1, <2>2
      <3> HIDE DEF x, y
      <3>3. Len(x) = Len(y) BY <3>1, <3>2 DEF Begins
      <3>4. x = y BY <3>1, <3>2, <3>3, BeginsSame
      <3> QED BY <3>4, <2>1, OperatorFacts DEF x, y
    <2>8. OpOf(ws, k) = c
      <3>1. OpOf(ws, k) = CHOOSE o \in Operators : Best(o) BY Zenon DEF OpOf, w
      <3> HIDE DEF Best
      <3> DEFINE b == CHOOSE o \in Operators : Best(o)
      <3>2. b \in Operators /\ Best(b) BY <2>1, <2>6
      <3>3. b = c BY <3>2, <2>7
      <3> QED BY <3>1, <3>3
    <2>9. w = c.text <=> ~(Len(w) > Len(c.text))
      <3> DEFINE y == c.text
      <3>1. y \in Seq(Chars) /\ Len(y) \in Nat /\ Len(w) \in Nat /\ Begins(y, w) BY <2>0, <2>1, <2>2, <2>3, LenProperties
      <3> HIDE DEF y
      <3>2. ~(Len(w) > Len(y)) => Len(w) = Len(y) BY <3>1 DEF Begins
      <3>3. w = y <=> ~(Len(w) > Len(y)) BY <2>0, <3>1, <3>2, BeginsSame
      <3> QED BY <3>3 DEF y
    <2> QED BY <1>1, <1>3, <2>8, <2>9 DEF IsBare, Bare, w, c
  <1> QED BY <1>2, <1>3

(***************************************************************************)
(* A list of words, in the terms of the scan.                              *)
(***************************************************************************)
Redirects(ws, fd) == {k \in 1 .. Len(ws) : IsRedirection(ws[k]) /\ Classify(ws[k]).fd = fd}
Ordinary(ws)      == {k \in 1 .. Len(ws) : ~IsRedirection(ws[k]) /\ (k = 1 \/ ~Bare(ws[k - 1]))}
Glued(w)          == SubSeq(w, Len(Classify(w).text) + 1, Len(w))
Target(ws, k)     == IF Bare(ws[k]) THEN ws[k + 1] ELSE Glued(ws[k])

\* Every lone operator has its file, and no stream is redirected twice.
Accepted(ws) ==
    /\ \A k \in 1 .. Len(ws) : Bare(ws[k]) => k < Len(ws) /\ ~IsRedirection(ws[k + 1])
    /\ \A fd \in 0 .. 2 : \A j, k \in Redirects(ws, fd) : j = k

\* A plan is that of the words.
PlanFits(ws, p) ==
    /\ p \in Plans
    /\ \A fd \in 0 .. 2 : /\ Redirects(ws, fd) = {} => p[fd] = Unused
                          /\ \A k \in Redirects(ws, fd) :
                                p[fd] = [mode |-> Classify(ws[k]).mode, path |-> Target(ws, k)]

\* Length, domain and members of a list of words.
LEMMA WordsFacts ==
    ASSUME NEW ws \in Seq(Solid)
    PROVE  /\ Len(ws) \in Nat /\ DOMAIN ws = 1 .. Len(ws)
           /\ \A k \in 1 .. Len(ws) : ws[k] \in Solid /\ ws[k] \in Seq(Chars)
           /\ \A k \in 1 .. Len(ws) : IsRedirection(ws[k]) =>
                 /\ Classify(ws[k]) \in Operators /\ Classify(ws[k]).fd \in 0 .. 2
                 /\ Classify(ws[k]).mode \in {"READ", "TRUNC", "APPEND"} /\ Classify(ws[k]).mode # "NONE"
           /\ \A fd \in 0 .. 2 : OpsOn(ws, fd) = Redirects(ws, fd)
           /\ CommandAt(ws) = Ordinary(ws)
           /\ \A fd \in 0 .. 2 : \A k \in Redirects(ws, fd) : OpOf(ws, k) = Classify(ws[k]) /\ FileOf(ws, k) = Target(ws, k)
  <1>1. Len(ws) \in Nat /\ DOMAIN ws = 1 .. Len(ws) BY LenProperties
  <1>2. \A k \in 1 .. Len(ws) : ws[k] \in Solid /\ ws[k] \in Seq(Chars) BY ElementOfSeq DEF Solid
  <1>3. \A k \in 1 .. Len(ws) : IsRedirection(ws[k]) =>
           /\ Classify(ws[k]) \in Operators /\ Classify(ws[k]).fd \in 0 .. 2
           /\ Classify(ws[k]).mode \in {"READ", "TRUNC", "APPEND"} /\ Classify(ws[k]).mode # "NONE"
    <2> SUFFICES ASSUME NEW k \in 1 .. Len(ws), IsRedirection(ws[k])
                 PROVE  /\ Classify(ws[k]) \in Operators /\ Classify(ws[k]).fd \in 0 .. 2
                        /\ Classify(ws[k]).mode \in {"READ", "TRUNC", "APPEND"} /\ Classify(ws[k]).mode # "NONE"
      OBVIOUS
    <2>1. Classify(ws[k]) \in Operators BY <1>2, ClassifyIsOperator
    <2> QED BY <2>1, OperatorFacts
  <1>4. \A k \in 1 .. Len(ws) : /\ IsOp(ws, k) <=> IsRedirection(ws[k])
                                /\ IsRedirection(ws[k]) => OpOf(ws, k) = Classify(ws[k])
                                /\ IsBare(ws, k) <=> Bare(ws[k])
    BY <1>2, OpOfIs
  <1>5. \A fd \in 0 .. 2 : OpsOn(ws, fd) = Redirects(ws, fd) BY <1>1, <1>4 DEF OpsOn, Redirects
  <1>6. CommandAt(ws) = Ordinary(ws)
    <2>1. \A k \in 1 .. Len(ws) : k # 1 => k - 1 \in 1 .. Len(ws) BY <1>1
    <2>2. \A k \in 1 .. Len(ws) : (k = 1 \/ ~IsBare(ws, k - 1)) <=> (k = 1 \/ ~Bare(ws[k - 1])) BY <1>4, <2>1
    <2> QED BY <1>1, <1>4, <2>2 DEF CommandAt, Ordinary
  <1>7. \A fd \in 0 .. 2 : \A k \in Redirects(ws, fd) : OpOf(ws, k) = Classify(ws[k]) /\ FileOf(ws, k) = Target(ws, k)
    BY <1>4 DEF Redirects, FileOf, Target, Glued
  <1> QED BY <1>1, <1>2, <1>3, <1>5, <1>6, <1>7

\* At most one: all alike.
LEMMA AtMostOne ==
    ASSUME NEW S, IsFiniteSet(S)
    PROVE  Cardinality(S) <= 1 <=> \A j, k \in S : j = k
  <1>1. ASSUME Cardinality(S) <= 1, NEW j \in S, NEW k \in S, j # k PROVE FALSE
    <2>1. {j} \in SUBSET S /\ {j, k} \in SUBSET S /\ k \notin {j} /\ {j} \cup {k} = {j, k} BY <1>1
    <2>2. IsFiniteSet({j}) /\ Cardinality({j}) = 1 BY FS_Singleton
    <2>3. Cardinality({j} \cup {k}) = 2 BY <2>1, <2>2, FS_AddElement
    <2>4. Cardinality({j, k}) <= Cardinality(S) BY <2>1, FS_Subset
    <2>5. Cardinality(S) \in Nat BY FS_CardinalityType
    <2> QED BY <1>1, <2>1, <2>3, <2>4, <2>5
  <1>2. ASSUME \A j, k \in S : j = k PROVE Cardinality(S) <= 1
    <2>1. CASE S = {} BY <2>1, FS_EmptySet
    <2>2. CASE S # {}
      <3>1. PICK j : S = {j} BY <1>2, <2>2
      <3>2. Cardinality({j}) = 1 BY FS_Singleton, Zenon
      <3>3. Cardinality(S) = 1 BY <3>1, <3>2, Zenon
      <3> QED BY <3>3
    <2> QED BY <2>1, <2>2
  <1> QED BY <1>1, <1>2

\* Well-formedness, in the terms of the scan.
LEMMA WellFormedIs ==
    ASSUME NEW ws \in Seq(Solid)
    PROVE  WellFormed(ws) <=> /\ Accepted(ws)
                              /\ (\E fd \in 0 .. 2 : Redirects(ws, fd) # {}) => Ordinary(ws) # {}
  <1> USE WordsFacts
  <1>1. \A k \in 1 .. Len(ws) : /\ IsOp(ws, k) <=> IsRedirection(ws[k])
                                /\ IsBare(ws, k) <=> Bare(ws[k])
    BY OpOfIs
  <1>2. (\A k \in DOMAIN ws : IsBare(ws, k) => k < Len(ws) /\ ~IsOp(ws, k + 1))
        <=> \A k \in 1 .. Len(ws) : Bare(ws[k]) => k < Len(ws) /\ ~IsRedirection(ws[k + 1])
    <2>1. \A k \in 1 .. Len(ws) : k < Len(ws) => k + 1 \in 1 .. Len(ws) OBVIOUS
    <2>2. DOMAIN ws = 1 .. Len(ws) OBVIOUS
    <2> QED BY ONLY <1>1, <2>1, <2>2
  <1>3. \A fd \in 0 .. 2 : Cardinality(OpsOn(ws, fd)) <= 1 <=> \A j, k \in Redirects(ws, fd) : j = k
    <2> SUFFICES ASSUME NEW fd \in 0 .. 2 PROVE Cardinality(OpsOn(ws, fd)) <= 1 <=> \A j, k \in Redirects(ws, fd) : j = k
      OBVIOUS
    <2>1. Redirects(ws, fd) \in SUBSET (1 .. Len(ws)) BY DEF Redirects
    <2>2. IsFiniteSet(Redirects(ws, fd)) BY <2>1, FiniteUpTo
    <2>3. OpsOn(ws, fd) = Redirects(ws, fd) OBVIOUS
    <2> QED BY ONLY <2>2, <2>3, AtMostOne
  <1>4. (\E k \in DOMAIN ws : IsOp(ws, k)) <=> \E fd \in 0 .. 2 : Redirects(ws, fd) # {}
    <2>1. \A k \in 1 .. Len(ws) : IsRedirection(ws[k]) => Classify(ws[k]).fd \in 0 .. 2 OBVIOUS
    <2>2. DOMAIN ws = 1 .. Len(ws) OBVIOUS
    <2> QED BY ONLY <1>1, <2>1, <2>2 DEF Redirects
  <1>5. CommandAt(ws) = Ordinary(ws) OBVIOUS
  <1> QED BY ONLY <1>2, <1>3, <1>4, <1>5, Zenon DEF WellFormed, Accepted

\* The plan the words have is the plan that fits them.
LEMMA PlanOfIs ==
    ASSUME NEW ws \in Seq(Solid), NEW p, PlanFits(ws, p)
    PROVE  PlanOf(ws) = p
  <1>1. ASSUME NEW fd \in 0 .. 2
        PROVE  p[fd] = IF OpsOn(ws, fd) = {} THEN Unused
                       ELSE LET k == CHOOSE k \in OpsOn(ws, fd) : TRUE
                            IN [mode |-> OpOf(ws, k).mode, path |-> FileOf(ws, k)]
    <2> DEFINE k == CHOOSE k \in OpsOn(ws, fd) : TRUE
    <2>1. OpsOn(ws, fd) = Redirects(ws, fd) BY WordsFacts
    <2>2. CASE OpsOn(ws, fd) = {} BY <2>1, <2>2 DEF PlanFits
    <2>3. CASE OpsOn(ws, fd) # {}
      <3>1. k \in Redirects(ws, fd) BY <2>1, <2>3
      <3> HIDE DEF k
      <3>2. OpOf(ws, k) = Classify(ws[k]) /\ FileOf(ws, k) = Target(ws, k) BY <3>1, WordsFacts
      <3>3. p[fd] = [mode |-> Classify(ws[k]).mode, path |-> Target(ws, k)] BY <3>1 DEF PlanFits
      <3> QED BY <2>3, <3>2, <3>3 DEF k
    <2> QED BY <2>2, <2>3
  <1>2. p = [fd \in 0 .. 2 |-> p[fd]] BY DEF PlanFits, Plans
  <1> QED BY <1>1, <1>2 DEF PlanOf

\* Something is redirected when a word does it.
LEMMA RedirectedIs ==
    ASSUME NEW ws \in Seq(Solid), NEW p, PlanFits(ws, p)
    PROVE  /\ Redirected(p) <=> \E fd \in 0 .. 2 : Redirects(ws, fd) # {}
           /\ \A fd \in 0 .. 2 : p[fd].mode # "NONE" <=> Redirects(ws, fd) # {}
  <1>1. ASSUME NEW fd \in 0 .. 2 PROVE p[fd].mode # "NONE" <=> Redirects(ws, fd) # {}
    <2>1. CASE Redirects(ws, fd) = {} BY <2>1 DEF PlanFits, Unused
    <2>2. ASSUME NEW k \in Redirects(ws, fd) PROVE p[fd].mode # "NONE"
      <3>1. p[fd] = [mode |-> Classify(ws[k]).mode, path |-> Target(ws, k)] BY DEF PlanFits
      <3>2. Classify(ws[k]).mode # "NONE" BY WordsFacts DEF Redirects
      <3> QED BY <3>1, <3>2
    <2> QED BY <2>1, <2>2
  <1> QED BY <1>1 DEF Redirected

(***************************************************************************)
(* One more word.                                                          *)
(***************************************************************************)
LEMMA OneMore ==
    ASSUME NEW ws \in Seq(Solid), NEW w \in Solid
    PROVE  LET v == Append(ws, w)
               n == Len(ws) IN
           /\ v \in Seq(Solid) /\ n \in Nat /\ Len(v) = n + 1 /\ v[n + 1] = w
           /\ \A k \in 1 .. n : v[k] = ws[k] /\ k \in 1 .. n + 1
           /\ \A k \in 1 .. n + 1 : k \in 1 .. n \/ k = n + 1
           /\ n + 1 \in 1 .. n + 1
  <1>1. Len(ws) \in Nat BY LenProperties
  <1>2. /\ Append(ws, w) \in Seq(Solid) /\ Len(Append(ws, w)) = Len(ws) + 1
        /\ \A k \in 1 .. Len(ws) : Append(ws, w)[k] = ws[k]
        /\ Append(ws, w)[Len(ws) + 1] = w
    BY AppendProperties
  <1>3. /\ \A k \in 1 .. Len(ws) : k \in 1 .. Len(ws) + 1
        /\ \A k \in 1 .. Len(ws) + 1 : k \in 1 .. Len(ws) \/ k = Len(ws) + 1
        /\ Len(ws) + 1 \in 1 .. Len(ws) + 1
    BY <1>1
  <1> QED BY <1>1, <1>2, <1>3

LEMMA RedirectsMore ==
    ASSUME NEW ws \in Seq(Solid), NEW w \in Solid, NEW fd
    PROVE  Redirects(Append(ws, w), fd) =
              IF IsRedirection(w) /\ Classify(w).fd = fd THEN Redirects(ws, fd) \cup {Len(ws) + 1} ELSE Redirects(ws, fd)
  BY OneMore DEF Redirects

LEMMA OrdinaryMore ==
    ASSUME NEW ws \in Seq(Solid), NEW w \in Solid
    PROVE  Ordinary(Append(ws, w)) =
              IF ~IsRedirection(w) /\ (Len(ws) = 0 \/ ~Bare(ws[Len(ws)])) THEN Ordinary(ws) \cup {Len(ws) + 1} ELSE Ordinary(ws)
  <1> DEFINE v == Append(ws, w)
             n == Len(ws)
  <1>1. /\ n \in Nat /\ Len(v) = n + 1 /\ v[n + 1] = w
        /\ \A k \in 1 .. n : v[k] = ws[k] /\ k \in 1 .. n + 1
        /\ \A k \in 1 .. n + 1 : k \in 1 .. n \/ k = n + 1
        /\ n + 1 \in 1 .. n + 1
    BY OneMore
  <1> HIDE DEF v, n
  <1>2. \A k \in 1 .. n : k = 1 \/ (k - 1 \in 1 .. n /\ v[k - 1] = ws[k - 1]) BY <1>1
  <1>3. \A k \in 1 .. n : k \in Ordinary(v) <=> k \in Ordinary(ws) BY <1>1, <1>2 DEF Ordinary, n
  <1>4. n + 1 \notin Ordinary(ws) /\ Ordinary(ws) \subseteq 1 .. n /\ Ordinary(v) \subseteq 1 .. n + 1
    BY <1>1 DEF Ordinary, n
  <1>5. (n + 1) - 1 = n /\ (n + 1 = 1 <=> n = 0) /\ (n # 0 => n \in 1 .. n) BY <1>1
  <1>6. n + 1 \in Ordinary(v) <=> ~IsRedirection(w) /\ (n = 0 \/ ~Bare(ws[n]))
    <2>1. n + 1 \in Ordinary(v) <=> ~IsRedirection(w) /\ (n + 1 = 1 \/ ~Bare(v[(n + 1) - 1])) BY <1>1 DEF Ordinary
    <2> QED BY <2>1, <1>1, <1>5
  <1>7. \A k \in 1 .. n + 1 : k \in 1 .. n \/ k = n + 1 BY <1>1
  <1> QED BY <1>3, <1>4, <1>6, <1>7 DEF n, v

\* The words of the command, as the new word is one or not.
LEMMA CommandWordsMore ==
    ASSUME NEW ws \in Seq(Solid), NEW w \in Solid
    PROVE  /\ Ordinary(Append(ws, w)) = Ordinary(ws) => CommandWords(Append(ws, w)) = CommandWords(ws)
           /\ Ordinary(Append(ws, w)) = Ordinary(ws) \cup {Len(ws) + 1} =>
                 CommandWords(Append(ws, w)) = Append(CommandWords(ws), w)
  <1> DEFINE v == Append(ws, w)
             n == Len(ws)
             S == Ordinary(ws)
  <1>1. /\ v \in Seq(Solid) /\ n \in Nat /\ Len(v) = n + 1 /\ v[n + 1] = w
        /\ \A k \in 1 .. n : v[k] = ws[k] /\ k \in 1 .. n + 1
    BY OneMore
  <1> HIDE DEF v
  <1>2. CommandAt(ws) = Ordinary(ws) /\ CommandAt(v) = Ordinary(v) /\ \A k \in 1 .. n : ws[k] \in Solid
    BY <1>1, WordsFacts
  <1>3. S \in SUBSET (1 .. n) BY DEF Ordinary
  <1> HIDE DEF n, S
  <1>4. Bounded(S) /\ Above(n + 1, S)
    <2>1. n + 1 \in Nat /\ n + 1 > n BY <1>1
    <2> QED BY <1>1, <1>3, <2>1 DEF Bounded, Above
  <1>5. Valued(ws, S, Solid) /\ Alike(ws, v, S) BY <1>1, <1>2, <1>3 DEF Valued, Alike
  <1>6. Picked(ws, S) = Picked(v, S) BY <1>4, <1>5, PickedSame
  <1>7. Extends(ws, v, n + 1, S) BY <1>1, <1>4, <1>5, Zenon DEF Extends
  <1>8. PickGrows(ws, v, n + 1, S) BY <1>7, PickedAppend
  <1>9. Picked(v, S \cup {n + 1}) = Append(Picked(ws, S), w) BY <1>1, <1>8 DEF PickGrows
  <1> QED BY <1>2, <1>6, <1>9, Zenon DEF CommandWords, S, n, v

\* A stream that one word redirects is not free for another.
LEMMA ClashIs ==
    ASSUME NEW ws \in Seq(Solid), NEW w \in Solid, NEW all \in Seq(Solid), Begins(Append(ws, w), all),
           IsRedirection(w), Redirects(ws, Classify(w).fd) # {}
    PROVE  ~Accepted(all)
  <1> DEFINE n == Len(ws)
  <1>1. /\ n \in Nat /\ n + 1 <= Len(all) /\ all[n + 1] = w /\ \A k \in 1 .. n : all[k] = ws[k]
    BY OneMore DEF Begins
  <1>2. Len(all) \in Nat BY LenProperties
  <1>3. PICK j \in Redirects(ws, Classify(w).fd) : TRUE OBVIOUS
  <1>4. j \in 1 .. n /\ j # n + 1 /\ j \in 1 .. Len(all) /\ n + 1 \in 1 .. Len(all) BY <1>1, <1>2 DEF Redirects
  <1>5. j \in Redirects(all, Classify(w).fd) /\ n + 1 \in Redirects(all, Classify(w).fd)
    BY <1>1, <1>4 DEF Redirects
  <1>6. Classify(w).fd \in 0 .. 2
    <2>1. w \in Seq(Chars) BY DEF Solid
    <2>2. Classify(w) \in Operators BY <2>1, ClassifyIsOperator
    <2> QED BY <2>2, OperatorFacts
  <1> QED BY <1>4, <1>5, <1>6 DEF Accepted

\* A lone operator before another operator, or at the end.
LEMMA LoneIs ==
    ASSUME NEW ws \in Seq(Solid), NEW w \in Solid, NEW all \in Seq(Solid), Begins(Append(ws, w), all), Bare(w),
           \/ all = Append(ws, w)
           \/ \E p \in Solid : IsRedirection(p) /\ Begins(Append(Append(ws, w), p), all)
    PROVE  ~Accepted(all)
  <1> DEFINE n == Len(ws)
             v == Append(ws, w)
  <1>1. /\ v \in Seq(Solid) /\ n \in Nat /\ Len(v) = n + 1 /\ n + 1 <= Len(all) /\ all[n + 1] = w
    BY OneMore DEF Begins
  <1>2. Len(all) \in Nat /\ n + 1 \in 1 .. Len(all) BY <1>1, LenProperties
  <1>3. CASE all = v BY <1>1, <1>2, <1>3 DEF Accepted
  <1>4. ASSUME NEW p \in Solid, IsRedirection(p), Begins(Append(v, p), all) PROVE ~Accepted(all)
    <2> HIDE DEF v, n
    <2>1. all[Len(v) + 1] = p BY <1>1, <1>4, OneMore DEF Begins
    <2> QED BY <1>1, <1>2, <1>4, <2>1 DEF Accepted
  <1> QED BY <1>3, <1>4

\* With a lone operator every earlier word has the target it had.
LEMMA TargetKept ==
    ASSUME NEW ws \in Seq(Solid), NEW w \in Solid, NEW k \in 1 .. Len(ws), Bare(ws[k]) => k < Len(ws)
    PROVE  Target(Append(ws, w), k) = Target(ws, k)
  <1> DEFINE v == Append(ws, w)
  <1>1. Len(ws) \in Nat /\ \A i \in 1 .. Len(ws) : v[i] = ws[i] BY OneMore
  <1> HIDE DEF v
  <1>2. Bare(ws[k]) => k + 1 \in 1 .. Len(ws) BY <1>1
  <1>3. v[k] = ws[k] /\ (Bare(ws[k]) => v[k + 1] = ws[k + 1]) BY <1>1, <1>2
  <1>4. Target(v, k) = Target(ws, k) BY <1>3 DEF Target
  <1> QED BY <1>4 DEF v

\* A word of the command.
LEMMA WordMore ==
    ASSUME NEW ws \in Seq(Solid), NEW w \in Solid, ~IsRedirection(w), Accepted(ws), NEW p, PlanFits(ws, p)
    PROVE  /\ Accepted(Append(ws, w)) /\ PlanFits(Append(ws, w), p)
           /\ Ordinary(Append(ws, w)) = Ordinary(ws) \cup {Len(ws) + 1}
  <1> DEFINE v == Append(ws, w)
             n == Len(ws)
  <1>1. /\ n \in Nat /\ Len(v) = n + 1 /\ v[n + 1] = w
        /\ \A k \in 1 .. n : v[k] = ws[k] /\ k \in 1 .. n + 1
        /\ \A k \in 1 .. n + 1 : k \in 1 .. n \/ k = n + 1
    BY OneMore
  <1>2. \A fd : Redirects(v, fd) = Redirects(ws, fd) BY RedirectsMore
  <1>3. \A k \in 1 .. n : Bare(ws[k]) => k < n /\ ~IsRedirection(ws[k + 1]) BY DEF Accepted
  <1>4. \A k \in 1 .. n : Target(v, k) = Target(ws, k) BY <1>3, TargetKept
  <1>5. n = 0 \/ ~Bare(ws[n])
    <2>1. n # 0 => n \in 1 .. n BY <1>1
    <2> QED BY <1>1, <1>3, <2>1
  <1>6. Ordinary(v) = Ordinary(ws) \cup {n + 1} BY <1>5, OrdinaryMore
  <1> HIDE DEF v
  <1>7. ~Bare(w) BY DEF Bare
  <1>8. ASSUME NEW k \in 1 .. Len(v), Bare(v[k]) PROVE k < Len(v) /\ ~IsRedirection(v[k + 1])
    <2>1. k \in 1 .. n BY <1>1, <1>7, <1>8
    <2>2. k < n /\ ~IsRedirection(ws[k + 1]) /\ k + 1 \in 1 .. n BY <1>1, <1>3, <1>8, <2>1
    <2> QED BY <1>1, <2>2
  <1>9. Accepted(v) BY <1>2, <1>8 DEF Accepted
  <1>10. PlanFits(v, p)
    <2>1. \A fd : \A k \in Redirects(ws, fd) : k \in 1 .. n BY DEF Redirects
    <2>2. \A fd : \A k \in Redirects(ws, fd) : v[k] = ws[k] /\ Target(v, k) = Target(ws, k) BY <1>1, <1>4, <2>1
    <2> HIDE DEF n
    <2> QED BY <1>2, <2>2 DEF PlanFits
  <1> QED BY <1>6, <1>9, <1>10 DEF v, n

\* An operator whose stream is free, and the plan with its target.
WithTarget(p, w, path) == [p EXCEPT ![Classify(w).fd] = [mode |-> Classify(w).mode, path |-> path]]

\* An operator with its file glued to it.
LEMMA GluedMore ==
    ASSUME NEW ws \in Seq(Solid), NEW w \in Solid, IsRedirection(w), ~Bare(w), Accepted(ws), NEW p, PlanFits(ws, p),
           Redirects(ws, Classify(w).fd) = {}, WithTarget(p, w, Glued(w)) \in Plans
    PROVE  /\ Accepted(Append(ws, w)) /\ PlanFits(Append(ws, w), WithTarget(p, w, Glued(w)))
           /\ Ordinary(Append(ws, w)) = Ordinary(ws)
  <1> DEFINE v == Append(ws, w)
             n == Len(ws)
             c == Classify(w).fd
             q == WithTarget(p, w, Glued(w))
  <1>1. /\ n \in Nat /\ Len(v) = n + 1 /\ v[n + 1] = w
        /\ \A k \in 1 .. n : v[k] = ws[k] /\ k \in 1 .. n + 1
        /\ \A k \in 1 .. n + 1 : k \in 1 .. n \/ k = n + 1
    BY OneMore
  <1>2. \A fd : Redirects(v, fd) = IF c = fd THEN Redirects(ws, fd) \cup {n + 1} ELSE Redirects(ws, fd) BY RedirectsMore
  <1>3. \A k \in 1 .. n : Bare(ws[k]) => k < n /\ ~IsRedirection(ws[k + 1]) BY DEF Accepted
  <1>4. \A k \in 1 .. n : Target(v, k) = Target(ws, k) BY <1>3, TargetKept
  <1>5. n = 0 \/ ~Bare(ws[n])
    <2>1. n # 0 => n \in 1 .. n BY <1>1
    <2> QED BY <1>1, <1>3, <2>1
  <1>6. Ordinary(v) = Ordinary(ws) BY OrdinaryMore
  <1> HIDE DEF v
  <1>8. ASSUME NEW k \in 1 .. Len(v), Bare(v[k]) PROVE k < Len(v) /\ ~IsRedirection(v[k + 1])
    <2>1. k \in 1 .. n BY <1>1, <1>8
    <2>2. k < n /\ ~IsRedirection(ws[k + 1]) /\ k + 1 \in 1 .. n BY <1>1, <1>3, <1>8, <2>1
    <2> QED BY <1>1, <2>2
  <1>9. Accepted(v)
    <2>1. \A fd \in 0 .. 2 : \A j, k \in Redirects(ws, fd) : j = k BY DEF Accepted
    <2>2. \A fd \in 0 .. 2 : \A j, k \in Redirects(v, fd) : j = k BY <1>2, <2>1
    <2> QED BY <1>8, <2>2 DEF Accepted
  <1>10. PlanFits(v, q)
    <2>1. \A fd : \A k \in Redirects(ws, fd) : k \in 1 .. n BY DEF Redirects
    <2>2. \A fd : \A k \in Redirects(ws, fd) : v[k] = ws[k] /\ Target(v, k) = Target(ws, k) BY <1>1, <1>4, <2>1
    <2>3. Target(v, n + 1) = Glued(w) BY <1>1 DEF Target
    <2>4. p \in Plans BY DEF PlanFits
    <2>5. \A fd \in 0 .. 2 : q[fd] = IF c = fd THEN [mode |-> Classify(w).mode, path |-> Glued(w)] ELSE p[fd]
      BY <2>4 DEF WithTarget, Plans
    <2>6. q \in Plans OBVIOUS
    <2> HIDE DEF q, c
    <2>7. ASSUME NEW fd \in 0 .. 2
          PROVE  /\ Redirects(v, fd) = {} => q[fd] = Unused
                 /\ \A k \in Redirects(v, fd) : q[fd] = [mode |-> Classify(v[k]).mode, path |-> Target(v, k)]
      <3>1. CASE fd = c
        <4>1. Redirects(v, fd) = {n + 1} BY <1>2, <3>1 DEF c
        <4> QED BY <1>1, <2>3, <2>5, <3>1, <4>1
      <3>2. CASE fd # c
        <4>1. Redirects(v, fd) = Redirects(ws, fd) BY <1>2, <3>2
        <4>2. q[fd] = p[fd] BY <2>5, <3>2
        <4> HIDE DEF n
        <4> QED BY <2>2, <4>1, <4>2 DEF PlanFits
      <3> QED BY <3>1, <3>2
    <2> QED BY <2>6, <2>7 DEF PlanFits
  <1> QED BY <1>6, <1>9, <1>10 DEF v, q

\* An operator with its file in the next word.
LEMMA LoneMore ==
    ASSUME NEW ws \in Seq(Solid), NEW w \in Solid, Bare(w), Accepted(ws), NEW p, PlanFits(ws, p),
           Redirects(ws, Classify(w).fd) = {}, NEW x \in Solid, ~IsRedirection(x), WithTarget(p, w, x) \in Plans
    PROVE  LET v == Append(Append(ws, w), x) IN
           Accepted(v) /\ PlanFits(v, WithTarget(p, w, x)) /\ CommandWords(v) = CommandWords(ws) /\ Ordinary(v) = Ordinary(ws)
  <1> DEFINE u == Append(ws, w)
             v == Append(u, x)
             n == Len(ws)
             c == Classify(w).fd
             q == WithTarget(p, w, x)
  <1>0. IsRedirection(w) BY DEF Bare
  <1>1. /\ u \in Seq(Solid) /\ n \in Nat /\ Len(u) = n + 1 /\ u[n + 1] = w
        /\ \A k \in 1 .. n : u[k] = ws[k] /\ k \in 1 .. n + 1
        /\ \A k \in 1 .. n + 1 : k \in 1 .. n \/ k = n + 1
        /\ n + 1 \in 1 .. n + 1
    BY OneMore
  <1>2. \A fd : Redirects(u, fd) = IF c = fd THEN Redirects(ws, fd) \cup {n + 1} ELSE Redirects(ws, fd)
    BY <1>0, RedirectsMore
  <1>3. \A k \in 1 .. n : Bare(ws[k]) => k < n /\ ~IsRedirection(ws[k + 1]) BY DEF Accepted
  <1>4. Ordinary(u) = Ordinary(ws) /\ CommandWords(u) = CommandWords(ws) BY <1>0, OrdinaryMore, CommandWordsMore
  <1> HIDE DEF u
  <1>5. /\ Len(v) = (n + 1) + 1 /\ v[(n + 1) + 1] = x
        /\ \A k \in 1 .. n + 1 : v[k] = u[k]
        /\ \A k \in 1 .. (n + 1) + 1 : k \in 1 .. n + 1 \/ k = (n + 1) + 1
    BY <1>1, OneMore
  <1>6. \A fd : Redirects(v, fd) = Redirects(u, fd) BY <1>1, RedirectsMore
  <1>7. Ordinary(v) = Ordinary(u)
    <2>1. Len(u) # 0 /\ Bare(u[Len(u)]) BY <1>1
    <2> QED BY <1>1, <2>1, OrdinaryMore
  <1>8. CommandWords(v) = CommandWords(u) BY <1>1, <1>7, CommandWordsMore
  <1>9. \A k \in 1 .. n : v[k] = ws[k] /\ Target(v, k) = Target(ws, k)
    <2> SUFFICES ASSUME NEW k \in 1 .. n PROVE v[k] = ws[k] /\ Target(v, k) = Target(ws, k) OBVIOUS
    <2>1. v[k] = ws[k] BY <1>1, <1>5
    <2>2. Bare(ws[k]) => k + 1 \in 1 .. n BY <1>1, <1>3
    <2>3. Bare(ws[k]) => v[k + 1] = ws[k + 1] BY <1>1, <1>5, <2>2
    <2> HIDE DEF v
    <2> QED BY <2>1, <2>3 DEF Target
  <1> HIDE DEF v
  <1>10. v[n + 1] = w BY <1>1, <1>5
  <1>11. ~Bare(x) BY DEF Bare
  <1>12. ASSUME NEW k \in 1 .. Len(v), Bare(v[k]) PROVE k < Len(v) /\ ~IsRedirection(v[k + 1])
    <2>1. k \in 1 .. n + 1 BY <1>5, <1>11, <1>12
    <2>2. CASE k \in 1 .. n
      <3>1. k < n /\ ~IsRedirection(ws[k + 1]) /\ k + 1 \in 1 .. n BY <1>1, <1>3, <1>9, <1>12, <2>2
      <3> QED BY <1>1, <1>5, <1>9, <3>1
    <2>3. CASE k = n + 1 BY <1>1, <1>5, <2>3
    <2> QED BY <1>1, <2>1, <2>2, <2>3
  <1>13. Accepted(v)
    <2>1. \A fd \in 0 .. 2 : \A j, k \in Redirects(ws, fd) : j = k BY DEF Accepted
    <2>2. \A fd \in 0 .. 2 : \A j, k \in Redirects(v, fd) : j = k BY <1>2, <1>6, <2>1
    <2> QED BY <1>12, <2>2 DEF Accepted
  <1>14. PlanFits(v, q)
    <2>1. \A fd : \A k \in Redirects(ws, fd) : k \in 1 .. n BY DEF Redirects
    <2>2. \A fd : \A k \in Redirects(ws, fd) : v[k] = ws[k] /\ Target(v, k) = Target(ws, k) BY <1>9, <2>1
    <2>3. Target(v, n + 1) = x BY <1>5, <1>10 DEF Target
    <2>4. p \in Plans BY DEF PlanFits
    <2>5. \A fd \in 0 .. 2 : q[fd] = IF c = fd THEN [mode |-> Classify(w).mode, path |-> x] ELSE p[fd]
      BY <2>4 DEF WithTarget, Plans
    <2>6. q \in Plans OBVIOUS
    <2> HIDE DEF q, c
    <2>7. ASSUME NEW fd \in 0 .. 2
          PROVE  /\ Redirects(v, fd) = {} => q[fd] = Unused
                 /\ \A k \in Redirects(v, fd) : q[fd] = [mode |-> Classify(v[k]).mode, path |-> Target(v, k)]
      <3>1. CASE fd = c
        <4>1. Redirects(v, fd) = {n + 1} BY <1>2, <1>6, <3>1 DEF c
        <4> QED BY <1>10, <2>3, <2>5, <3>1, <4>1
      <3>2. CASE fd # c
        <4>1. Redirects(v, fd) = Redirects(ws, fd) BY <1>2, <1>6, <3>2
        <4>2. q[fd] = p[fd] BY <2>5, <3>2
        <4> HIDE DEF n
        <4> QED BY <2>2, <4>1, <4>2 DEF PlanFits
      <3> QED BY <3>1, <3>2
    <2> QED BY <2>6, <2>7 DEF PlanFits
  <1> QED BY <1>4, <1>7, <1>8, <1>13, <1>14 DEF u, v, q

(***************************************************************************)
(* The text that neosh_append_command_token makes of the words it is given. *)
(***************************************************************************)
\* T is c and, from m on, the word w, with a space between them.
Joined(T, c, w, m) ==
    /\ Len(T) = m - 1 + Len(w)
    /\ \A i \in 1 .. Len(c) : T[i] = c[i]
    /\ \A j \in 1 .. Len(w) : T[m - 1 + j] = w[j]
    /\ (m = 1 /\ Len(c) = 0) \/ (m = Len(c) + 2 /\ IsSpace(T[Len(c) + 1]))

LEMMA JoinedWords ==
    ASSUME NEW T \in Seq(Chars), NEW c \in Seq(Chars), NEW w \in Solid, NEW m \in Nat, Joined(T, c, w, m)
    PROVE  Words(T) = Append(Words(c), w)
  <1> DEFINE n == Len(c)
             l == Len(w)
             N == Len(T)
  <1>1. n \in Nat /\ l \in Nat \ {0} /\ N \in Nat /\ N = m - 1 + l /\ m \in 1 .. N /\ n < m /\ w \in Seq(Chars)
    <2>1. w \in Seq(Chars) /\ w # << >> BY DEF Solid
    <2>2. l \in Nat \ {0} /\ n \in Nat /\ N \in Nat BY <2>1, EmptySeq, LenProperties
    <2>3. N = m - 1 + l /\ ((m = 1 /\ n = 0) \/ m = n + 2) BY DEF Joined
    <2> QED BY <2>1, <2>2, <2>3
  <1>2. \A j \in 1 .. l : ~IsSpace(w[j]) BY DEF Solid
  <1>3. \A k \in m .. N : ~IsSpace(T[k])
    <2> SUFFICES ASSUME NEW k \in m .. N PROVE ~IsSpace(T[k]) OBVIOUS
    <2>1. k - m + 1 \in 1 .. l /\ m - 1 + (k - m + 1) = k BY <1>1
    <2>2. T[m - 1 + (k - m + 1)] = w[k - m + 1] BY <2>1 DEF Joined
    <2> QED BY <1>2, <2>1, <2>2
  <1>4. \A k \in 1 .. m - 1 : k \in 1 .. n \/ (k = n + 1 /\ IsSpace(T[k]))
    <2>1. CASE m = 1 BY <2>1
    <2>2. CASE m = n + 2 /\ IsSpace(T[n + 1]) BY <1>1, <2>2
    <2> QED BY <2>1, <2>2 DEF Joined
  <1>5. \A k \in 1 .. n : T[k] = c[k] BY DEF Joined
  <1>6. m = 1 \/ IsSpace(T[m - 1])
    <2>1. CASE m = n + 2 /\ IsSpace(T[n + 1]) 
      <3>1. m - 1 = n + 1 BY <1>1, <2>1
      <3> QED BY <2>1, <3>1
    <2> QED BY <2>1 DEF Joined
  <1>7. Beginnings(T) = Beginnings(c) \cup {m}
    <2>1. \A k \in 1 .. N : k \in 1 .. n \/ (k = n + 1 /\ k < m /\ IsSpace(T[k])) \/ k = m \/ k \in m + 1 .. N
      <3>1. \A k \in 1 .. N : k \in 1 .. m - 1 \/ k = m \/ k \in m + 1 .. N BY <1>1
      <3>2. \A k \in 1 .. m - 1 : k < m BY <1>1
      <3> QED BY <1>4, <3>1, <3>2
    <2>2. \A k \in 1 .. n : k \in 1 .. N /\ (StartsWord(T, k) <=> StartsWord(c, k))
      <3> SUFFICES ASSUME NEW k \in 1 .. n PROVE k \in 1 .. N /\ (StartsWord(T, k) <=> StartsWord(c, k)) OBVIOUS
      <3>1. k \in 1 .. N /\ (k = 1 \/ k - 1 \in 1 .. n) BY <1>1
      <3>2. T[k] = c[k] /\ (k = 1 \/ T[k - 1] = c[k - 1]) BY <1>5, <3>1
      <3> QED BY <3>1, <3>2 DEF StartsWord
    <2>3. StartsWord(T, m)
      <3>1. m \in m .. N BY <1>1
      <3> QED BY <1>3, <1>6, <3>1 DEF StartsWord
    <2>4. \A k \in m + 1 .. N : ~StartsWord(T, k)
      <3> SUFFICES ASSUME NEW k \in m + 1 .. N PROVE ~StartsWord(T, k) OBVIOUS
      <3>1. k - 1 \in m .. N /\ k # 1 BY <1>1
      <3> QED BY <1>3, <3>1 DEF StartsWord
    <2>5. \A k : IsSpace(T[k]) => ~StartsWord(T, k) BY DEF StartsWord
    <2>6. m \in 1 .. N BY <1>1
    <2> HIDE DEF n, N
    <2>7. ASSUME NEW k PROVE k \in Beginnings(T) <=> k \in Beginnings(c) \cup {m}
      <3>1. CASE k \in Beginnings(T)
        <4>1. k \in 1 .. N /\ StartsWord(T, k) BY <3>1 DEF Beginnings, N
        <4>2. k \in 1 .. n \/ k = m BY <2>1, <2>4, <2>5, <4>1
        <4> QED BY <2>2, <3>1, <4>1, <4>2 DEF Beginnings, n
      <3>2. CASE k \in Beginnings(c) BY <2>2, <3>2 DEF Beginnings, n, N
      <3>3. CASE k = m BY <2>3, <2>6, <3>3 DEF Beginnings, N
      <3> QED BY <3>1, <3>2, <3>3
    <2> QED BY <2>7
  <1>8. WordsAt(T)[m] = w
    <2>1. ~IsSpace(T[m]) /\ m \in Beginnings(T)
      <3>1. m \in m .. N BY <1>1
      <3> QED BY <1>3, <1>7, <3>1
    <2>2. Covers(T, m, N + 1)
      <3>1. N + 1 \in m .. Len(T) + 1 /\ (N + 1) - 1 = N BY <1>1
      <3> QED BY <1>3, <3>1 DEF Covers
    <2>3. WordAt(T, m) = SubSeq(T, m, (N + 1) - 1) BY <1>1, <2>1, <2>2, WordAtIs
    <2>4. (N + 1) - 1 = N /\ m \in 1 .. Len(T) + 1 /\ N \in m - 1 .. Len(T) /\ N - m + 1 = l BY <1>1
    <2>5. /\ SubSeq(T, m, N) \in Seq(Chars) /\ Len(SubSeq(T, m, N)) = N - m + 1
          /\ \A k \in 1 .. N - m + 1 : SubSeq(T, m, N)[k] = T[m + k - 1]
      BY <2>4, Piece
    <2>6. \A k \in 1 .. l : m + k - 1 = m - 1 + k BY <1>1
    <2>7. \A k \in 1 .. l : T[m - 1 + k] = w[k] BY DEF Joined
    <2> DEFINE x == SubSeq(T, m, N)
    <2>8. x \in Seq(Chars) /\ Len(x) = l /\ \A k \in 1 .. l : x[k] = w[k] BY <2>4, <2>5, <2>6, <2>7
    <2> HIDE DEF x
    <2>9. x = w BY <1>1, <2>8, SeqEqual
    <2> QED BY <2>1, <2>3, <2>4, <2>9 DEF x, WordsAt
  <1>9. \A i \in Beginnings(c) : WordsAt(c)[i] = WordsAt(T)[i]
    <2> SUFFICES ASSUME NEW i \in Beginnings(c) PROVE WordsAt(c)[i] = WordsAt(T)[i] OBVIOUS
    <2>1. i \in 1 .. n /\ ~IsSpace(c[i]) /\ i \in 1 .. n + 1 BY <1>1 DEF Beginnings, StartsWord
    <2>2. PICK e : Covers(c, i, e) BY <1>1, <2>1, CoverFacts
    <2>3. e \in i .. n + 1 BY <2>2 DEF Covers
    <2>4. i \in 1 .. N /\ ~IsSpace(T[i]) /\ e \in i .. N + 1 BY <1>1, <1>5, <2>1, <2>3
    <2>5. Covers(T, i, e)
      <3>1. \A k \in i .. e - 1 : k \in 1 .. n BY <1>1, <2>1, <2>3
      <3>2. \A k \in i .. e - 1 : ~IsSpace(c[k]) BY <2>2 DEF Covers
      <3>3. \A k \in i .. e - 1 : ~IsSpace(T[k]) BY <1>5, <3>1, <3>2
      <3>4. IsSpace(T[e])
        <4>1. CASE e = n + 1
          <5>1. m = n + 2 /\ IsSpace(T[n + 1]) BY <1>1, <2>1 DEF Joined
          <5> QED BY <4>1, <5>1
        <4>2. CASE e # n + 1
          <5>1. IsSpace(c[e]) BY <2>2, <4>2 DEF Covers
          <5> HIDE DEF n
          <5>2. e \in 1 .. n BY <1>1, <2>1, <2>3, <4>2
          <5> QED BY <1>5, <5>1, <5>2
        <4> QED BY <4>1, <4>2
      <3> QED BY <2>4, <3>3, <3>4 DEF Covers
    <2>6. WordAt(c, i) = SubSeq(c, i, e - 1) /\ WordAt(T, i) = SubSeq(T, i, e - 1)
      BY <2>1, <2>2, <2>4, <2>5, WordAtIs
    <2> DEFINE f == e - 1
               x == SubSeq(c, i, f)
               y == SubSeq(T, i, f)
    <2>7. /\ i \in 1 .. Len(c) + 1 /\ f \in i - 1 .. Len(c) /\ i \in 1 .. Len(T) + 1 /\ f \in i - 1 .. Len(T)
          /\ \A k \in 1 .. f - i + 1 : i + k - 1 \in 1 .. n
      BY <1>1, <2>1, <2>3
    <2> HIDE DEF f
    <2>a. x \in Seq(Chars) /\ Len(x) = f - i + 1 /\ \A k \in 1 .. f - i + 1 : x[k] = c[i + k - 1]
      BY <2>7, Piece, SMTT(30)
    <2>b. y \in Seq(Chars) /\ Len(y) = f - i + 1 /\ \A k \in 1 .. f - i + 1 : y[k] = T[i + k - 1]
      BY <2>7, Piece, SMTT(30)
    <2>8. /\ x \in Seq(Chars) /\ Len(x) = f - i + 1 /\ \A k \in 1 .. f - i + 1 : x[k] = c[i + k - 1]
          /\ y \in Seq(Chars) /\ Len(y) = f - i + 1 /\ \A k \in 1 .. f - i + 1 : y[k] = T[i + k - 1]
      BY <2>a, <2>b
    <2> HIDE DEF x, y
    <2>9. \A k \in 1 .. f - i + 1 : x[k] = y[k]
      <3> HIDE DEF n
      <3> TAKE k \in 1 .. f - i + 1
      <3>1. x[k] = c[i + k - 1] /\ y[k] = T[i + k - 1] /\ i + k - 1 \in 1 .. n BY <2>7, <2>8
      <3> QED BY <1>5, <3>1
    <2>10. x = y BY <2>8, <2>9, SeqEqual
    <2>11. WordAt(c, i) = WordAt(T, i) BY <2>6, <2>10 DEF f, x, y
    <2>12. i \in Beginnings(T) BY <1>7
    <2> QED BY <2>11, <2>12 DEF WordsAt
  <1> DEFINE S == Beginnings(c)
             f == WordsAt(c)
             g == WordsAt(T)
  <1>10. Above(m, S)
    <2>1. S \in SUBSET (1 .. n) /\ m > n /\ n \in Nat BY <1>1 DEF Beginnings
    <2> QED BY <2>1 DEF Above
  <1>11. Valued(f, S, Solid) BY WordsAreSolid
  <1>12. g[m] \in Solid BY <1>8
  <1>13. Alike(f, g, S) BY <1>9 DEF Alike
  <1> HIDE DEF S, f, g
  <1>14. Extends(f, g, m, S) BY <1>10, <1>11, <1>12, <1>13, Zenon DEF Extends
  <1>15. PickGrows(f, g, m, S) BY <1>14, PickedAppend
  <1>16. Picked(g, Beginnings(T)) = Append(Picked(f, S), w) BY <1>7, <1>8, <1>15 DEF PickGrows, S, g
  <1>17. Words(T) = Picked(g, Beginnings(T)) /\ Words(c) = Picked(f, S) BY Zenon DEF Words, WordsAt, f, g, S
  <1> QED BY <1>16, <1>17

\* Appending a word to the command.
LEMMA CommandMore ==
    ASSUME NEW c \in Seq(Chars), NEW w \in Solid
    PROVE  LET text == IF c = << >> THEN w ELSE c \o <<SpaceC>> \o w IN
           /\ Words(text) = Append(Words(c), w) /\ text \in Seq(Chars) /\ text # << >>
           /\ Len(text) = IF c = << >> THEN Len(w) ELSE Len(c) + 1 + Len(w)
  <1>1. w \in Seq(Chars) /\ w # << >> /\ Len(w) \in Nat \ {0} /\ Len(c) \in Nat BY EmptySeq, LenProperties DEF Solid
  <1>2. CASE c = << >>
    <2>1. Joined(w, c, w, 1)
      <3>1. Len(c) = 0 BY <1>2, EmptySeq
      <3>2. Len(w) = 1 - 1 + Len(w) /\ \A j \in 1 .. Len(w) : 1 - 1 + j = j BY <1>1
      <3> QED BY <3>1, <3>2 DEF Joined
    <2>2. Words(w) = Append(Words(c), w) BY <1>1, <2>1, JoinedWords
    <2> QED BY <1>1, <1>2, <2>2
  <1>3. CASE c # << >>
    <2> DEFINE sp == <<SpaceC>>
               b  == c \o sp
               T  == b \o w
               m  == Len(c) + 2
    <2>1. sp \in Seq(Chars) /\ Len(sp) = 1 /\ sp[1] = SpaceC BY CharsDiffer
    <2> HIDE DEF sp
    <2>2. /\ b \in Seq(Chars) /\ Len(b) = Len(c) + 1
          /\ \A i \in 1 .. Len(c) + 1 : b[i] = IF i <= Len(c) THEN c[i] ELSE sp[i - Len(c)]
      <3>1. /\ c \o sp \in Seq(Chars) /\ Len(c \o sp) = Len(c) + Len(sp)
            /\ \A i \in 1 .. Len(c) + Len(sp) : (c \o sp)[i] = IF i <= Len(c) THEN c[i] ELSE sp[i - Len(c)]
        BY <2>1, ConcatProperties
      <3> HIDE DEF b
      <3>2. /\ b \in Seq(Chars) /\ Len(b) = Len(c) + Len(sp)
            /\ \A i \in 1 .. Len(c) + Len(sp) : b[i] = IF i <= Len(c) THEN c[i] ELSE sp[i - Len(c)]
        BY <3>1 DEF b
      <3> QED BY <2>1, <3>2
    <2>3. (\A i \in 1 .. Len(c) : b[i] = c[i]) /\ b[Len(c) + 1] = SpaceC
      <3>1. \A i \in 1 .. Len(c) : i \in 1 .. Len(c) + 1 /\ i <= Len(c) BY <1>1
      <3>2. Len(c) + 1 \in 1 .. Len(c) + 1 /\ ~(Len(c) + 1 <= Len(c)) /\ (Len(c) + 1) - Len(c) = 1 BY <1>1
      <3> QED BY <2>1, <2>2, <3>1, <3>2
    <2> HIDE DEF b
    <2>4. /\ T \in Seq(Chars) /\ Len(T) = Len(b) + Len(w)
          /\ \A i \in 1 .. Len(b) + Len(w) : T[i] = IF i <= Len(b) THEN b[i] ELSE w[i - Len(b)]
      BY <1>1, <2>2, ConcatProperties
    <2> HIDE DEF T
    <2>5. \A i \in 1 .. Len(c) + 1 : T[i] = b[i]
      <3>1. \A i \in 1 .. Len(c) + 1 : i \in 1 .. Len(b) + Len(w) /\ i <= Len(b) BY <1>1, <2>2
      <3> QED BY <2>4, <3>1
    <2>6. \A j \in 1 .. Len(w) : T[m - 1 + j] = w[j]
      <3> SUFFICES ASSUME NEW j \in 1 .. Len(w) PROVE T[m - 1 + j] = w[j] OBVIOUS
      <3>1. m - 1 + j \in 1 .. Len(b) + Len(w) /\ ~(m - 1 + j <= Len(b)) /\ (m - 1 + j) - Len(b) = j BY <1>1, <2>2
      <3> HIDE DEF m
      <3> QED BY <2>4, <3>1
    <2>7. Joined(T, c, w, m)
      <3>1. Len(T) = m - 1 + Len(w) BY <1>1, <2>2, <2>4
      <3>2. \A i \in 1 .. Len(c) : i \in 1 .. Len(c) + 1 BY <1>1
      <3>3. \A i \in 1 .. Len(c) : T[i] = c[i] BY <2>3, <2>5, <3>2
      <3>4. Len(c) + 1 \in 1 .. Len(c) + 1 BY <1>1
      <3>5. IsSpace(T[Len(c) + 1])
        <4>1. IsSpace(SpaceC) BY Zenon DEF IsSpace, SpaceC
        <4> QED BY <2>3, <2>5, <3>4, <4>1
      <3> QED BY <2>6, <3>1, <3>3, <3>5 DEF Joined
    <2>8. m \in Nat BY <1>1
    <2>9. Words(T) = Append(Words(c), w)
      <3> HIDE DEF m
      <3> QED BY <2>4, <2>7, <2>8, JoinedWords
    <2>10. Len(T) = Len(c) + 1 + Len(w) /\ T # << >>
      <3>1. Len(T) = Len(c) + 1 + Len(w) BY <1>1, <2>2, <2>4
      <3>2. Len(T) # 0 BY <1>1, <3>1
      <3> QED BY <3>1, <3>2, <2>4, EmptySeq
    <2> QED BY <1>3, <2>4, <2>9, <2>10 DEF T, b, sp
  <1> QED BY <1>2, <1>3

(***************************************************************************)
(* The rounds.                                                             *)
(***************************************************************************)
\* A plan and a command say what a list of words says.
Tells(ws, plan_, command_) ==
    /\ Accepted(ws) /\ PlanFits(ws, plan_)
    /\ Words(command_) = CommandWords(ws) /\ (command_ = << >> <=> Ordinary(ws) = {})

\* A scan that has come to a place between two words.
OnTheWay(t, s) ==
    /\ Between(t, s.cursor) /\ Tells(Read(t, s.cursor), s.plan, s.command) /\ Len(s.command) <= s.cursor - 1

\* After n rounds: still on the way, or done, or refused with a reason.
Stage(t, n) ==
    {s \in Scans(t) : /\ s.verdict = "scan" => s.cursor > n /\ OnTheWay(t, s)
                      /\ s.verdict = "ok"   => Tells(Words(t), s.plan, s.command) /\ WellFormed(Words(t))
                      /\ s.verdict = "bad"  => ~WellFormed(Words(t))}

LEMMA NoWords ==
    /\ << >> \in Seq(Solid) /\ Accepted(<< >>) /\ PlanFits(<< >>, EmptyPlan)
    /\ Words(<< >>) = << >> /\ CommandWords(<< >>) = << >> /\ Ordinary(<< >>) = {}
  <1>1. << >> \in Seq(Solid) /\ << >> \in Seq(Chars) /\ Len(<< >>) = 0 BY EmptySeq
  <1>2. \A fd : Redirects(<< >>, fd) = {} BY <1>1 DEF Redirects
  <1>3. Accepted(<< >>) BY <1>1, <1>2 DEF Accepted
  <1>4. PlanFits(<< >>, EmptyPlan)
    <2>1. \A fd \in 0 .. 2 : EmptyPlan[fd] = Unused BY DEF EmptyPlan
    <2> QED BY <1>2, <2>1, EmptyTyped DEF PlanFits
  <1>5. Words(<< >>) = << >>
    <2>1. Words(<< >>) = Read(<< >>, Len(<< >>) + 1) /\ Read(<< >>, 1) = << >> BY <1>1, ReadAll
    <2>2. Len(<< >>) + 1 = 1 BY <1>1
    <2> QED BY <2>1, <2>2
  <1>6. Ordinary(<< >>) = {} BY <1>1 DEF Ordinary
  <1>7. CommandWords(<< >>) = << >>
    <2>1. CommandAt(<< >>) = {} BY <1>1, <1>6, WordsFacts
    <2>2. Bounded({}) /\ Valued(<< >>, {}, Solid) BY DEF Bounded, Valued
    <2>3. Picks(<< >>, {}, Solid) BY <2>2, PickedAt
    <2>4. Picked(<< >>, {}) \in Seq(Solid) /\ Len(Picked(<< >>, {})) = 0 BY <2>3, FS_EmptySet DEF Picks
    <2>5. Picked(<< >>, {}) = << >> BY <2>4, EmptySeq
    <2> QED BY <2>1, <2>5 DEF CommandWords
  <1> QED BY <1>1, <1>3, <1>4, <1>5, <1>6, <1>7

LEMMA FirstStage == \A t \in Seq(Chars) : Scan \in Stage(t, 0)
  <1> SUFFICES ASSUME NEW t \in Seq(Chars) PROVE Scan \in Stage(t, 0) OBVIOUS
  <1>1. /\ Scan.cursor = 1 /\ Scan.plan = EmptyPlan /\ Scan.command = << >> /\ Scan.verdict = "scan"
    BY DEF Scan
  <1>2. Scan \in Scans(t) BY ScanTyped, LenProperties
  <1>3. Tells(<< >>, EmptyPlan, << >>) BY NoWords DEF Tells
  <1>4. Read(t, 1) = << >> BY ReadAll
  <1>5. OnTheWay(t, Scan)
    <2>1. Between(t, 1) /\ Len(<< >>) <= 1 - 1 BY EmptySeq DEF Between
    <2> QED BY <1>1, <1>3, <1>4, <2>1 DEF OnTheWay
  <1>6. 1 > 0 OBVIOUS
  <1> QED BY <1>1, <1>2, <1>5, <1>6 DEF Stage

\* The end of the line.
LEMMA EndStage ==
    ASSUME NEW t \in Seq(Chars), NEW s \in Scans(t), OnTheWay(t, s), Words(t) = Read(t, s.cursor), NEW n
    PROVE  [s EXCEPT !.verdict = IF s.command = << >> /\ Redirected(s.plan) THEN "bad" ELSE "ok"] \in Stage(t, n)
  <1> DEFINE ws == Words(t)
             b  == s.command = << >> /\ Redirected(s.plan)
  <1>1. ws \in Seq(Solid)
    <2>1. s.cursor \in 1 .. Len(t) + 1 BY DEF Scans
    <2> QED BY <2>1, BeforeFacts
  <1>2. Tells(ws, s.plan, s.command) BY DEF OnTheWay
  <1> HIDE DEF ws
  <1>3. Redirected(s.plan) <=> \E fd \in 0 .. 2 : Redirects(ws, fd) # {} BY <1>1, <1>2, RedirectedIs DEF Tells
  <1>4. WellFormed(ws) <=> ~b BY <1>1, <1>2, <1>3, WellFormedIs DEF Tells
  <1> HIDE DEF b
  <1>5. CASE b
    <2>1. [s EXCEPT !.verdict = "bad"] \in Scans(t) BY BadTyped
    <2>2. [s EXCEPT !.verdict = "bad"].verdict = "bad" BY DEF Scans
    <2>3. [s EXCEPT !.verdict = "bad"] \in Stage(t, n) BY <1>4, <1>5, <2>1, <2>2 DEF Stage, ws
    <2> QED BY <1>5, <2>3 DEF b
  <1>6. CASE ~b
    <2> DEFINE r == [s EXCEPT !.verdict = "ok"]
    <2>1. r \in Scans(t) BY BadTyped
    <2>2. r.verdict = "ok" /\ r.plan = s.plan /\ r.command = s.command BY DEF Scans
    <2> HIDE DEF r
    <2>3. r \in Stage(t, n) BY <1>2, <1>4, <1>6, <2>1, <2>2 DEF Stage, ws
    <2> QED BY <1>6, <2>3 DEF b, r
  <1> QED BY <1>5, <1>6

\* A refusal that has its reason.
LEMMA BadStage ==
    ASSUME NEW t, NEW n, NEW r \in Scans(t), r.verdict = "bad", ~Accepted(Words(t)), Words(t) \in Seq(Solid)
    PROVE  r \in Stage(t, n)
  BY WellFormedIs DEF Stage

\* A word of the command.
LEMMA WordStage ==
    ASSUME NEW t \in Seq(Chars), Len(t) < LineMax, NEW n \in Nat, NEW s \in Stage(t, n), s.verdict = "scan",
           NextToken(t, s.cursor).word # << >>, ~IsRedirection(NextToken(t, s.cursor).word)
    PROVE  AppendCommandToken(s, NextToken(t, s.cursor).word, NextToken(t, s.cursor).cursor) \in Stage(t, n + 1)
  <1> DEFINE c    == s.cursor
             w    == NextToken(t, c).word
             d    == NextToken(t, c).cursor
             ws   == Read(t, c)
             r    == AppendCommandToken(s, w, d)
             text == Appended(s.command, w)
  <1>1. s \in Scans(t) /\ c > n /\ OnTheWay(t, s) /\ c \in 1 .. Len(t) + 1 BY DEF Stage, Scans
  <1>2. Len(t) \in Nat BY LenProperties
  <1>3. /\ d \in c .. Len(t) + 1 /\ Between(t, d)
        /\ w \in Solid /\ Read(t, d) = Append(ws, w) /\ d > c /\ Len(w) <= d - 1
        /\ c > 1 => Len(w) <= d - 1 - c
    BY <1>1, NextWord DEF OnTheWay
  <1>4. ws \in Seq(Solid) /\ Tells(ws, s.plan, s.command) /\ Len(s.command) <= c - 1 /\ ~IsRedirection(w)
    BY <1>1, BeforeFacts DEF OnTheWay
  <1>5. s.command \in Seq(Chars) /\ w \in Seq(Chars) /\ Len(w) \in Nat /\ Len(s.command) \in Nat
    BY <1>1, <1>3, LenProperties DEF Scans, BufferTexts, Solid
  <1> HIDE DEF c, w, d, ws, r, text
  <1>6. /\ Words(text) = Append(Words(s.command), w) /\ text \in Seq(Chars) /\ text # << >>
        /\ Len(text) = IF s.command = << >> THEN Len(w) ELSE Len(s.command) + 1 + Len(w)
    BY <1>3, <1>5, CommandMore DEF text, Appended
  <1>7. s.command # << >> => c > 1
    <2>1. s.command # << >> => Len(s.command) # 0 BY <1>5, EmptySeq
    <2> QED BY <1>1, <1>4, <1>5, <2>1
  <1>8. Len(text) <= d - 1 /\ Len(text) < LineMax /\ (s.command # << >> => Len(s.command) < LineMax - 1)
    <2>1. c \in Nat /\ d \in Nat /\ d <= Len(t) + 1 BY <1>1, <1>2, <1>3
    <2>2. Len(text) <= d - 1
      <3>1. CASE s.command = << >> BY <1>3, <1>6, <3>1
      <3>2. CASE s.command # << >>
        <4>1. Len(text) = Len(s.command) + 1 + Len(w) /\ Len(w) <= d - 1 - c BY <1>3, <1>6, <1>7, <3>2
        <4> QED BY <1>4, <1>5, <2>1, <4>1
      <3> QED BY <3>1, <3>2
    <2>3. Len(text) < LineMax BY <1>2, <2>1, <2>2, <1>6, LenProperties, CommandLineAssumption
    <2>4. s.command # << >> => Len(s.command) < LineMax - 1 
      <3>1. w # << >> BY <1>3 DEF Solid
      <3>2. Len(w) # 0 BY <1>5, <3>1, EmptySeq
      <3> QED BY <1>5, <1>6, <2>3, <3>2, CommandLineAssumption
    <2> QED BY <2>2, <2>3, <2>4
  <1>9. d \in 1 .. Len(t) + 1 BY <1>1, <1>2, <1>3
  <1>10. /\ r \in Scans(t)
         /\ IF (s.command # << >> /\ Len(s.command) >= LineMax - 1) \/ Len(text) >= LineMax
            THEN r.verdict = "bad"
            ELSE r.verdict = s.verdict /\ r.command = text /\ r.cursor = d /\ r.plan = s.plan
    BY <1>1, <1>5, <1>9, AppendTyped DEF r, text, AppendGoes
  <1>11. ~((s.command # << >> /\ Len(s.command) >= LineMax - 1) \/ Len(text) >= LineMax)
    BY <1>5, <1>6, <1>8, LenProperties, CommandLineAssumption
  <1>12. r.verdict = "scan" /\ r.command = text /\ r.cursor = d /\ r.plan = s.plan BY <1>10, <1>11
  <1>13. /\ Accepted(Append(ws, w)) /\ PlanFits(Append(ws, w), s.plan)
         /\ Ordinary(Append(ws, w)) = Ordinary(ws) \cup {Len(ws) + 1}
    BY <1>3, <1>4, WordMore DEF Tells
  <1>14. CommandWords(Append(ws, w)) = Append(CommandWords(ws), w) BY <1>3, <1>4, <1>13, CommandWordsMore
  <1>15. Tells(Append(ws, w), s.plan, text)
    <2>1. Ordinary(Append(ws, w)) # {} BY <1>13
    <2>2. Words(text) = CommandWords(Append(ws, w)) BY <1>4, <1>6, <1>14 DEF Tells
    <2> QED BY <1>6, <1>13, <2>1, <2>2 DEF Tells
  <1>16. OnTheWay(t, r) BY <1>3, <1>8, <1>12, <1>15 DEF OnTheWay
  <1>17. d > n + 1 BY <1>1, <1>2, <1>3
  <1>18. r \in Stage(t, n + 1) BY <1>10, <1>12, <1>16, <1>17 DEF Stage
  <1> QED BY <1>18 DEF r, w, d, c

\* A redirection with its file: stored when its stream is free, and refused
\* rightly when it is not.
LEMMA StoredStage ==
    ASSUME NEW t \in Seq(Chars), Len(t) < LineMax, NEW n \in Nat, NEW s \in Stage(t, n), s.verdict = "scan",
           NEW w \in Solid, IsRedirection(w), Begins(Append(Read(t, s.cursor), w), Words(t)),
           NEW path \in Seq(Chars), path # << >>, Len(path) < LineMax,
           NEW e \in 1 .. Len(t) + 1, e > s.cursor, Between(t, e),
           Redirects(Read(t, s.cursor), Classify(w).fd) = {} /\ WithTarget(s.plan, w, path) \in Plans =>
              /\ Accepted(Read(t, e)) /\ PlanFits(Read(t, e), WithTarget(s.plan, w, path))
              /\ CommandWords(Read(t, e)) = CommandWords(Read(t, s.cursor))
              /\ Ordinary(Read(t, e)) = Ordinary(Read(t, s.cursor))
    PROVE  StoreRedirection(s, Classify(w), path, e) \in Stage(t, n + 1)
  <1> DEFINE c  == s.cursor
             ws == Read(t, c)
             op == Classify(w)
             r  == StoreRedirection(s, op, path, e)
             p  == WithTarget(s.plan, w, path)
  <1>1. /\ s \in Scans(t) /\ c > n /\ OnTheWay(t, s) /\ c \in 1 .. Len(t) + 1 /\ s.plan \in Plans
        /\ Tells(ws, s.plan, s.command) /\ Len(s.command) <= c - 1
    BY DEF Stage, Scans, OnTheWay
  <1>2. ws \in Seq(Solid) /\ PlanFits(ws, s.plan) /\ Accepted(ws) BY <1>1, BeforeFacts DEF Tells
  <1>3. Len(t) \in Nat /\ Words(t) \in Seq(Solid)
    <2>1. Len(t) \in Nat BY LenProperties
    <2>2. Len(t) + 1 \in 1 .. Len(t) + 1 BY <2>1
    <2> QED BY <2>1, <2>2, BeforeFacts, ReadAll
  <1>4. op \in Operators /\ op.fd \in 0 .. 2
    <2>1. w \in Seq(Chars) BY DEF Solid
    <2> QED BY <2>1, ClassifyIsOperator, OperatorFacts
  <1>5. s.plan[op.fd].mode # "NONE" <=> Redirects(ws, op.fd) # {} BY <1>2, <1>4, RedirectedIs
  <1>6. r \in Scans(t) /\ StoreGoes(s, op, path, e) BY <1>1, <1>4, StoreTyped
  <1>7. ~(Len(path) >= LineMax) BY LenProperties, CommandLineAssumption
  <1> HIDE DEF c, ws, op, r
  <1>8. CASE Redirects(ws, op.fd) # {}
    <2>1. r.verdict = "bad" BY <1>5, <1>6, <1>8 DEF StoreGoes, r
    <2>2. ~Accepted(Words(t)) BY <1>2, <1>3, <1>8, ClashIs DEF ws, c, op
    <2>3. r \in Stage(t, n + 1) BY <1>3, <1>6, <2>1, <2>2, BadStage
    <2> QED BY <2>3 DEF r, op
  <1>9. CASE Redirects(ws, op.fd) = {}
    <2>1. /\ r.verdict = "scan" /\ r.command = s.command /\ r.cursor = e /\ r.plan = p
      BY <1>5, <1>6, <1>7, <1>9 DEF StoreGoes, r, WithTarget, op
    <2>2. p \in Plans BY <1>6, <2>1 DEF Scans
    <2>3. /\ Accepted(Read(t, e)) /\ PlanFits(Read(t, e), p)
          /\ CommandWords(Read(t, e)) = CommandWords(ws) /\ Ordinary(Read(t, e)) = Ordinary(ws)
      BY <1>9, <2>2 DEF ws, c, op
    <2> HIDE DEF p
    <2>4. Tells(Read(t, e), p, s.command) BY <1>1, <2>3 DEF Tells
    <2>5. Len(s.command) <= e - 1 /\ e > n + 1
      <3>1. Len(s.command) \in Nat BY <1>1, LenProperties DEF Scans, BufferTexts
      <3> QED BY <1>1, <1>3, <3>1 DEF c
    <2>6. OnTheWay(t, r) BY <2>1, <2>4, <2>5 DEF OnTheWay
    <2>7. r \in Stage(t, n + 1) BY <1>6, <2>1, <2>5, <2>6 DEF Stage
    <2> QED BY <2>7 DEF r, op
  <1> QED BY <1>8, <1>9

\* An operator with its file glued to it.
LEMMA GluedStage ==
    ASSUME NEW t \in Seq(Chars), Len(t) < LineMax, NEW n \in Nat, NEW s \in Stage(t, n), s.verdict = "scan",
           NextToken(t, s.cursor).word # << >>, IsRedirection(NextToken(t, s.cursor).word),
           ~Bare(NextToken(t, s.cursor).word)
    PROVE  LET tok == NextToken(t, s.cursor) IN
           StoreRedirection(s, Classify(tok.word), Glued(tok.word), tok.cursor) \in Stage(t, n + 1)
  <1> DEFINE c  == s.cursor
             w  == NextToken(t, c).word
             d  == NextToken(t, c).cursor
             ws == Read(t, c)
             x  == Glued(w)
  <1>1. s \in Scans(t) /\ OnTheWay(t, s) /\ c \in 1 .. Len(t) + 1 /\ s.plan \in Plans BY DEF Stage, Scans
  <1>2. Len(t) \in Nat BY LenProperties
  <1>3. /\ d \in c .. Len(t) + 1 /\ Between(t, d)
        /\ w \in Solid /\ Read(t, d) = Append(ws, w) /\ d > c /\ Len(w) <= d - 1
    BY <1>1, NextWord DEF OnTheWay
  <1>4. ws \in Seq(Solid) /\ Accepted(ws) /\ PlanFits(ws, s.plan) BY <1>1, BeforeFacts DEF OnTheWay, Tells
  <1>5. d \in 1 .. Len(t) + 1 BY <1>1, <1>2, <1>3
  <1>6. Begins(Append(ws, w), Words(t)) BY <1>3, <1>5, ReadOn
  <1> HIDE DEF c, w, d, ws
  <1>7. w \in Seq(Chars) /\ IsRedirection(w) /\ ~Bare(w) BY <1>3 DEF Solid, w, c
  <1>8. Classify(w) \in Operators /\ Len(w) > Len(Classify(w).text) BY <1>7, ClassifyIsOperator DEF Bare
  <1>9. x \in Seq(Chars) /\ x # << >> /\ Len(x) < Len(w) BY <1>7, <1>8, GluedPath DEF Glued
  <1>10. Len(x) < LineMax
    <2>1. Len(x) \in Nat /\ Len(w) \in Nat BY <1>7, <1>9, LenProperties
    <2> HIDE DEF x
    <2> QED BY <1>2, <1>3, <1>5, <1>9, <2>1, CommandLineAssumption
  <1> HIDE DEF x
  <1>11. Redirects(ws, Classify(w).fd) = {} /\ WithTarget(s.plan, w, x) \in Plans =>
              /\ Accepted(Read(t, d)) /\ PlanFits(Read(t, d), WithTarget(s.plan, w, x))
              /\ CommandWords(Read(t, d)) = CommandWords(ws)
              /\ Ordinary(Read(t, d)) = Ordinary(ws)
    <2> SUFFICES ASSUME Redirects(ws, Classify(w).fd) = {}, WithTarget(s.plan, w, x) \in Plans
                 PROVE  /\ Accepted(Read(t, d)) /\ PlanFits(Read(t, d), WithTarget(s.plan, w, x))
                        /\ CommandWords(Read(t, d)) = CommandWords(ws)
                        /\ Ordinary(Read(t, d)) = Ordinary(ws)
      OBVIOUS
    <2>1. /\ Accepted(Append(ws, w)) /\ PlanFits(Append(ws, w), WithTarget(s.plan, w, x))
          /\ Ordinary(Append(ws, w)) = Ordinary(ws)
      BY <1>3, <1>4, <1>7, GluedMore DEF x
    <2>2. CommandWords(Append(ws, w)) = CommandWords(ws) BY <1>3, <1>4, <2>1, CommandWordsMore
    <2> QED BY <1>3, <2>1, <2>2
  <1>12. StoreRedirection(s, Classify(w), x, d) \in Stage(t, n + 1)
    BY <1>3, <1>5, <1>6, <1>7, <1>9, <1>10, <1>11, StoredStage DEF ws, c
  <1> QED BY <1>12 DEF x, w, d, c

\* A lone operator: its file is the next word.
LEMMA LoneStage ==
    ASSUME NEW t \in Seq(Chars), Len(t) < LineMax, NEW n \in Nat, NEW s \in Stage(t, n), s.verdict = "scan",
           NextToken(t, s.cursor).word # << >>, Bare(NextToken(t, s.cursor).word)
    PROVE  LET tok  == NextToken(t, s.cursor)
               path == NextToken(t, tok.cursor) IN
           IF path.word = << >> \/ IsRedirection(path.word) THEN [s EXCEPT !.verdict = "bad"] \in Stage(t, n + 1)
           ELSE StoreRedirection(s, Classify(tok.word), path.word, path.cursor) \in Stage(t, n + 1)
  <1> DEFINE c  == s.cursor
             w  == NextToken(t, c).word
             d  == NextToken(t, c).cursor
             ws == Read(t, c)
             x  == NextToken(t, d).word
             e  == NextToken(t, d).cursor
  <1>1. s \in Scans(t) /\ OnTheWay(t, s) /\ c \in 1 .. Len(t) + 1 /\ s.plan \in Plans BY DEF Stage, Scans
  <1>2. Len(t) \in Nat BY LenProperties
  <1>3. /\ d \in c .. Len(t) + 1 /\ Between(t, d)
        /\ w \in Solid /\ Read(t, d) = Append(ws, w) /\ d > c
    BY <1>1, NextWord DEF OnTheWay
  <1>4. ws \in Seq(Solid) /\ Accepted(ws) /\ PlanFits(ws, s.plan) BY <1>1, BeforeFacts DEF OnTheWay, Tells
  <1>5. d \in 1 .. Len(t) + 1 BY <1>1, <1>2, <1>3
  <1>6. Begins(Append(ws, w), Words(t)) BY <1>3, <1>5, ReadOn
  <1>7. Words(t) \in Seq(Solid)
    <2>1. Len(t) + 1 \in 1 .. Len(t) + 1 BY <1>2
    <2> QED BY <2>1, BeforeFacts, ReadAll
  <1>8. Bare(w) /\ IsRedirection(w) BY DEF Bare
  <1>9. /\ e \in d .. Len(t) + 1 /\ Between(t, e)
        /\ x = << >> => Words(t) = Append(ws, w)
        /\ x # << >> => /\ x \in Solid /\ Read(t, e) = Append(Append(ws, w), x) /\ e > d /\ Len(x) <= e - 1
    <2> HIDE DEF c, w, ws
    <2>1. LET k == NextToken(t, d) IN
           /\ k.cursor \in d .. Len(t) + 1 /\ Between(t, k.cursor)
           /\ k.word = << >> => Words(t) = Read(t, d)
           /\ k.word # << >> => /\ k.word \in Solid /\ Read(t, k.cursor) = Append(Read(t, d), k.word)
                                /\ k.cursor > d
                                /\ Len(k.word) <= k.cursor - 1
                                /\ d > 1 => Len(k.word) <= k.cursor - 1 - d
      <3> HIDE DEF d
      <3> QED BY <1>3, <1>5, NextWord
    <2> HIDE DEF d
    <2> QED BY <1>3, <2>1
  <1> HIDE DEF c, w, d, ws, x, e
  <1>10. e \in 1 .. Len(t) + 1 BY <1>2, <1>5, <1>9
  <1>11. x # << >> => Begins(Append(Append(ws, w), x), Words(t)) BY <1>9, <1>10, ReadOn
  <1>12. CASE x = << >> \/ IsRedirection(x)
    <2>1. ~Accepted(Words(t))
      <3>1. \/ Words(t) = Append(ws, w)
            \/ \E p \in Solid : IsRedirection(p) /\ Begins(Append(Append(ws, w), p), Words(t))
        BY <1>9, <1>11, <1>12
      <3> QED BY <1>3, <1>4, <1>6, <1>7, <1>8, <3>1, LoneIs
    <2>2. [s EXCEPT !.verdict = "bad"] \in Scans(t) BY <1>1, BadTyped
    <2>3. [s EXCEPT !.verdict = "bad"].verdict = "bad" BY <1>1 DEF Scans
    <2>4. [s EXCEPT !.verdict = "bad"] \in Stage(t, n + 1) BY <1>7, <2>1, <2>2, <2>3, BadStage
    <2> QED BY <1>12, <2>4 DEF x, d, c
  <1>13. CASE ~(x = << >> \/ IsRedirection(x))
    <2>1. x \in Solid /\ x \in Seq(Chars) /\ x # << >> /\ Read(t, e) = Append(Append(ws, w), x) /\ Len(x) <= e - 1
      BY <1>9, <1>13 DEF Solid
    <2>2. Len(x) < LineMax
      <3>1. Len(x) \in Nat BY <2>1, LenProperties
      <3> QED BY <1>2, <1>10, <2>1, <3>1, CommandLineAssumption
    <2>3. e > c BY <1>1, <1>2, <1>3, <1>9
    <2>4. Redirects(ws, Classify(w).fd) = {} /\ WithTarget(s.plan, w, x) \in Plans =>
              /\ Accepted(Read(t, e)) /\ PlanFits(Read(t, e), WithTarget(s.plan, w, x))
              /\ CommandWords(Read(t, e)) = CommandWords(ws)
              /\ Ordinary(Read(t, e)) = Ordinary(ws)
      <3> SUFFICES ASSUME Redirects(ws, Classify(w).fd) = {}, WithTarget(s.plan, w, x) \in Plans
                   PROVE  /\ Accepted(Read(t, e)) /\ PlanFits(Read(t, e), WithTarget(s.plan, w, x))
                          /\ CommandWords(Read(t, e)) = CommandWords(ws)
                          /\ Ordinary(Read(t, e)) = Ordinary(ws)
        OBVIOUS
      <3>1. LET v == Append(Append(ws, w), x) IN
            /\ Accepted(v) /\ PlanFits(v, WithTarget(s.plan, w, x))
            /\ CommandWords(v) = CommandWords(ws) /\ Ordinary(v) = Ordinary(ws)
        BY <1>3, <1>4, <1>8, <1>13, <2>1, LoneMore
      <3> QED BY <2>1, <3>1
    <2>5. StoreRedirection(s, Classify(w), x, e) \in Stage(t, n + 1)
      BY <1>3, <1>6, <1>8, <1>9, <1>10, <2>1, <2>2, <2>3, <2>4, StoredStage DEF ws, c
    <2> QED BY <1>13, <2>5 DEF x, e, w, d, c
  <1> QED BY <1>12, <1>13

LEMMA StepStage ==
    ASSUME NEW t \in Seq(Chars), Len(t) < LineMax, NEW n \in Nat, NEW s \in Stage(t, n)
    PROVE  ParseStep(t, s) \in Stage(t, n + 1)
  <1> DEFINE tok  == NextToken(t, s.cursor)
             w    == tok.word
             d    == tok.cursor
             x    == NextToken(t, d).word
             e    == NextToken(t, d).cursor
             over == [s EXCEPT !.verdict = IF s.command = << >> /\ Redirected(s.plan) THEN "bad" ELSE "ok"]
             bad  == [s EXCEPT !.verdict = "bad"]
             r    == ParseStep(t, s)
  <1>1. /\ s.verdict # "scan" => r = s
        /\ s.verdict = "scan" /\ w = << >> => r = over
        /\ s.verdict = "scan" /\ w # << >> =>
              /\ ~IsRedirection(w) => r = AppendCommandToken(s, w, d)
              /\ IsRedirection(w) /\ Len(w) > Len(Classify(w).text) => r = StoreRedirection(s, Classify(w), Glued(w), d)
              /\ IsRedirection(w) /\ ~(Len(w) > Len(Classify(w).text)) =>
                    /\ x = << >> \/ IsRedirection(x) => r = bad
                    /\ x # << >> /\ ~IsRedirection(x) => r = StoreRedirection(s, Classify(w), x, e)
    BY ParseCases, Zenon DEF Glued
  <1> HIDE DEF r
  <1>2. CASE s.verdict # "scan"
    <2>1. s \in Stage(t, n + 1) BY <1>2 DEF Stage
    <2> QED BY <1>1, <1>2, <2>1 DEF r
  <1>3. CASE s.verdict = "scan" /\ w = << >>
    <2>1. s \in Scans(t) /\ OnTheWay(t, s) /\ s.cursor \in 1 .. Len(t) + 1 /\ Between(t, s.cursor)
      BY <1>3 DEF Stage, Scans, OnTheWay
    <2>2. Words(t) = Read(t, s.cursor) BY <1>3, <2>1, NextWord
    <2>3. over \in Stage(t, n + 1) BY <2>1, <2>2, EndStage
    <2> QED BY <1>1, <1>3, <2>3 DEF r
  <1>4. CASE s.verdict = "scan" /\ w # << >> /\ ~IsRedirection(w)
    <2>1. AppendCommandToken(s, w, d) \in Stage(t, n + 1) BY <1>4, WordStage
    <2> QED BY <1>1, <1>4, <2>1 DEF r
  <1>5. CASE s.verdict = "scan" /\ w # << >> /\ IsRedirection(w) /\ Len(w) > Len(Classify(w).text)
    <2>1. ~Bare(w) BY <1>5 DEF Bare
    <2>2. StoreRedirection(s, Classify(w), Glued(w), d) \in Stage(t, n + 1) BY <1>5, <2>1, GluedStage
    <2> QED BY <1>1, <1>5, <2>2 DEF r
  <1>6. CASE s.verdict = "scan" /\ w # << >> /\ IsRedirection(w) /\ ~(Len(w) > Len(Classify(w).text))
    <2>1. Bare(w) BY <1>6 DEF Bare
    <2>2. IF x = << >> \/ IsRedirection(x) THEN bad \in Stage(t, n + 1)
          ELSE StoreRedirection(s, Classify(w), x, e) \in Stage(t, n + 1)
      BY <1>6, <2>1, LoneStage
    <2> HIDE DEF bad, x, e, w
    <2> QED BY <1>1, <1>6, <2>2 DEF r
  <1> QED BY <1>2, <1>3, <1>4, <1>5, <1>6

\* Where the loop ends, the parser has an answer, and it is the right one.
LEMMA ParsedStage ==
    ASSUME NEW t \in Seq(Chars), Len(t) < LineMax
    PROVE  LET p == ParseRedirections(t) IN
           /\ p \in Scans(t)
           /\ \/ p.verdict = "ok" /\ Tells(Words(t), p.plan, p.command) /\ WellFormed(Words(t))
              \/ p.verdict = "bad" /\ ~WellFormed(Words(t))
  <1> DEFINE N == Len(t) + 1
             I == [n \in 0 .. N |-> Stage(t, n)]
             p == ParseRedirections(t)
  <1>1. Len(t) \in Nat /\ 0 \in 0 .. N /\ N \in 0 .. N BY LenProperties
  <1>2. \A n \in 0 .. Len(t) : n \in Nat /\ n \in 0 .. N /\ n + 1 \in 0 .. N BY <1>1
  <1>3. \A n \in 0 .. N : I[n] = Stage(t, n) OBVIOUS
  <1> HIDE DEF I
  <1>4. Scan \in I[0] BY <1>1, <1>3, FirstStage
  <1>5. \A n \in 0 .. Len(t) : \A s \in I[n] : ParseStep(t, s) \in I[n + 1]
    <2> SUFFICES ASSUME NEW n \in 0 .. Len(t), NEW s \in I[n] PROVE ParseStep(t, s) \in I[n + 1] OBVIOUS
    <2>1. s \in Stage(t, n) /\ n \in Nat BY <1>2, <1>3
    <2>2. ParseStep(t, s) \in Stage(t, n + 1) BY <2>1, StepStage
    <2> QED BY <1>2, <1>3, <2>2
  <1>6. p \in I[Len(t) + 1] BY <1>1, <1>4, <1>5, ParsedInvariant
  <1>7. p \in Stage(t, N) BY <1>1, <1>3, <1>6
  <1> HIDE DEF p
  <1>8. p \in Scans(t) BY <1>7 DEF Stage
  <1>9. p.verdict # "scan"
    <2>1. p.cursor \in 1 .. Len(t) + 1 BY <1>8 DEF Scans
    <2>2. ~(p.cursor > N) BY <1>1, <2>1
    <2> QED BY <1>7, <2>2 DEF Stage
  <1>10. p.verdict \in {"scan", "ok", "bad"} BY <1>8 DEF Scans
  <1> QED BY <1>7, <1>8, <1>9, <1>10 DEF Stage, p

\* The parser of any line that fits its buffer says what the meaning says.
LEMMA AgreesAlways == \A t \in Seq(Chars) : Len(t) < LineMax => Agrees(t)
  <1> SUFFICES ASSUME NEW t \in Seq(Chars), Len(t) < LineMax PROVE Agrees(t) OBVIOUS
  <1> DEFINE p  == ParseRedirections(t)
             m  == Meaning(t)
             ws == Words(t)
  <1>1. /\ p \in Scans(t)
        /\ \/ p.verdict = "ok" /\ Tells(ws, p.plan, p.command) /\ WellFormed(ws)
           \/ p.verdict = "bad" /\ ~WellFormed(ws)
    BY ParsedStage
  <1>2. /\ WellFormed(ws) => m.ok = TRUE /\ m.plan = PlanOf(ws) /\ m.words = CommandWords(ws)
        /\ ~WellFormed(ws) => m.ok = FALSE
    BY Zenon DEF Meaning
  <1>3. ws \in Seq(Solid)
    <2>1. Len(t) + 1 \in 1 .. Len(t) + 1 BY LenProperties
    <2> QED BY <2>1, BeforeFacts, ReadAll
  <1>4. Len(p.command) < LineMax BY <1>1 DEF Scans, BufferTexts
  <1> HIDE DEF p, m, ws
  <1>5. CASE p.verdict = "ok" /\ Tells(ws, p.plan, p.command) /\ WellFormed(ws)
    <2>1. m.ok = TRUE /\ m.plan = PlanOf(ws) /\ m.words = CommandWords(ws) BY <1>2, <1>5
    <2>2. Words(p.command) = m.words BY <1>5, <2>1 DEF Tells
    <2>3. p.plan = m.plan BY <1>3, <1>5, <2>1, PlanOfIs DEF Tells
    <2> QED BY <1>4, <1>5, <2>1, <2>2, <2>3, Zenon DEF Agrees, p, m
  <1>6. CASE p.verdict = "bad" /\ ~WellFormed(ws)
    <2>1. m.ok = FALSE /\ p.verdict # "ok" BY <1>2, <1>6
    <2> QED BY <2>1, Zenon DEF Agrees, p, m
  <1> QED BY <1>1, <1>5, <1>6

THEOREM ParserMeansWhatItSays ==
    ASSUME \A t \in Probes : Len(t) < LineMax
    PROVE  Spec => []ParserAgrees
  <1>1. \A t \in Probes : t \in Seq(Chars) BY TextsAssumption, TextsOfStrings
  <1>2. ParserAgrees BY <1>1, AgreesAlways DEF ParserAgrees
  <1> QED BY <1>2, PTL

(***************************************************************************)
(* The words of a line, cut in two.                                        *)
(***************************************************************************)
Drop(t, i)  == SubSeq(t, i, Len(t))

\* No word goes on at i.
Clear(t, i) == i = 1 \/ i = Len(t) + 1 \/ IsSpace(t[i]) \/ IsSpace(t[i - 1])

\* The rest of a text, character by character.
LEMMA DropIs ==
    ASSUME NEW t \in Seq(Chars), NEW i \in 1 .. Len(t) + 1
    PROVE  /\ Drop(t, i) \in Seq(Chars) /\ Len(Drop(t, i)) = Len(t) - i + 1
           /\ \A k \in 1 .. Len(t) - i + 1 : Drop(t, i)[k] = t[i + k - 1]
  <1> DEFINE n == Len(t)
  <1>1. n \in Nat BY LenProperties
  <1>2. n \in i - 1 .. n BY <1>1
  <1>3. /\ SubSeq(t, i, n) \in Seq(Chars) /\ Len(SubSeq(t, i, n)) = n - i + 1
        /\ \A k \in 1 .. n - i + 1 : SubSeq(t, i, n)[k] = t[i + k - 1]
        /\ SubSeq(t, i, n) = << >> <=> n = i - 1
    <2>1. n \in i - 1 .. Len(t) BY <1>2
    <2> HIDE DEF n
    <2> QED BY <2>1, Piece, ZenonT(40)
  <1> QED BY <1>3 DEF Drop

\* A word that is covered in a text is covered in its rest.
LEMMA CoversDrop ==
    ASSUME NEW t \in Seq(Chars), NEW i \in 1 .. Len(t) + 1, NEW d \in i .. Len(t) + 1, NEW e, Covers(t, d, e)
    PROVE  Covers(Drop(t, i), d - i + 1, e - i + 1)
  <1> DEFINE u == Drop(t, i)
  <1>1. /\ Len(t) \in Nat /\ Len(u) = Len(t) - i + 1
        /\ \A k \in 1 .. Len(t) - i + 1 : u[k] = t[i + k - 1]
    BY DropIs, LenProperties
  <1> HIDE DEF u
  <1>2. e \in d .. Len(t) + 1 /\ (e = Len(t) + 1 \/ IsSpace(t[e])) /\ \A k \in d .. e - 1 : ~IsSpace(t[k])
    BY DEF Covers
  <1>3. e - i + 1 \in d - i + 1 .. Len(u) + 1 BY <1>1, <1>2
  <1>4. e - i + 1 = Len(u) + 1 \/ IsSpace(u[e - i + 1])
    <2>1. CASE e = Len(t) + 1 BY <1>1, <2>1
    <2>2. CASE e # Len(t) + 1 /\ IsSpace(t[e])
      <3>1. e - i + 1 \in 1 .. Len(t) - i + 1 /\ i + (e - i + 1) - 1 = e BY <1>1, <1>2, <2>2
      <3>2. u[e - i + 1] = t[i + (e - i + 1) - 1] BY <1>1, <3>1
      <3> QED BY <2>2, <3>1, <3>2
    <2> QED BY <1>2, <2>1, <2>2
  <1>5. ASSUME NEW k \in d - i + 1 .. (e - i + 1) - 1 PROVE ~IsSpace(u[k])
    <2>1. k \in 1 .. Len(t) - i + 1 /\ i + k - 1 \in d .. e - 1 BY <1>1, <1>2
    <2>2. u[k] = t[i + k - 1] BY <1>1, <2>1
    <2> QED BY <1>2, <2>1, <2>2
  <1> QED BY <1>3, <1>4, <1>5 DEF Covers, u

\* A piece of the rest is a piece of the text.
LEMMA PieceDrop ==
    ASSUME NEW t \in Seq(Chars), NEW i \in 1 .. Len(t) + 1, NEW d \in i .. Len(t) + 1, NEW f \in d - 1 .. Len(t)
    PROVE  SubSeq(Drop(t, i), d - i + 1, f - i + 1) = SubSeq(t, d, f)
  <1> DEFINE u == Drop(t, i)
             j == d - i + 1
             g == f - i + 1
             x == SubSeq(t, d, f)
             y == SubSeq(u, j, g)
  <1>1. /\ Len(t) \in Nat /\ u \in Seq(Chars) /\ Len(u) = Len(t) - i + 1
        /\ \A k \in 1 .. Len(t) - i + 1 : u[k] = t[i + k - 1]
    BY DropIs, LenProperties
  <1> HIDE DEF u
  <1>2. /\ d \in 1 .. Len(t) + 1 /\ f \in d - 1 .. Len(t) /\ j \in 1 .. Len(u) + 1 /\ g \in j - 1 .. Len(u)
        /\ g - j + 1 = f - d + 1
        /\ \A k \in 1 .. f - d + 1 : j + k - 1 \in 1 .. Len(t) - i + 1 /\ i + (j + k - 1) - 1 = d + k - 1
    BY <1>1
  <1> HIDE DEF j, g
  <1>3. x \in Seq(Chars) /\ Len(x) = f - d + 1 /\ \A k \in 1 .. f - d + 1 : x[k] = t[d + k - 1]
    BY <1>2, Piece, SMTT(30)
  <1>4. y \in Seq(Chars) /\ Len(y) = f - d + 1 /\ \A k \in 1 .. f - d + 1 : y[k] = u[j + k - 1]
    <2>1. y \in Seq(Chars) /\ Len(y) = g - j + 1 /\ \A k \in 1 .. g - j + 1 : y[k] = u[j + k - 1]
      BY <1>1, <1>2, Piece, SMTT(30)
    <2> QED BY <1>2, <2>1
  <1> HIDE DEF x, y
  <1>5. ASSUME NEW k \in 1 .. f - d + 1 PROVE x[k] = y[k]
    <2>1. u[j + k - 1] = t[i + (j + k - 1) - 1] BY <1>1, <1>2
    <2> QED BY <1>2, <1>3, <1>4, <2>1
  <1>6. x = y BY <1>3, <1>4, <1>5, SeqEqual
  <1> QED BY <1>6 DEF x, y, u, j, g

\* What is left of what is left.
LEMMA DropDrop ==
    ASSUME NEW t \in Seq(Chars), NEW i \in 1 .. Len(t) + 1, NEW d \in i .. Len(t) + 1
    PROVE  Drop(Drop(t, i), d - i + 1) = Drop(t, d)
  <1>1. Len(t) \in Nat /\ Len(Drop(t, i)) = Len(t) - i + 1 BY DropIs, LenProperties
  <1>2. Len(t) \in d - 1 .. Len(t) BY <1>1
  <1>3. SubSeq(Drop(t, i), d - i + 1, Len(t) - i + 1) = SubSeq(t, d, Len(t)) BY <1>2, PieceDrop
  <1>4. Drop(Drop(t, i), d - i + 1) = SubSeq(Drop(t, i), d - i + 1, Len(Drop(t, i))) BY DEF Drop
  <1> QED BY <1>1, <1>3, <1>4 DEF Drop

\* The word at a place of the rest is the word at that place of the text.
LEMMA WordAtDrop ==
    ASSUME NEW t \in Seq(Chars), NEW i \in 1 .. Len(t) + 1, NEW d \in i .. Len(t), ~IsSpace(t[d])
    PROVE  WordAt(Drop(t, i), d - i + 1) = WordAt(t, d)
  <1> DEFINE u == Drop(t, i)
             j == d - i + 1
  <1>1. /\ Len(t) \in Nat /\ u \in Seq(Chars) /\ Len(u) = Len(t) - i + 1
        /\ \A k \in 1 .. Len(t) - i + 1 : u[k] = t[i + k - 1]
    BY DropIs, LenProperties
  <1>2. d \in 1 .. Len(t) /\ d \in 1 .. Len(t) + 1 /\ d \in i .. Len(t) + 1 /\ j \in 1 .. Len(u) /\ i + j - 1 = d
    BY <1>1
  <1>3. PICK e : Covers(t, d, e) BY <1>1, <1>2, CoverFacts
  <1>4. e \in d .. Len(t) + 1 BY <1>3 DEF Covers
  <1>5. Covers(u, j, e - i + 1) BY <1>2, <1>3, CoversDrop
  <1>6. u[j] = t[d] BY <1>1, <1>2
  <1> HIDE DEF u, j
  <1>7. WordAt(u, j) = SubSeq(u, j, (e - i + 1) - 1) BY <1>1, <1>2, <1>5, <1>6, WordAtIs
  <1>8. WordAt(t, d) = SubSeq(t, d, e - 1) BY <1>2, <1>3, WordAtIs
  <1>9. e - 1 \in d - 1 .. Len(t) /\ (e - i + 1) - 1 = (e - 1) - i + 1 BY <1>1, <1>2, <1>4
  <1>10. SubSeq(Drop(t, i), d - i + 1, (e - 1) - i + 1) = SubSeq(t, d, e - 1) BY <1>2, <1>9, PieceDrop
  <1> QED BY <1>7, <1>8, <1>9, <1>10 DEF u, j

\* Cut where no word goes on, a line has the words of its two parts.
LEMMA SplitWords ==
    ASSUME NEW t \in Seq(Chars), NEW i \in 1 .. Len(t) + 1, Clear(t, i)
    PROVE  Words(t) = Read(t, i) \o Words(Drop(t, i)) /\ Words(Drop(t, i)) \in Seq(Solid)
  <1> DEFINE u    == Drop(t, i)
             N    == Len(t) - i + 1
             Good == {n \in 0 .. N : Read(t, i + n) = Read(t, i) \o Read(u, n + 1)}
  <1>1. /\ Len(t) \in Nat /\ u \in Seq(Chars) /\ Len(u) = Len(t) - i + 1
        /\ \A k \in 1 .. Len(t) - i + 1 : u[k] = t[i + k - 1]
    BY DropIs, LenProperties
  <1> HIDE DEF u
  <1>2. N \in Nat /\ i + 0 = i /\ 0 + 1 = 1 /\ i + N = Len(t) + 1 /\ N = Len(u) BY <1>1
  <1>3. Read(t, i) \in Seq(Solid) BY BeforeFacts
  <1>4. 0 \in Good
    <2>1. Read(u, 1) = << >> BY <1>1, ReadAll
    <2>2. Read(t, i) \o << >> = Read(t, i) BY <1>3, ConcatEmptySeq
    <2>3. Read(t, i + 0) = Read(t, i) \o Read(u, 0 + 1) BY <1>2, <2>1, <2>2, Zenon
    <2>4. 0 \in 0 .. N BY <1>2
    <2> HIDE DEF N
    <2> QED BY <2>3, <2>4, Zenon
  <1>5. ASSUME NEW n \in 0 .. N - 1, n \in Good PROVE n + 1 \in Good
    <2> DEFINE d == i + n
               j == n + 1
    <2>1. /\ n + 1 \in 0 .. N /\ i + (n + 1) = d + 1 /\ (n + 1) + 1 = j + 1
          /\ d \in 1 .. Len(t) /\ d \in i .. Len(t) /\ j \in 1 .. Len(u) /\ j \in 1 .. Len(u) + 1
          /\ j = d - i + 1 /\ i + j - 1 = d
      BY <1>1, <1>2
    <2>2. Read(t, d) = Read(t, i) \o Read(u, j) BY <1>5
    <2>3. u[j] = t[d] BY <1>1, <2>1
    <2>4. StartsWord(u, j) <=> StartsWord(t, d)
      <3>1. CASE n = 0
        <4>1. j = 1 /\ d = i /\ d # Len(t) + 1 BY <1>1, <2>1, <3>1
        <4>2. StartsWord(u, j) <=> ~IsSpace(t[d]) BY <2>3, <4>1 DEF StartsWord
        <4>3. StartsWord(t, d) <=> ~IsSpace(t[d]) BY <4>1 DEF StartsWord, Clear
        <4> QED BY <4>2, <4>3
      <3>2. CASE n # 0
        <4>1. j # 1 /\ d # 1 /\ j - 1 \in 1 .. Len(t) - i + 1 /\ i + (j - 1) - 1 = d - 1 BY <1>1, <2>1, <3>2
        <4>2. u[j - 1] = t[d - 1] BY <1>1, <4>1
        <4> HIDE DEF d, j
        <4> QED BY <2>3, <4>1, <4>2 DEF StartsWord
      <3> QED BY <3>1, <3>2
    <2> HIDE DEF d, j
    <2>5. CASE ~StartsWord(t, d)
      <3>1. Read(t, d + 1) = Read(t, d) BY <2>1, <2>5, ReadNext
      <3>2. Read(u, j + 1) = Read(u, j) BY <1>1, <2>1, <2>4, <2>5, ReadNext
      <3> QED BY <2>1, <2>2, <3>1, <3>2
    <2>6. CASE StartsWord(t, d)
      <3> DEFINE w == WordAt(t, d)
      <3>1. w \in Solid /\ Read(t, d + 1) = Append(Read(t, d), w) BY <2>1, <2>6, ReadNext
      <3>2. WordAt(u, j) = w
        <4>1. ~IsSpace(t[d]) BY <2>6 DEF StartsWord
        <4> QED BY <2>1, <4>1, WordAtDrop DEF u
      <3>3. Read(u, j + 1) = Append(Read(u, j), w) BY <1>1, <2>1, <2>4, <2>6, <3>2, ReadNext
      <3>4. Read(u, j) \in Seq(Solid) BY <1>1, <2>1, BeforeFacts
      <3> HIDE DEF w
      <3>5. Append(Read(t, i) \o Read(u, j), w) = Read(t, i) \o Append(Read(u, j), w)
        <4> DEFINE a == Read(t, i)
                   b == Read(u, j)
                   z == <<w>>
        <4>1. a \in Seq(Solid) /\ b \in Seq(Solid) /\ z \in Seq(Solid) BY <1>3, <3>1, <3>4
        <4>2. Append(b, w) = b \o z BY <3>1, <4>1, AppendIsConcat
        <4> HIDE DEF a, b
        <4>3. a \o b \in Seq(Solid) BY <4>1, ConcatProperties
        <4>4. Append(a \o b, w) = (a \o b) \o z BY <3>1, <4>3, AppendIsConcat
        <4> HIDE DEF z
        <4>6. (a \o b) \o z = a \o (b \o z) BY <4>1, ConcatAssociative, SMTT(40)
        <4> QED BY <4>2, <4>4, <4>6 DEF a, b
      <3> QED BY <2>1, <2>2, <3>1, <3>3, <3>5
    <2> QED BY <2>5, <2>6
  <1>6. N \in Good
    <2> HIDE DEF Good, N
    <2>1. \A n \in 0 .. N - 1 : n \in Good => n + 1 \in Good BY <1>5
    <2>2. \A n \in 0 .. N : n \in Good BY <1>2, <1>4, <2>1, Upward, Zenon
    <2> QED BY <1>2, <2>2
  <1>7. Read(t, Len(t) + 1) = Read(t, i) \o Read(u, Len(u) + 1) BY <1>2, <1>6
  <1>8. Words(t) = Read(t, Len(t) + 1) /\ Words(u) = Read(u, Len(u) + 1) BY <1>1, ReadAll
  <1>9. Words(u) \in Seq(Solid)
    <2>1. Len(u) + 1 \in 1 .. Len(u) + 1 BY <1>1, LenProperties
    <2> QED BY <1>1, <1>8, <2>1, BeforeFacts
  <1> QED BY <1>7, <1>8, <1>9 DEF u

\* From c to e there are only spaces.
Blank(t, c, e) == \A k \in c .. e - 1 : IsSpace(t[k])

\* Spaces hold no word.
LEMMA BlankReads ==
    ASSUME NEW t \in Seq(Chars), NEW c \in 1 .. Len(t) + 1, NEW e \in c .. Len(t) + 1, Blank(t, c, e)
    PROVE  Read(t, e) = Read(t, c)
  <1>1. Len(t) \in Nat BY LenProperties
  <1>2. ASSUME NEW i \in c .. e - 1 PROVE ~StartsWord(t, i) BY DEF Blank, StartsWord
  <1>3. \A i : i \in 1 .. e - 1 <=> i \in 1 .. c - 1 \/ i \in c .. e - 1 BY <1>1
  <1>4. Before(t, e) = Before(t, c) BY <1>2, <1>3 DEF Before
  <1> QED BY <1>4 DEF Read

\* Leading spaces do not count.
LEMMA LeadingBlank ==
    ASSUME NEW t \in Seq(Chars), NEW e \in 1 .. Len(t) + 1, Blank(t, 1, e)
    PROVE  Words(Drop(t, e)) = Words(t)
  <1>1. Len(t) \in Nat /\ 1 \in 1 .. Len(t) + 1 BY LenProperties
  <1>2. Read(t, e) = << >> BY <1>1, BlankReads, ReadAll
  <1>3. Clear(t, e)
    <2>1. e = 1 \/ e - 1 \in 1 .. e - 1 BY <1>1
    <2> QED BY <2>1 DEF Clear, Blank
  <1>4. Words(t) = << >> \o Words(Drop(t, e)) /\ Words(Drop(t, e)) \in Seq(Solid)
    <2>1. Words(t) = Read(t, e) \o Words(Drop(t, e)) /\ Words(Drop(t, e)) \in Seq(Solid) BY <1>3, SplitWords
    <2> QED BY <1>2, <2>1
  <1>5. << >> \o Words(Drop(t, e)) = Words(Drop(t, e)) BY <1>4, ConcatEmptySeq
  <1> QED BY <1>4, <1>5

\* Between two tokens there are only spaces.
LEMMA InnerBlank ==
    ASSUME NEW t \in Seq(Chars), NEW c \in 1 .. Len(t) + 1, NEW e \in c .. Len(t) + 1, Blank(t, c, e)
    PROVE  Words(Drop(t, e)) = Words(Drop(t, c))
  <1> DEFINE u == Drop(t, c)
             f == e - c + 1
  <1>1. /\ Len(t) \in Nat /\ u \in Seq(Chars) /\ Len(u) = Len(t) - c + 1
        /\ \A k \in 1 .. Len(t) - c + 1 : u[k] = t[c + k - 1]
    BY DropIs, LenProperties
  <1> HIDE DEF u
  <1>2. f \in 1 .. Len(u) + 1 BY <1>1
  <1>3. ASSUME NEW k \in 1 .. f - 1 PROVE IsSpace(u[k])
    <2>1. k \in 1 .. Len(t) - c + 1 /\ c + k - 1 \in c .. e - 1 BY <1>1
    <2>2. u[k] = t[c + k - 1] BY <1>1, <2>1
    <2>3. IsSpace(t[c + k - 1]) BY <2>1 DEF Blank
    <2> QED BY <2>2, <2>3
  <1> HIDE DEF f
  <1>4. Blank(u, 1, f) BY <1>3 DEF Blank
  <1>5. Words(Drop(u, f)) = Words(u) BY <1>1, <1>2, <1>4, LeadingBlank
  <1>6. Drop(u, f) = Drop(t, e) BY DropDrop DEF u, f
  <1> QED BY <1>5, <1>6 DEF u

\* The first token of a line is its first word, and the other words follow it.
FirstIs(t, w, c) ==
    /\ w = << >> <=> Words(t) = << >>
    /\ w # << >> => /\ c \in 2 .. Len(t) + 1 /\ w \in Solid /\ Words(Drop(t, c)) \in Seq(Solid)
                    /\ Words(t) = <<w>> \o Words(Drop(t, c))

\* The first token is the first word, and the rest holds the others.
LEMMA FirstToken ==
    ASSUME NEW t \in Seq(Chars)
    PROVE  FirstIs(t, NextToken(t, 1).word, NextToken(t, 1).cursor)
  <1> DEFINE w == NextToken(t, 1).word
             c == NextToken(t, 1).cursor
  <1>1. Len(t) \in Nat /\ 1 \in 1 .. Len(t) + 1 /\ Between(t, 1) BY LenProperties DEF Between
  <1>2. /\ c \in 1 .. Len(t) + 1 /\ Between(t, c)
        /\ w = << >> => Words(t) = Read(t, 1)
        /\ w # << >> => w \in Solid /\ Read(t, c) = Append(Read(t, 1), w) /\ c > 1
    BY <1>1, NextWord
  <1>3. Read(t, 1) = << >> BY ReadAll
  <1> HIDE DEF w, c
  <1>4. CASE w = << >> BY <1>2, <1>3, <1>4 DEF FirstIs, w, c
  <1>5. CASE w # << >>
    <2>1. c \in 2 .. Len(t) + 1 BY <1>1, <1>2, <1>5
    <2>2. Clear(t, c) BY <1>2, <1>5 DEF Clear, Between
    <2>3. Words(t) = Read(t, c) \o Words(Drop(t, c)) /\ Words(Drop(t, c)) \in Seq(Solid)
      BY <1>2, <2>2, SplitWords
    <2>4. Read(t, c) = <<w>>
      <3>1. Read(t, c) = Append(<< >>, w) BY <1>2, <1>3, <1>5
      <3>2. Append(<< >>, w) = <<w>> OBVIOUS
      <3> QED BY <3>1, <3>2
    <2>5. Words(t) = <<w>> \o Words(Drop(t, c)) BY <2>3, <2>4
    <2>6. Words(t) # << >>
      <3>1. <<w>> \in Seq(Solid) /\ Len(<<w>>) = 1 BY <1>2, <1>5
      <3>2. Len(Words(t)) = Len(<<w>>) + Len(Words(Drop(t, c))) /\ Len(Words(Drop(t, c))) \in Nat
        <4> DEFINE b == Words(Drop(t, c))
                   a == <<w>>
        <4>1. a \in Seq(Solid) /\ b \in Seq(Solid) BY <2>3, <3>1
        <4> HIDE DEF a, b
        <4>2. Len(a \o b) = Len(a) + Len(b) /\ Len(b) \in Nat BY <4>1, ConcatProperties, LenProperties
        <4> QED BY <2>5, <4>2 DEF a, b
      <3> QED BY <3>1, <3>2
    <2> QED BY <1>2, <1>5, <2>1, <2>3, <2>5, <2>6 DEF FirstIs, w, c
  <1> QED BY <1>4, <1>5

\* What follows the command's name are the words of its argument text, which
\* starts at its first argument.
ArgumentsAre(t, w) ==
    /\ Arguments(t) \in Seq(Chars) /\ (Arguments(t) = << >> \/ ~IsSpace(Arguments(t)[1]))
    /\ Words(Arguments(t)) \in Seq(Solid)
    /\ Words(t) = <<w>> \o Words(Arguments(t))

\* What Arguments leaves are the words after the first.
LEMMA ArgumentsIs ==
    ASSUME NEW t \in Seq(Chars), NextToken(t, 1).word # << >>
    PROVE  ArgumentsAre(t, NextToken(t, 1).word)
  <1> DEFINE w == NextToken(t, 1).word
             c == NextToken(t, 1).cursor
             e == SkipSpaces(t, c)
  <1>1. Len(t) \in Nat BY LenProperties
  <1>2. FirstIs(t, w, c) BY FirstToken
  <1>3. w # << >> OBVIOUS
  <1> HIDE DEF w, c
  <1>4. /\ c \in 1 .. Len(t) + 1 /\ Words(Drop(t, c)) \in Seq(Solid)
        /\ Words(t) = <<w>> \o Words(Drop(t, c))
    BY <1>1, <1>2, <1>3 DEF FirstIs
  <1>5. Skips(t, c, e) BY <1>1, <1>4, SkipFacts
  <1> HIDE DEF e
  <1>6. e \in c .. Len(t) + 1 /\ e \in 1 .. Len(t) + 1 /\ Blank(t, c, e) /\ (e = Len(t) + 1 \/ ~IsSpace(t[e]))
    BY <1>1, <1>4, <1>5 DEF Skips, Blank
  <1>7. Words(Drop(t, e)) = Words(Drop(t, c)) BY <1>4, <1>6, InnerBlank
  <1>8. Arguments(t) = Drop(t, e) BY DEF Arguments, Drop, e, c
  <1>9. /\ Drop(t, e) \in Seq(Chars) /\ Len(Drop(t, e)) = Len(t) - e + 1
        /\ \A k \in 1 .. Len(t) - e + 1 : Drop(t, e)[k] = t[e + k - 1]
    BY <1>6, DropIs
  <1>10. Drop(t, e) = << >> \/ ~IsSpace(Drop(t, e)[1])
    <2>1. CASE e = Len(t) + 1
      <3>1. Len(Drop(t, e)) = 0 BY <1>1, <1>9, <2>1
      <3> QED BY <1>9, <3>1, EmptySeq
    <2>2. CASE e # Len(t) + 1
      <3>1. 1 \in 1 .. Len(t) - e + 1 /\ e + 1 - 1 = e BY <1>1, <1>6, <2>2
      <3>2. Drop(t, e)[1] = t[e + 1 - 1] BY <1>9, <3>1
      <3> QED BY <1>6, <2>2, <3>1, <3>2
    <2> QED BY <2>1, <2>2
  <1> QED BY <1>4, <1>7, <1>8, <1>9, <1>10 DEF ArgumentsAre, w

\* The first token of the rest of a text is the next token of the text.
LEMMA TokenShift ==
    ASSUME NEW t \in Seq(Chars), NEW i \in 1 .. Len(t) + 1
    PROVE  /\ NextToken(Drop(t, i), 1).word = NextToken(t, i).word
           /\ NextToken(Drop(t, i), 1).cursor = NextToken(t, i).cursor - i + 1
           /\ NextToken(t, i).cursor \in i .. Len(t) + 1
           /\ NextToken(t, i).word # << >> => NextToken(t, i).cursor > i
  <1> DEFINE u == Drop(t, i)
             s == SkipSpaces(t, i)
             c == NextToken(t, i).cursor
             r == SkipSpaces(u, 1)
             d == WordEnd(u, r)
  <1>1. /\ Len(t) \in Nat /\ u \in Seq(Chars) /\ Len(u) = Len(t) - i + 1
        /\ \A k \in 1 .. Len(t) - i + 1 : u[k] = t[i + k - 1]
    BY DropIs, LenProperties
  <1>2. /\ Skips(t, i, s) /\ Covers(t, s, c) /\ s \in 1 .. Len(t) + 1 /\ c \in s .. Len(t) + 1
        /\ NextToken(t, i).word = SubSeq(t, s, c - 1) /\ (NextToken(t, i).word = << >> <=> c = s)
    BY TokenFacts
  <1> HIDE DEF s, c
  <1>3. s \in i .. Len(t) + 1 /\ (s = Len(t) + 1 \/ ~IsSpace(t[s])) /\ \A k \in i .. s - 1 : IsSpace(t[k])
    BY <1>2 DEF Skips
  <1> HIDE DEF u
  <1>4. 1 \in 1 .. Len(u) + 1 BY <1>1
  <1>5. Skips(u, 1, r) BY <1>1, <1>4, SkipFacts
  <1> HIDE DEF r
  <1>6. r \in 1 .. Len(u) + 1 /\ (r = Len(u) + 1 \/ ~IsSpace(u[r])) /\ \A k \in 1 .. r - 1 : IsSpace(u[k])
    BY <1>5 DEF Skips
  <1>7. r = s - i + 1
    <2>1. CASE r < s - i + 1
      <3>1. r \in 1 .. Len(t) - i + 1 /\ i + r - 1 \in i .. s - 1 /\ r # Len(u) + 1 BY <1>1, <1>3, <1>6, <2>1
      <3>2. u[r] = t[i + r - 1] BY <1>1, <3>1
      <3> QED BY <1>3, <1>6, <3>1, <3>2
    <2>2. CASE r > s - i + 1
      <3> DEFINE k == s - i + 1
      <3>1. k \in 1 .. Len(t) - i + 1 /\ k \in 1 .. r - 1 /\ i + k - 1 = s /\ s # Len(t) + 1 BY <1>1, <1>3, <1>6, <2>2
      <3>2. u[k] = t[i + k - 1] BY <1>1, <3>1
      <3> HIDE DEF k
      <3> QED BY <1>3, <1>6, <3>1, <3>2
    <2> QED BY <1>1, <1>3, <1>6, <2>1, <2>2
  <1>8. c \in s .. Len(t) + 1 /\ s \in i .. Len(t) + 1 BY <1>2, <1>3
  <1>9. Covers(u, r, c - i + 1) BY <1>2, <1>3, <1>7, CoversDrop DEF u
  <1>10. Covers(u, r, d) BY <1>1, <1>6, CoverFacts
  <1> HIDE DEF d
  <1>11. d = c - i + 1
    <2> DEFINE e == c - i + 1
    <2>1. Covers(u, r, e) BY <1>9
    <2> HIDE DEF e
    <2>2. d = e
      <3>1. Len(u) \in Nat /\ r \in 1 .. Len(u) + 1 BY <1>1, <1>6
      <3> QED BY <1>10, <2>1, <3>1, CoversOnce, Zenon
    <2> QED BY <2>2 DEF e
  <1>12. NextToken(u, 1) = [word |-> SubSeq(u, r, d - 1), cursor |-> d] BY DEF NextToken, r, d
  <1>13. SubSeq(u, r, d - 1) = SubSeq(t, s, c - 1)
    <2>1. c - 1 \in s - 1 .. Len(t) /\ d - 1 = (c - 1) - i + 1 BY <1>1, <1>2, <1>3, <1>11
    <2>2. SubSeq(Drop(t, i), s - i + 1, (c - 1) - i + 1) = SubSeq(t, s, c - 1) BY <1>3, <2>1, PieceDrop
    <2> QED BY <1>7, <2>1, <2>2 DEF u
  <1>14. c \in i .. Len(t) + 1 /\ (c # s => c > i) BY <1>1, <1>2, <1>3
  <1>15. NextToken(u, 1).word = SubSeq(u, r, d - 1) /\ NextToken(u, 1).cursor = d BY <1>12
  <1>16. NextToken(u, 1).word = NextToken(t, i).word BY <1>2, <1>13, <1>15
  <1>17. NextToken(u, 1).cursor = c - i + 1 BY <1>11, <1>15
  <1>18. NextToken(t, i).word # << >> => c > i BY <1>2, <1>14
  <1> QED BY <1>14, <1>16, <1>17, <1>18 DEF u, c

\* The arguments from a place on, computed as ArgList does.
ArgsAt(a, v, i) == LET k == NextToken(a, i) IN IF k.word = << >> THEN << >> ELSE <<k.word>> \o v[k.cursor]
ArgsFrom(a)     == CHOOSE v : v = [i \in 1 .. Len(a) + 1 |-> ArgsAt(a, v, i)]

\* The list of arguments, as the function that lists them from a position on.
LEMMA ArgListChoice == \A a : ArgList(a) = ArgsFrom(a)[1]
  BY Zenon DEF ArgList, ArgsFrom, ArgsAt

\* They are the words of the rest.
LEMMA RestWords ==
    ASSUME NEW a \in Seq(Chars), NEW i \in 1 .. Len(a) + 1
    PROVE  LET k == NextToken(a, i) IN
           /\ k.word = << >> => Words(Drop(a, i)) = << >>
           /\ k.word # << >> => /\ k.cursor \in i + 1 .. Len(a) + 1
                                /\ Words(Drop(a, i)) = <<k.word>> \o Words(Drop(a, k.cursor))
  <1> DEFINE u == Drop(a, i)
             w == NextToken(a, i).word
             c == NextToken(a, i).cursor
             x == NextToken(u, 1).word
             e == NextToken(u, 1).cursor
  <1>1. Len(a) \in Nat /\ u \in Seq(Chars) BY DropIs, LenProperties
  <1>2. x = w /\ e = c - i + 1 /\ c \in i .. Len(a) + 1 /\ (w # << >> => c > i)
    BY TokenShift
  <1>3. FirstIs(u, x, e) BY <1>1, FirstToken
  <1>4. Drop(u, c - i + 1) = Drop(a, c) BY <1>2, DropDrop
  <1> HIDE DEF u, w, c, x, e
  <1>5. w = << >> => Words(u) = << >> BY <1>2, <1>3 DEF FirstIs
  <1>6. w # << >> => Words(u) = <<w>> \o Words(Drop(a, c)) BY <1>2, <1>3, <1>4 DEF FirstIs
  <1>7. w # << >> => c \in i + 1 .. Len(a) + 1 BY <1>1, <1>2
  <1> QED BY <1>5, <1>6, <1>7 DEF u, w, c

\* The arguments that are listed are the words of the text.
LEMMA ArgListIs ==
    ASSUME NEW a \in Seq(Chars)
    PROVE  ArgList(a) = Words(a)
  <1> DEFINE N    == Len(a) + 1
             g    == [i \in 1 .. N |-> Words(Drop(a, i))]
             v    == ArgsFrom(a)
  <1>1. N \in Nat /\ 1 \in 1 .. N BY LenProperties
  <1>2. ASSUME NEW i \in 1 .. N PROVE g[i] = ArgsAt(a, g, i)
    <2> DEFINE w == NextToken(a, i).word
               c == NextToken(a, i).cursor
    <2>1. /\ w = << >> => Words(Drop(a, i)) = << >>
          /\ w # << >> => c \in i + 1 .. N /\ Words(Drop(a, i)) = <<w>> \o Words(Drop(a, c))
      BY RestWords
    <2>2. ArgsAt(a, g, i) = IF w = << >> THEN << >> ELSE <<w>> \o g[c] BY DEF ArgsAt
    <2> HIDE DEF w, c
    <2>3. w # << >> => g[c] = Words(Drop(a, c)) BY <1>1, <2>1
    <2>4. g[i] = Words(Drop(a, i)) OBVIOUS
    <2> HIDE DEF g
    <2> QED BY <2>1, <2>2, <2>3, <2>4
  <1>3. g = [i \in 1 .. N |-> ArgsAt(a, g, i)]
    <2> DEFINE f == [i \in 1 .. N |-> ArgsAt(a, g, i)]
    <2>1. g = [i \in 1 .. N |-> g[i]] OBVIOUS
    <2> HIDE DEF g
    <2> QED BY <2>1, <1>2
  <1>4. v = [i \in 1 .. N |-> ArgsAt(a, v, i)]
    <2> HIDE DEF g
    <2>1. \E u : u = [i \in 1 .. N |-> ArgsAt(a, u, i)] BY <1>3, Zenon
    <2> QED BY <2>1, Zenon DEF ArgsFrom
  <1> HIDE DEF v
  <1>5. \A i \in 1 .. N : v[i] = ArgsAt(a, v, i)
    <2> DEFINE b == [i \in 1 .. N |-> ArgsAt(a, v, i)]
    <2>1. \A i \in 1 .. N : b[i] = ArgsAt(a, v, i) BY Zenon
    <2> HIDE DEF b
    <2>2. v = b BY <1>4, Zenon DEF b
    <2> QED BY <2>1, <2>2
  <1>6. \A i \in 1 .. N : g[i] = Words(Drop(a, i)) OBVIOUS
  <1> HIDE DEF g
  <1> DEFINE Same(n) == \A i \in 1 .. N : i >= N - n => v[i] = g[i]
             Good    == {n \in 0 .. N : Same(n)}
  <1>7. ASSUME NEW i \in 1 .. N, \A j \in i + 1 .. N : v[j] = g[j] PROVE v[i] = g[i]
    <2> DEFINE w == NextToken(a, i).word
               c == NextToken(a, i).cursor
    <2>1. w # << >> => c \in i + 1 .. N BY RestWords
    <2>2. ArgsAt(a, v, i) = IF w = << >> THEN << >> ELSE <<w>> \o v[c] BY DEF ArgsAt
    <2>3. ArgsAt(a, g, i) = IF w = << >> THEN << >> ELSE <<w>> \o g[c] BY DEF ArgsAt
    <2> HIDE DEF w, c
    <2>4. w # << >> => v[c] = g[c] BY <1>7, <2>1
    <2> QED BY <1>2, <1>5, <2>2, <2>3, <2>4
  <1>8. 0 \in Good
    <2>1. ASSUME NEW i \in 1 .. N, i >= N - 0 PROVE v[i] = g[i]
      <3>1. \A j \in i + 1 .. N : v[j] = g[j] BY <1>1, <2>1
      <3> QED BY <1>7, <3>1
    <2>2. 0 \in 0 .. N BY <1>1
    <2> HIDE DEF N
    <2> QED BY <2>1, <2>2
  <1>9. ASSUME NEW n \in 0 .. N - 1, n \in Good PROVE n + 1 \in Good
    <2>1. ASSUME NEW i \in 1 .. N, i >= N - (n + 1) PROVE v[i] = g[i]
      <3>1. ASSUME NEW j \in i + 1 .. N PROVE v[j] = g[j]
        <4>1. j \in 1 .. N /\ j >= N - n BY <1>1, <2>1
        <4> QED BY <1>9, <4>1
      <3> QED BY <1>7, <3>1
    <2>2. n + 1 \in 0 .. N BY <1>1
    <2> HIDE DEF N
    <2> QED BY <2>1, <2>2
  <1>10. N \in Good
    <2> HIDE DEF Good
    <2>1. \A n \in 0 .. N - 1 : n \in Good => n + 1 \in Good BY <1>9
    <2> HIDE DEF N
    <2>2. \A n \in 0 .. N : n \in Good BY <1>1, <1>8, <2>1, Upward, Zenon
    <2>3. N \in 0 .. N BY <1>1
    <2> QED BY <2>2, <2>3
  <1>11. v[1] = g[1]
    <2>1. 1 >= N - N BY <1>1
    <2>2. \A i \in 1 .. N : i >= N - N => v[i] = g[i] BY <1>10
    <2> QED BY <1>1, <2>1, <2>2
  <1>12. Words(Drop(a, 1)) = Words(a)
    <2>1. 1 \in 1 .. Len(a) + 1 /\ Len(a) \in Nat BY LenProperties
    <2>2. Blank(a, 1, 1) BY DEF Blank
    <2> QED BY <2>1, <2>2, LeadingBlank
  <1> QED BY <1>1, <1>6, <1>11, <1>12, ArgListChoice DEF v

\* An element in front of a sequence.
LEMMA Cons ==
    ASSUME NEW A, NEW x \in A, NEW v \in Seq(A)
    PROVE  LET z == <<x>> \o v IN
           z \in Seq(A) /\ z # << >> /\ Len(z) = Len(v) + 1 /\ z[1] = x /\ Tail(z) = v
  <1> DEFINE h == <<x>>
             z == h \o v
  <1>1. h \in Seq(A) /\ Len(h) = 1 /\ h[1] = x /\ Len(v) \in Nat BY LenProperties
  <1> HIDE DEF h
  <1>2. /\ z \in Seq(A) /\ Len(z) = Len(h) + Len(v)
        /\ \A i \in 1 .. Len(h) + Len(v) : z[i] = IF i <= Len(h) THEN h[i] ELSE v[i - Len(h)]
    BY <1>1, ConcatProperties
  <1> HIDE DEF z
  <1>3. Len(z) = Len(v) + 1 /\ z # << >> /\ z[1] = x
    <2>1. 1 \in 1 .. Len(h) + Len(v) /\ 1 <= Len(h) BY <1>1
    <2>2. z[1] = h[1] BY <1>2, <2>1
    <2>3. Len(z) > 0 BY <1>1, <1>2
    <2> QED BY <1>1, <1>2, <2>2, <2>3
  <1>4. Tail(z) \in Seq(A) /\ Len(Tail(z)) = Len(v) /\ \A i \in 1 .. Len(v) : Tail(z)[i] = z[i + 1]
    <2>1. Tail(z) \in Seq(A) /\ Len(Tail(z)) = Len(z) - 1 /\ \A i \in 1 .. Len(Tail(z)) : Tail(z)[i] = z[i + 1]
      BY <1>2, <1>3, HeadTailProperties
    <2> QED BY <1>1, <1>3, <2>1
  <1>5. ASSUME NEW i \in 1 .. Len(v) PROVE Tail(z)[i] = v[i]
    <2>1. i + 1 \in 1 .. Len(h) + Len(v) /\ ~(i + 1 <= Len(h)) /\ i + 1 - Len(h) = i BY <1>1
    <2>2. z[i + 1] = v[i] BY <1>2, <2>1
    <2> QED BY <1>4, <2>2
  <1>6. Tail(z) = v BY <1>4, <1>5, SeqEqual
  <1> QED BY <1>2, <1>3, <1>6 DEF z, h

\* A text without words is blank.
LEMMA WordlessIs ==
    ASSUME NEW t \in Seq(Chars)
    PROVE  Words(t) = << >> <=> \A k \in 1 .. Len(t) : IsSpace(t[k])
  <1> DEFINE s == SkipSpaces(t, 1)
             w == NextToken(t, 1).word
  <1>1. Len(t) \in Nat /\ 1 \in 1 .. Len(t) + 1 BY LenProperties
  <1>2. Skips(t, 1, s) /\ s \in 1 .. Len(t) + 1 /\ (w = << >> <=> s = Len(t) + 1) BY <1>1, TokenFacts
  <1>3. w = << >> <=> Words(t) = << >> BY FirstToken DEF FirstIs
  <1> HIDE DEF s, w
  <1>4. (s = Len(t) + 1 \/ ~IsSpace(t[s])) /\ \A k \in 1 .. s - 1 : IsSpace(t[k]) BY <1>2 DEF Skips
  <1>5. s # Len(t) + 1 => s \in 1 .. Len(t) BY <1>1, <1>2
  <1> QED BY <1>1, <1>2, <1>3, <1>4, <1>5

\* The argument that sends cd back.
DashC == "-"

\* The first word of a text that does not begin with a space.
LEMMA FrontToken ==
    ASSUME NEW t \in Seq(Chars), t # << >>, ~IsSpace(t[1])
    PROVE  LET k == NextToken(t, 1) IN
           /\ k.word # << >> /\ k.word \in Solid /\ Covers(t, 1, k.cursor) /\ k.cursor \in 2 .. Len(t) + 1
           /\ Len(k.word) = k.cursor - 1 /\ \A i \in 1 .. k.cursor - 1 : k.word[i] = t[i]
           /\ Words(Drop(t, k.cursor)) \in Seq(Solid) /\ Words(t) = <<k.word>> \o Words(Drop(t, k.cursor))
  <1> DEFINE s == SkipSpaces(t, 1)
             w == NextToken(t, 1).word
             c == NextToken(t, 1).cursor
  <1>1. Len(t) \in Nat /\ 1 \in 1 .. Len(t) + 1 /\ Len(t) # 0 BY LenProperties, EmptySeq
  <1>2. /\ Skips(t, 1, s) /\ Covers(t, s, c) /\ s \in 1 .. Len(t) + 1 /\ (w = << >> <=> s = Len(t) + 1)
        /\ c \in s .. Len(t) + 1 /\ w = SubSeq(t, s, c - 1) /\ (w = << >> <=> c = s)
    BY <1>1, TokenFacts
  <1>3. FirstIs(t, w, c) BY FirstToken
  <1> HIDE DEF s, w, c
  <1>4. s = 1
    <2>1. s # 1 => 1 \in 1 .. s - 1 BY <1>2
    <2> QED BY <1>2, <2>1 DEF Skips
  <1>5. w # << >> BY <1>1, <1>2, <1>4
  <1>6. c \in 2 .. Len(t) + 1 /\ w \in Solid /\ Words(Drop(t, c)) \in Seq(Solid)
        /\ Words(t) = <<w>> \o Words(Drop(t, c))
    BY <1>3, <1>5 DEF FirstIs
  <1>7. Len(w) = c - 1 /\ \A i \in 1 .. c - 1 : w[i] = t[i]
    <2> DEFINE e == c - 1
    <2>1. e \in 1 - 1 .. Len(t) /\ e - 1 + 1 = e BY <1>1, <1>6
    <2> HIDE DEF e
    <2>2. w = SubSeq(t, 1, e) BY <1>2, <1>4 DEF e
    <2>3. Len(w) = e - 1 + 1 /\ \A i \in 1 .. e - 1 + 1 : w[i] = t[1 + i - 1] BY <1>1, <2>1, <2>2, Piece, SMTT(30)
    <2>4. Len(w) = e /\ \A i \in 1 .. e : w[i] = t[i] BY <1>1, <2>1, <2>3
    <2> QED BY <2>4 DEF e
  <1>8. Covers(t, 1, c) BY <1>2, <1>4
  <1> QED BY <1>5, <1>6, <1>7, <1>8 DEF w, c

\* cd -: its one argument is a dash.
LEMMA DashIs ==
    ASSUME NEW a \in Seq(Chars), a = << >> \/ ~IsSpace(a[1])
    PROVE  IsCdDash(a) <=> Len(Words(a)) = 1 /\ Words(a)[1] = <<"-">>
  <1>1. CASE a = << >>
    <2>1. Words(a) = << >> BY <1>1, NoWords
    <2> QED BY <1>1, <2>1 DEF IsCdDash
  <1>2. CASE a # << >> /\ ~IsSpace(a[1])
    <2> DEFINE w == NextToken(a, 1).word
               c == NextToken(a, 1).cursor
               r == Words(Drop(a, c))
    <2>1. /\ w # << >> /\ w \in Solid /\ Covers(a, 1, c) /\ c \in 2 .. Len(a) + 1
          /\ Len(w) = c - 1 /\ \A i \in 1 .. c - 1 : w[i] = a[i]
          /\ r \in Seq(Solid) /\ Words(a) = <<w>> \o r
      BY <1>2, FrontToken
    <2>2. Len(a) \in Nat BY LenProperties
    <2> HIDE DEF w, c, r
    <2>3. /\ c \in 1 .. Len(a) + 1 /\ (c = Len(a) + 1 \/ IsSpace(a[c])) /\ \A k \in 1 .. c - 1 : ~IsSpace(a[k])
      BY <2>1 DEF Covers
    <2>4. Words(a) # << >> /\ Len(Words(a)) = Len(r) + 1 /\ Words(a)[1] = w BY <2>1, Cons
    <2>5. w = <<DashC>> <=> c = 2 /\ a[1] = DashC
      <3>1. w \in Seq(Chars) BY <2>1 DEF Solid
      <3>2. Len(<<DashC>>) = 1 /\ <<DashC>>[1] = DashC OBVIOUS
      <3>3. 1 \in 1 .. c - 1 BY <2>1
      <3>4. w[1] = a[1] BY <2>1, <3>3
      <3>5. ASSUME w = <<DashC>> PROVE c = 2 /\ a[1] = DashC BY <2>1, <3>2, <3>4, <3>5
      <3>6. ASSUME c = 2, a[1] = DashC PROVE w = <<DashC>>
        <4>1. Len(w) = 1 /\ w[1] = DashC BY <2>1, <3>4, <3>6
        <4> QED BY <3>1, <4>1
      <3> QED BY <3>5, <3>6
    <2>6. Len(r) = 0 <=> \A k \in c .. Len(a) : IsSpace(a[k])
      <3> DEFINE u == Drop(a, c)
      <3>1. u \in Seq(Chars) /\ Len(u) = Len(a) - c + 1 /\ \A k \in 1 .. Len(a) - c + 1 : u[k] = a[c + k - 1]
        BY <2>3, DropIs
      <3> HIDE DEF u
      <3>2. r = << >> <=> \A k \in 1 .. Len(u) : IsSpace(u[k]) BY <3>1, WordlessIs DEF r, u
      <3>3. Len(r) = 0 <=> r = << >> BY <2>1, EmptySeq
      <3>4. ASSUME \A k \in 1 .. Len(u) : IsSpace(u[k]), NEW k \in c .. Len(a) PROVE IsSpace(a[k])
        <4> DEFINE j == k - c + 1
        <4>1. j \in 1 .. Len(u) /\ j \in 1 .. Len(a) - c + 1 /\ c + j - 1 = k BY <2>2, <2>3, <3>1
        <4> HIDE DEF j
        <4>2. u[j] = a[c + j - 1] BY <3>1, <4>1
        <4> QED BY <3>4, <4>1, <4>2
      <3>5. ASSUME \A k \in c .. Len(a) : IsSpace(a[k]), NEW k \in 1 .. Len(u) PROVE IsSpace(u[k])
        <4> DEFINE j == c + k - 1
        <4>1. k \in 1 .. Len(a) - c + 1 /\ j \in c .. Len(a) BY <2>2, <2>3, <3>1
        <4>2. u[k] = a[j] BY <3>1, <4>1
        <4> HIDE DEF j
        <4> QED BY <3>5, <4>1, <4>2
      <3> QED BY <3>2, <3>3, <3>4, <3>5
    <2>7. IsCdDash(a) <=> a[1] = DashC /\ \A k \in 2 .. Len(a) : IsSpace(a[k]) BY <1>2, Zenon DEF IsCdDash, DashC
    <2>8. a[1] = DashC /\ (\A k \in 2 .. Len(a) : IsSpace(a[k])) => c = 2
      <3>1. c # 2 => 2 \in 2 .. Len(a) /\ 2 \in 1 .. c - 1 BY <2>1, <2>2
      <3> QED BY <2>3, <3>1
    <2>9. Len(r) \in Nat /\ (Len(Words(a)) = 1 <=> Len(r) = 0)
      <3>1. Len(r) \in Nat BY <2>1, LenProperties
      <3> QED BY <2>4, <3>1
    <2>10. IsCdDash(a) <=> Len(r) = 0 /\ w = <<DashC>>
      <3>1. ASSUME a[1] = DashC, \A k \in 2 .. Len(a) : IsSpace(a[k]) PROVE Len(r) = 0 /\ w = <<DashC>>
        BY <2>5, <2>6, <2>8, <3>1
      <3>2. ASSUME Len(r) = 0, w = <<DashC>> PROVE a[1] = DashC /\ \A k \in 2 .. Len(a) : IsSpace(a[k])
        BY <2>5, <2>6, <3>2
      <3> QED BY <2>7, <3>1, <3>2
    <2> QED BY <2>4, <2>9, <2>10 DEF DashC
  <1> QED BY <1>1, <1>2

(***************************************************************************)
(* From the keyboard to a clean line: whatever prompt stands in front of it. *)
(***************************************************************************)
\* Some characters, by name.
ReturnC == "\r"
TabC    == "\t"
ColonC  == ":"
\* The directories whose prompts the screen can show: the default prompt is one.
RootName    == <<"0", ":", "/">>
Directories == {Places[p] : p \in DOMAIN Places}
Shown       == Directories \cup {RootName}

\* A text that stands in a prompt: a drive and names.
\* What a directory is called, character by character.
Plain(c) == Seven(c) = c /\ c \notin LineEnd /\ c # GtC
Named(d) == /\ d \in Seq(Chars) /\ Len(d) > 1 /\ d[1] \notin {SpaceC, TabC, LtC, GtC} /\ d[2] = ColonC
            /\ \A i \in 1 .. Len(d) : Plain(d[i])

\* The characters of a prompt are themselves after bit 7 is cleared, and none ends a line.
LEMMA CharFacts ==
    /\ SpaceC \notin LineEnd /\ GtC \notin LineEnd /\ ReturnC \in LineEnd /\ ~IsSpace(ReturnC)
    /\ Seven(SpaceC) = SpaceC /\ Seven(GtC) = GtC /\ Seven(ReturnC) = ReturnC
    /\ ~IsSpace(ColonC) /\ IsSpace(SpaceC) /\ ColonC # GtC /\ ReturnC # GtC /\ SpaceC # GtC
    /\ SpaceC \in Chars /\ GtC \in Chars /\ ReturnC \in Chars
    /\ \A c : c \notin {SpaceC, TabC, LtC, GtC} => ~IsSpace(c) /\ c # LtC /\ c # GtC
  <1>1. DOMAIN HighBit \cap ({" ", "0", ":", "/", ">"} \cup LineEnd) = {} BY NamesAssumption, Zenon
  <1>2. ReturnC \in LineEnd BY Zenon DEF ReturnC, LineEnd
  <1>3. SpaceC \notin DOMAIN HighBit /\ GtC \notin DOMAIN HighBit /\ ReturnC \notin DOMAIN HighBit
    BY <1>1, <1>2, Zenon DEF SpaceC, GtC
  <1>4. SpaceC \notin LineEnd /\ GtC \notin LineEnd BY Zenon DEF LineEnd, SpaceC, GtC
  <1>5. ~IsSpace(ReturnC) /\ ~IsSpace(ColonC) /\ IsSpace(SpaceC) BY Zenon DEF IsSpace, ReturnC, ColonC, SpaceC
  <1>6. ColonC # GtC /\ ReturnC # GtC /\ SpaceC # GtC BY Zenon DEF ColonC, GtC, ReturnC, SpaceC
  <1>7. SpaceC \in Chars /\ GtC \in Chars /\ ReturnC \in Chars BY Zenon DEF Chars, ReturnC
  <1>8. \A c : c \notin {SpaceC, TabC, LtC, GtC} => ~IsSpace(c) /\ c # LtC /\ c # GtC
    BY Zenon DEF IsSpace, SpaceC, TabC
  <1>9. Seven(SpaceC) = SpaceC /\ Seven(GtC) = GtC /\ Seven(ReturnC) = ReturnC BY <1>3, Zenon DEF Seven
  <1> QED BY <1>2, <1>4, <1>5, <1>6, <1>7, <1>8, <1>9

ZeroC  == "0"
SlashC == "/"

\* The default prompt is that of the root of the first drive.
LEMMA RootNamed == Named(RootName) /\ DefaultCore = PromptCore(RootName)
  <1>1. DOMAIN HighBit \cap ({" ", "0", ":", "/", ">"} \cup LineEnd) = {} BY NamesAssumption, Zenon
  <1>2. ZeroC \notin DOMAIN HighBit /\ ColonC \notin DOMAIN HighBit /\ SlashC \notin DOMAIN HighBit
    BY <1>1, Zenon DEF ZeroC, ColonC, SlashC
  <1>3. Seven(ZeroC) = ZeroC /\ Seven(ColonC) = ColonC /\ Seven(SlashC) = SlashC BY <1>2, Zenon DEF Seven
  <1>4. /\ ZeroC \notin LineEnd /\ ColonC \notin LineEnd /\ SlashC \notin LineEnd
        /\ ZeroC # GtC /\ ColonC # GtC /\ SlashC # GtC /\ ZeroC \notin {SpaceC, TabC, LtC, GtC}
        /\ ZeroC \in Chars /\ ColonC \in Chars /\ SlashC \in Chars
    BY Zenon DEF LineEnd, ZeroC, ColonC, SlashC, GtC, SpaceC, TabC, LtC, Chars
  <1>5. RootName = <<ZeroC, ColonC, SlashC>> BY Zenon DEF RootName, ZeroC, ColonC, SlashC
  <1>6. Plain(ZeroC) /\ Plain(ColonC) /\ Plain(SlashC) BY <1>3, <1>4 DEF Plain
  <1>7. Named(<<ZeroC, ColonC, SlashC>>)
    <2> HIDE DEF ZeroC, SlashC
    <2> HIDE DEF ColonC
    <2>a. \A A : \A a, b, c \in A : <<a, b, c>> \in Seq(A) /\ Len(<<a, b, c>>) = 3
          /\ <<a, b, c>>[1] = a /\ <<a, b, c>>[2] = b
      OBVIOUS
    <2>1. /\ <<ZeroC, ColonC, SlashC>> \in Seq(Chars) /\ Len(<<ZeroC, ColonC, SlashC>>) = 3
          /\ <<ZeroC, ColonC, SlashC>>[1] = ZeroC /\ <<ZeroC, ColonC, SlashC>>[2] = ColonC
      BY <1>4, <2>a, Zenon
    <2>2. ASSUME NEW i \in 1 .. 3 PROVE Plain(<<ZeroC, ColonC, SlashC>>[i])
      <3>1. i = 1 \/ i = 2 \/ i = 3 OBVIOUS
      <3> QED BY <1>6, <3>1
    <2> QED BY <1>4, <2>1, <2>2 DEF Named
  <1>8. DefaultCore = <<ZeroC, ColonC, SlashC, GtC>> BY Zenon DEF DefaultCore, ZeroC, ColonC, SlashC, GtC
  <1>9. Append(<<ZeroC, ColonC, SlashC>>, GtC) = <<ZeroC, ColonC, SlashC, GtC>>
    <2>1. ASSUME NEW a \in Chars, NEW b \in Chars, NEW c \in Chars, NEW x \in Chars
          PROVE  Append(<<a, b, c>>, x) = <<a, b, c, x>>
      <3> DEFINE u == <<a, b, c>>
                 v == Append(u, x)
                 z == <<a, b, c, x>>
      <3>1. u \in Seq(Chars) /\ Len(u) = 3 /\ u[1] = a /\ u[2] = b /\ u[3] = c OBVIOUS
      <3>2. z \in Seq(Chars) /\ Len(z) = 4 /\ z[1] = a /\ z[2] = b /\ z[3] = c /\ z[4] = x OBVIOUS
      <3> HIDE DEF u, z
      <3>3. v \in Seq(Chars) /\ Len(v) = Len(u) + 1 /\ v[Len(u) + 1] = x /\ \A i \in 1 .. Len(u) : v[i] = u[i]
        <4>1. u \in Seq(Chars) BY <3>1
        <4>2. \A q \in Seq(Chars), y \in Chars :
                 /\ Append(q, y) \in Seq(Chars) /\ Len(Append(q, y)) = Len(q) + 1
                 /\ Append(q, y)[Len(q) + 1] = y /\ \A i \in 1 .. Len(q) : Append(q, y)[i] = q[i]
          BY AppendProperties
        <4> QED BY <4>1, <4>2, Zenon
      <3> HIDE DEF v
      <3>4. Len(v) = 4 /\ v[4] = x /\ v[1] = a /\ v[2] = b /\ v[3] = c
        <4>1. Len(u) + 1 = 4 /\ 1 \in 1 .. Len(u) /\ 2 \in 1 .. Len(u) /\ 3 \in 1 .. Len(u) BY <3>1
        <4> QED BY <3>1, <3>3, <4>1, Zenon
      <3>5. \A i \in 1 .. 4 : i = 1 \/ i = 2 \/ i = 3 \/ i = 4 OBVIOUS
      <3>6. \A i \in 1 .. 4 : v[i] = z[i] BY <3>2, <3>4, <3>5
      <3>7. v = z BY <3>2, <3>3, <3>4, <3>6, SeqEqual
      <3> QED BY <3>7 DEF v, z, u
    <2>2. ZeroC \in Chars /\ ColonC \in Chars /\ SlashC \in Chars /\ GtC \in Chars BY <1>4, CharFacts
    <2> QED BY <2>1, <2>2, Zenon
  <1>10. PromptCore(RootName) = Append(RootName, GtC) BY Zenon DEF PromptCore, GtC
  <1> QED BY <1>5, <1>7, <1>8, <1>9, <1>10

\* Every directory whose prompt can be on the screen has a name of that form.
LEMMA DirectoryNamed == \A d \in Shown : Named(d)
  <1> SUFFICES ASSUME NEW d \in Directories PROVE Named(d) BY RootNamed DEF Shown
  <1>1. PICK p \in DOMAIN Places : d = Places[p] BY DEF Directories
  <1>2. /\ Len(d) > 1 /\ d[1] \notin {" ", "\t", "<", ">"} /\ d[2] = ":"
        /\ \A i \in DOMAIN d : d[i] \notin DOMAIN HighBit \cup LineEnd \cup {">"}
    BY <1>1, NamesAssumption, Zenon
  <1>3. d \in Seq(Chars) BY <1>1, DirsAreTexts
  <1>4. DOMAIN d = 1 .. Len(d) BY <1>3, LenProperties
  <1>5. \A i \in DOMAIN d : Plain(d[i]) BY <1>2, Zenon DEF Plain, Seven, GtC
  <1>6. d[1] \notin {SpaceC, TabC, LtC, GtC} /\ d[2] = ColonC BY <1>2, Zenon DEF SpaceC, TabC, LtC, GtC, ColonC
  <1> QED BY <1>2, <1>3, <1>4, <1>5, <1>6 DEF Named

\* A prompt, and what stands in front of a typed line.
\* What the shell prints when it waits in a directory.
Shows(d) == PromptCore(d) \o <<SpaceC>>

\* What a prompt puts on the screen, character by character.
LEMMA ShowsIs ==
    ASSUME NEW d, Named(d)
    PROVE  /\ PromptCore(d) \in Seq(Chars) /\ Len(PromptCore(d)) = Len(d) + 1 /\ PromptCore(d)[Len(d) + 1] = GtC
           /\ \A i \in 1 .. Len(d) : PromptCore(d)[i] = d[i]
           /\ Shows(d) \in Seq(Chars) /\ Len(Shows(d)) = Len(d) + 2 /\ Shows(d)[Len(d) + 1] = GtC
           /\ Shows(d)[Len(d) + 2] = SpaceC /\ \A i \in 1 .. Len(d) : Shows(d)[i] = d[i]
  <1> DEFINE q == PromptCore(d)
             z == <<SpaceC>>
             p == q \o z
  <1>1. d \in Seq(Chars) /\ Len(d) \in Nat BY LenProperties DEF Named
  <1>2. q = Append(d, GtC) BY Zenon DEF PromptCore, GtC
  <1> HIDE DEF q
  <1>3. /\ q \in Seq(Chars) /\ Len(q) = Len(d) + 1 /\ q[Len(d) + 1] = GtC
        /\ \A i \in 1 .. Len(d) : q[i] = d[i]
    BY <1>1, <1>2, CharFacts, AppendProperties
  <1>4. z \in Seq(Chars) /\ Len(z) = 1 /\ z[1] = SpaceC BY CharFacts
  <1> HIDE DEF z
  <1>5. /\ p \in Seq(Chars) /\ Len(p) = Len(q) + Len(z)
        /\ \A i \in 1 .. Len(q) + Len(z) : p[i] = IF i <= Len(q) THEN q[i] ELSE z[i - Len(q)]
    BY <1>3, <1>4, ConcatProperties
  <1> HIDE DEF p
  <1>6. \A i \in 1 .. Len(d) + 1 : p[i] = q[i] BY <1>1, <1>3, <1>4, <1>5
  <1>7. p[Len(d) + 2] = SpaceC
    <2>1. Len(d) + 2 \in 1 .. Len(q) + Len(z) /\ ~(Len(d) + 2 <= Len(q)) /\ Len(d) + 2 - Len(q) = 1 BY <1>1, <1>3, <1>4
    <2> QED BY <1>4, <1>5, <2>1
  <1>8. Len(p) = Len(d) + 2 BY <1>1, <1>3, <1>4, <1>5
  <1> QED BY <1>1, <1>3, <1>5, <1>6, <1>7, <1>8 DEF Shows, p, q, z

\* An entered line: what stood in front, what was typed, Return.
Raw(p, t) == p \o t \o <<ReturnC>>

\* An entered line, character by character.
LEMMA RawIs ==
    ASSUME NEW p \in Seq(Chars), NEW t \in Seq(Chars)
    PROVE  /\ Raw(p, t) \in Seq(Chars) /\ Len(Raw(p, t)) = Len(p) + Len(t) + 1
           /\ \A i \in 1 .. Len(p) : Raw(p, t)[i] = p[i]
           /\ \A i \in 1 .. Len(t) : Raw(p, t)[Len(p) + i] = t[i]
           /\ Raw(p, t)[Len(p) + Len(t) + 1] = ReturnC
  <1> DEFINE q == p \o t
             z == <<ReturnC>>
             x == q \o z
  <1>1. Len(p) \in Nat /\ Len(t) \in Nat BY LenProperties
  <1>2. /\ q \in Seq(Chars) /\ Len(q) = Len(p) + Len(t)
        /\ \A i \in 1 .. Len(p) + Len(t) : q[i] = IF i <= Len(p) THEN p[i] ELSE t[i - Len(p)]
    BY ConcatProperties
  <1>3. z \in Seq(Chars) /\ Len(z) = 1 /\ z[1] = ReturnC BY CharFacts
  <1> HIDE DEF q, z
  <1>4. /\ x \in Seq(Chars) /\ Len(x) = Len(q) + Len(z)
        /\ \A i \in 1 .. Len(q) + Len(z) : x[i] = IF i <= Len(q) THEN q[i] ELSE z[i - Len(q)]
    <2>1. \A a, b \in Seq(Chars) :
             /\ a \o b \in Seq(Chars) /\ Len(a \o b) = Len(a) + Len(b)
             /\ \A i \in 1 .. Len(a) + Len(b) : (a \o b)[i] = IF i <= Len(a) THEN a[i] ELSE b[i - Len(a)]
      BY ConcatProperties
    <2> QED BY <1>2, <1>3, <2>1, Zenon
  <1> HIDE DEF x
  <1>5. \A i \in 1 .. Len(p) : x[i] = p[i]
    <2> SUFFICES ASSUME NEW i \in 1 .. Len(p) PROVE x[i] = p[i] OBVIOUS
    <2>1. i \in 1 .. Len(p) + Len(t) /\ i \in 1 .. Len(q) + Len(z) /\ i <= Len(p) /\ i <= Len(q)
      BY <1>1, <1>2, <1>3
    <2>2. q[i] = p[i] BY <1>2, <2>1
    <2>3. x[i] = q[i] BY <1>4, <2>1
    <2> QED BY <2>2, <2>3
  <1>6. ASSUME NEW i \in 1 .. Len(t) PROVE x[Len(p) + i] = t[i]
    <2> DEFINE j == Len(p) + i
    <2>1. j \in 1 .. Len(p) + Len(t) /\ j \in 1 .. Len(q) + Len(z) /\ j <= Len(q) /\ ~(j <= Len(p)) /\ j - Len(p) = i
      BY <1>1, <1>2, <1>3
    <2> HIDE DEF j
    <2>2. x[j] = q[j] BY <1>4, <2>1
    <2>3. q[j] = t[i] BY <1>2, <2>1
    <2> QED BY <2>2, <2>3 DEF j
  <1>7. x[Len(p) + Len(t) + 1] = ReturnC
    <2> DEFINE j == Len(p) + Len(t) + 1
    <2>1. j \in 1 .. Len(q) + Len(z) /\ ~(j <= Len(q)) /\ j - Len(q) = 1 BY <1>1, <1>2, <1>3
    <2> HIDE DEF j
    <2>2. x[j] = z[1] BY <1>4, <2>1
    <2> QED BY <1>3, <2>2 DEF j
  <1>8. Len(x) = Len(p) + Len(t) + 1 BY <1>2, <1>3, <1>4
  <1> QED BY <1>4, <1>5, <1>6, <1>7, <1>8 DEF Raw, x, q, z

\* The line in seven bits, without its end.
LineOf(raw) == SubSeq(Sevens(raw), 1, Len(raw) - 1)

\* Where neosh_clean_line starts.
StartOf(raw, c) == IF HasPrompt(raw, c) THEN Len(c) + 1 ELSE 1

\* neosh_clean_line, as a part of the line it cleans.
LEMMA CleanIs ==
    ASSUME NEW raw \in Seq(Chars), NEW c, Len(raw) > 0, Len(raw) < LineMax, StartOf(raw, c) \in 1 .. Len(raw),
           \A i \in 1 .. Len(raw) - 1 : Seven(raw[i]) \notin LineEnd, raw[Len(raw)] = ReturnC
    PROVE  LET n == Len(raw) - 1 IN
           /\ LineOf(raw) \in Seq(Chars) /\ Len(LineOf(raw)) = n
           /\ \A i \in 1 .. n : LineOf(raw)[i] = Seven(raw[i])
           /\ \E f \in StartOf(raw, c) .. n + 1 :
                 /\ Blank(LineOf(raw), StartOf(raw, c), f) /\ (f = n + 1 \/ ~IsSpace(LineOf(raw)[f]))
                 /\ CleanLine(raw, c) = Drop(LineOf(raw), f)
  <1> DEFINE n == Len(raw) - 1
             text == Sevens(raw)
             line == LineOf(raw)
             b == StartOf(raw, c)
             f == SkipSpaces(text, b)
             stop == EndOfLine(text, f)
  <1>1. Len(raw) \in Nat /\ n \in Nat /\ Len(raw) = n + 1 /\ n + 1 < LineMax /\ b \in 1 .. n + 1 BY LenProperties
  <1>2. text \in Seq(Chars) /\ Len(text) = n + 1 /\ \A i \in 1 .. n + 1 : text[i] = Seven(raw[i])
    BY <1>1, SevensTyped
  <1>3. \A i \in 1 .. n : text[i] \notin LineEnd
    <2>1. \A i \in 1 .. n : i \in 1 .. n + 1 BY <1>1
    <2> HIDE DEF text
    <2> QED BY <1>1, <1>2, <2>1
  <1>4. text[n + 1] = ReturnC
    <2>1. n + 1 \in 1 .. n + 1 /\ raw[n + 1] = ReturnC BY <1>1
    <2> HIDE DEF text, n
    <2> QED BY <1>2, <2>1, CharFacts
  <1> HIDE DEF text
  <1>5. line \in Seq(Chars) /\ Len(line) = n /\ \A i \in 1 .. n : line[i] = text[i]
    <2>1. 1 \in 1 .. Len(text) + 1 /\ n \in 1 - 1 .. Len(text) BY <1>1, <1>2
    <2> DEFINE z == SubSeq(text, 1, n)
    <2> HIDE DEF n
    <2>2. z \in Seq(Chars) /\ Len(z) = n - 1 + 1 /\ \A k \in 1 .. n - 1 + 1 : z[k] = text[1 + k - 1]
      BY <1>2, <2>1, Piece, SMTT(30)
    <2>3. line = z BY DEF LineOf, text, n
    <2> HIDE DEF z
    <2>4. z \in Seq(Chars) /\ Len(z) = n /\ \A k \in 1 .. n : z[k] = text[k] BY <1>1, <2>2
    <2> QED BY <2>3, <2>4
  <1> HIDE DEF line, b, n
  <1>6. b \in 1 .. Len(text) + 1 /\ Len(text) \in Nat BY <1>1, <1>2
  <1>7. Skips(text, b, f) BY <1>6, SkipFacts
  <1> HIDE DEF f
  <1>8. f \in b .. n + 1
    <2>1. f \in b .. n + 2 /\ \A k \in b .. f - 1 : IsSpace(text[k]) BY <1>1, <1>2, <1>7 DEF Skips
    <2>2. ASSUME f = n + 2 PROVE FALSE
      <3>1. n + 1 \in b .. f - 1 BY <1>1, <2>2
      <3> QED BY <1>4, <2>1, <3>1, CharFacts
    <2> QED BY <1>1, <2>1, <2>2
  <1>9. Blank(line, b, f) /\ (f = n + 1 \/ ~IsSpace(line[f]))
    <2>1. \A k \in b .. f - 1 : k \in 1 .. n BY <1>1, <1>8
    <2>2. \A k \in b .. f - 1 : IsSpace(text[k]) BY <1>7 DEF Skips
    <2>3. Blank(line, b, f) BY <1>5, <2>1, <2>2 DEF Blank
    <2>4. f # n + 1 => f \in 1 .. n /\ f # Len(text) + 1 BY <1>1, <1>2, <1>8
    <2>5. f = Len(text) + 1 \/ ~IsSpace(text[f]) BY <1>7 DEF Skips
    <2> QED BY <1>5, <2>3, <2>4, <2>5
  <1>10. stop = n + 1
    <2>1. f \in 1 .. Len(text) + 1 BY <1>1, <1>2, <1>8
    <2>2. /\ stop \in f .. Len(text) + 1 /\ (stop = Len(text) + 1 \/ text[stop] \in LineEnd)
          /\ \A k \in f .. stop - 1 : text[k] \notin LineEnd
      BY <1>6, <2>1, EndFacts
    <2> HIDE DEF stop
    <2>3. ASSUME stop = n + 2 PROVE FALSE
      <3>1. n + 1 \in f .. stop - 1 BY <1>1, <1>8, <2>3
      <3> QED BY <1>4, <2>2, <3>1, CharFacts
    <2>4. stop \in 1 .. n \/ stop = n + 1 \/ stop = n + 2 BY <1>1, <1>2, <1>8, <2>2
    <2>5. stop # Len(text) + 1 \/ stop = n + 2 BY <1>1, <1>2
    <2> QED BY <1>3, <2>2, <2>3, <2>4, <2>5
  <1>11. CleanLine(raw, c) = SubSeq(text, f, IF stop - f < LineMax THEN stop - 1 ELSE f + LineMax - 2)
    BY Zenon DEF CleanLine, text, f, b, stop, Sevens, StartOf
  <1> HIDE DEF stop
  <1>12. stop - f < LineMax /\ stop - 1 = n BY <1>1, <1>8, <1>10, CommandLineAssumption
  <1>13. CleanLine(raw, c) = SubSeq(text, f, n) BY <1>11, <1>12
  <1>14. SubSeq(text, f, n) = Drop(line, f)
    <2> DEFINE x == SubSeq(text, f, n)
               y == Drop(line, f)
    <2>1. f \in 1 .. Len(text) + 1 /\ n \in f - 1 .. Len(text) /\ f \in 1 .. Len(line) + 1 BY <1>1, <1>2, <1>5, <1>8
    <2>2. x \in Seq(Chars) /\ Len(x) = n - f + 1 /\ \A k \in 1 .. n - f + 1 : x[k] = text[f + k - 1]
      BY <1>2, <2>1, Piece, SMTT(30)
    <2>3. y \in Seq(Chars) /\ Len(y) = Len(line) - f + 1 /\ \A k \in 1 .. Len(line) - f + 1 : y[k] = line[f + k - 1]
      BY <1>5, <2>1, DropIs
    <2> HIDE DEF x, y
    <2>4. ASSUME NEW k \in 1 .. n - f + 1 PROVE x[k] = y[k]
      <3>1. f + k - 1 \in 1 .. n BY <1>1, <1>8
      <3> QED BY <1>5, <2>2, <2>3, <3>1
    <2>5. x = y BY <1>5, <2>2, <2>3, <2>4, SeqEqual
    <2> QED BY <2>5 DEF x, y
  <1>15. \E g \in b .. n + 1 : Blank(line, b, g) /\ (g = n + 1 \/ ~IsSpace(line[g])) /\ CleanLine(raw, c) = Drop(line, g)
    BY <1>8, <1>9, <1>13, <1>14
  <1>16. \A i \in 1 .. n : line[i] = Seven(raw[i])
    <2>1. \A i \in 1 .. n : i \in 1 .. n + 1 BY <1>1
    <2> QED BY <1>2, <1>5, <2>1
  <1> QED BY <1>5, <1>15, <1>16 DEF n, line, b

\* What may stand in front of the cursor, and what neosh_prompt may hold.
Fronts == {<< >>} \cup {Shows(d) : d \in Shown}
Cores  == {<< >>} \cup {PromptCore(d) : d \in Directories}

\* What is typed is one line that does not begin like a prompt.
LEMMA TypedIs ==
    ASSUME NEW t \in Typed
    PROVE  /\ t \in Seq(Chars) /\ \A i \in 1 .. Len(t) : Seven(t[i]) \notin LineEnd
           /\ \A d \in Directories : ~HasPrompt(t, PromptCore(d))
  <1>1. t \in Seq(Chars) BY TextsAssumption, TextsOfStrings
  <1>2. /\ \A i \in DOMAIN t : Seven(t[i]) \notin LineEnd
        /\ \A q \in DOMAIN Places :
              LET c == PromptCore(Places[q]) IN Len(t) < Len(c) \/ \E i \in DOMAIN c : Seven(t[i]) # c[i]
    BY NamesAssumption, Zenon
  <1>3. DOMAIN t = 1 .. Len(t) BY <1>1, LenProperties
  <1>4. ASSUME NEW d \in Directories PROVE ~HasPrompt(t, PromptCore(d))
    <2>1. PICK q \in DOMAIN Places : d = Places[q] BY DEF Directories
    <2> DEFINE c == PromptCore(d)
    <2>2. Len(t) < Len(c) \/ \E i \in DOMAIN c : Seven(t[i]) # c[i] BY <1>2, <2>1, Zenon
    <2>3. Named(d) BY DirectoryNamed DEF Shown
    <2>4. c \in Seq(Chars) BY <2>3, ShowsIs
    <2> HIDE DEF c
    <2>5. DOMAIN c = 1 .. Len(c) /\ Len(c) \in Nat /\ Len(t) \in Nat BY <1>1, <2>4, LenProperties
    <2>6. ~(Len(c) <= Len(t)) \/ \E i \in 1 .. Len(c) : Seven(t[i]) # c[i] BY <2>2, <2>5
    <2>7. ~HasPrompt(t, c) BY <2>6, Zenon DEF HasPrompt
    <2> QED BY <2>7 DEF c
  <1> QED BY <1>1, <1>2, <1>3, <1>4

\* The prompt in front of a line is found in its full length or not at all.
LEMMA PromptLength ==
    ASSUME NEW d, Named(d), NEW e, Named(e), NEW t \in Seq(Chars), HasPrompt(Raw(Shows(d), t), PromptCore(e))
    PROVE  Len(e) = Len(d)
  <1> DEFINE raw == Raw(Shows(d), t)
             c == PromptCore(e)
  <1>1. /\ Shows(d) \in Seq(Chars) /\ Len(Shows(d)) = Len(d) + 2 /\ Shows(d)[Len(d) + 1] = GtC
        /\ \A i \in 1 .. Len(d) : Shows(d)[i] = d[i]
    BY ShowsIs
  <1>2. Len(c) = Len(e) + 1 /\ c[Len(e) + 1] = GtC /\ \A i \in 1 .. Len(e) : c[i] = e[i] BY ShowsIs
  <1>3. /\ Len(d) \in Nat /\ Len(e) \in Nat /\ \A i \in 1 .. Len(d) : Seven(d[i]) = d[i] /\ d[i] # GtC
        /\ \A i \in 1 .. Len(e) : e[i] # GtC
    BY LenProperties DEF Named, Plain
  <1>4. \A i \in 1 .. Len(Shows(d)) : raw[i] = Shows(d)[i] BY <1>1, RawIs
  <1>5. \A i \in 1 .. Len(c) : Seven(raw[i]) = c[i] BY Zenon DEF HasPrompt
  <1> HIDE DEF raw, c
  <1>6. ASSUME Len(e) < Len(d) PROVE FALSE
    <2> DEFINE i == Len(e) + 1
    <2>1. i \in 1 .. Len(d) /\ i \in 1 .. Len(Shows(d)) /\ i \in 1 .. Len(c) BY <1>1, <1>2, <1>3, <1>6
    <2>2. c[i] = GtC BY <1>2
    <2> HIDE DEF i
    <2>3. raw[i] = d[i] BY <1>1, <1>4, <2>1
    <2>4. Seven(raw[i]) = GtC BY <1>5, <2>1, <2>2
    <2> QED BY <1>3, <2>1, <2>3, <2>4
  <1>7. ASSUME Len(e) > Len(d) PROVE FALSE
    <2> DEFINE i == Len(d) + 1
    <2>1. i \in 1 .. Len(e) /\ i \in 1 .. Len(Shows(d)) /\ i \in 1 .. Len(c) BY <1>1, <1>2, <1>3, <1>7
    <2>2. Shows(d)[i] = GtC BY <1>1
    <2> HIDE DEF i
    <2>3. raw[i] = GtC BY <1>4, <2>1, <2>2
    <2>4. Seven(raw[i]) = e[i] BY <1>2, <1>5, <2>1
    <2> QED BY <1>3, <2>1, <2>3, <2>4, CharFacts
  <1> QED BY <1>3, <1>6, <1>7

\* What is typed on an empty line is not taken for a prompt.
LEMMA NoPrompt ==
    ASSUME NEW e \in Directories, NEW t \in Typed
    PROVE  ~HasPrompt(Raw(<< >>, t), PromptCore(e))
  <1> DEFINE raw == Raw(<< >>, t)
             c == PromptCore(e)
  <1> SUFFICES ASSUME HasPrompt(raw, c) PROVE FALSE OBVIOUS
  <1>1. t \in Seq(Chars) /\ Len(t) \in Nat /\ ~HasPrompt(t, c) BY TypedIs, LenProperties
  <1>2. Named(e) BY DirectoryNamed DEF Shown
  <1>3. c \in Seq(Chars) /\ Len(c) = Len(e) + 1 /\ c[Len(e) + 1] = GtC /\ Len(e) \in Nat
    BY <1>2, ShowsIs, LenProperties DEF Named
  <1>4. Len(raw) = Len(t) + 1 /\ (\A i \in 1 .. Len(t) : raw[i] = t[i]) /\ raw[Len(t) + 1] = ReturnC
    <2>1. << >> \in Seq(Chars) /\ Len(<< >>) = 0 OBVIOUS
    <2>2. /\ Len(raw) = Len(<< >>) + Len(t) + 1
          /\ \A i \in 1 .. Len(t) : raw[Len(<< >>) + i] = t[i]
          /\ raw[Len(<< >>) + Len(t) + 1] = ReturnC
      BY <1>1, <2>1, RawIs
    <2>3. \A i \in 1 .. Len(t) : 0 + i = i BY <1>1
    <2>4. 0 + Len(t) + 1 = Len(t) + 1 BY <1>1
    <2> HIDE DEF raw
    <2> QED BY <2>1, <2>2, <2>3, <2>4
  <1>5. c # << >> /\ Len(c) <= Len(raw) /\ \A i \in 1 .. Len(c) : Seven(raw[i]) = c[i] BY Zenon DEF HasPrompt
  <1> HIDE DEF raw, c
  <1>6. CASE Len(c) <= Len(t)
    <2>1. \A i \in 1 .. Len(c) : i \in 1 .. Len(t) BY <1>1, <1>3, <1>6
    <2>2. \A i \in 1 .. Len(c) : Seven(t[i]) = c[i] BY <1>4, <1>5, <2>1
    <2> QED BY <1>1, <1>5, <1>6, <2>2, Zenon DEF HasPrompt
  <1>7. CASE ~(Len(c) <= Len(t))
    <2>1. Len(c) = Len(t) + 1 /\ Len(t) + 1 \in 1 .. Len(c) /\ Len(e) = Len(t) BY <1>1, <1>3, <1>4, <1>5, <1>7
    <2>2. Seven(ReturnC) = GtC BY <1>3, <1>4, <1>5, <2>1
    <2> QED BY <2>2, CharFacts
  <1> QED BY <1>6, <1>7

\* A word that begins like a prompt: no operator and no command.
Odd(w) == Len(w) > 1 /\ w[1] \notin {LtC, GtC} /\ w[2] = ColonC

\* A text that begins like a prompt.
LEMMA OddFirst ==
    ASSUME NEW x \in Seq(Chars), Len(x) > 1, x[1] \notin {SpaceC, TabC, LtC, GtC}, x[2] = ColonC
    PROVE  Words(x) \in Seq(Solid) /\ Words(x) # << >> /\ Odd(Words(x)[1])
  <1> DEFINE w == NextToken(x, 1).word
             c == NextToken(x, 1).cursor
             r == Words(Drop(x, c))
  <1>1. x # << >> /\ ~IsSpace(x[1]) /\ x[1] \notin {LtC, GtC} /\ Len(x) \in Nat
    <2>1. Len(x) \in Nat BY LenProperties
    <2>2. x # << >> BY EmptySeq, <2>1
    <2> QED BY <2>1, <2>2, CharFacts
  <1>2. /\ w \in Solid /\ Covers(x, 1, c) /\ c \in 2 .. Len(x) + 1
        /\ Len(w) = c - 1 /\ \A i \in 1 .. c - 1 : w[i] = x[i]
        /\ r \in Seq(Solid) /\ Words(x) = <<w>> \o r
    BY <1>1, FrontToken
  <1> HIDE DEF w, c, r
  <1>3. c # 2
    <2>1. c = Len(x) + 1 \/ IsSpace(x[c]) BY <1>2 DEF Covers
    <2>2. ~IsSpace(x[2]) BY CharFacts
    <2> QED BY <1>1, <2>1, <2>2
  <1>4. Len(w) > 1 /\ w[1] = x[1] /\ w[2] = x[2]
    <2>1. 1 \in 1 .. c - 1 /\ 2 \in 1 .. c - 1 /\ c - 1 > 1 BY <1>1, <1>2, <1>3
    <2> QED BY <1>2, <2>1
  <1>5. Odd(w) BY <1>1, <1>4 DEF Odd
  <1>6. Words(x) \in Seq(Solid) /\ Words(x) # << >> /\ Words(x)[1] = w BY <1>2, Cons
  <1> QED BY <1>5, <1>6

\* What stands in front of the cursor has plain characters.
LEMMA FrontIs ==
    ASSUME NEW p \in Fronts
    PROVE  p \in Seq(Chars) /\ \A i \in 1 .. Len(p) : Seven(p[i]) = p[i] /\ p[i] \notin LineEnd
  <1>1. CASE p = << >> BY <1>1
  <1>2. CASE \E d \in Shown : p = Shows(d)
    <2>1. PICK d \in Shown : p = Shows(d) BY <1>2
    <2>2. Named(d) BY DirectoryNamed
    <2>3. /\ p \in Seq(Chars) /\ Len(p) = Len(d) + 2 /\ p[Len(d) + 1] = GtC /\ p[Len(d) + 2] = SpaceC
          /\ \A i \in 1 .. Len(d) : p[i] = d[i]
      BY <2>1, <2>2, ShowsIs
    <2>4. Len(d) \in Nat /\ \A i \in 1 .. Len(d) : Seven(d[i]) = d[i] /\ d[i] \notin LineEnd
      BY <2>2, LenProperties DEF Named, Plain
    <2>5. ASSUME NEW i \in 1 .. Len(p) PROVE Seven(p[i]) = p[i] /\ p[i] \notin LineEnd
      <3>1. i \in 1 .. Len(d) \/ i = Len(d) + 1 \/ i = Len(d) + 2 BY <2>3, <2>4
      <3> QED BY <2>3, <2>4, <3>1, CharFacts
    <2> QED BY <2>3, <2>5
  <1> QED BY <1>1, <1>2 DEF Fronts

\* The cleaned line has the words that were typed, or it still begins with a
\* prompt, that of another directory, and is no command.
\* The clean line has the words that were typed, or its first word is a drive.
CleanReads(x, t) ==
    \/ Words(x) = Words(Sevens(t))
    \/ Words(x) \in Seq(Solid) /\ Words(x) # << >> /\ Odd(Words(x)[1])

\* Cleaning a line leaves the words that were typed, or a first word that is no command.
LEMMA CleanWords ==
    ASSUME NEW p \in Fronts, NEW c \in Cores, NEW t \in Typed, Len(Raw(p, t)) < LineMax
    PROVE  CleanReads(CleanLine(Raw(p, t), c), t)
  <1> DEFINE raw  == Raw(p, t)
             n    == Len(p) + Len(t)
             line == LineOf(raw)
             b    == StartOf(raw, c)
             x    == CleanLine(raw, c)
  <1> SUFFICES CleanReads(x, t) OBVIOUS
  <1>1. /\ p \in Seq(Chars) /\ Len(p) \in Nat /\ \A i \in 1 .. Len(p) : Seven(p[i]) = p[i] /\ p[i] \notin LineEnd
    BY FrontIs, LenProperties
  <1>2. t \in Seq(Chars) /\ Len(t) \in Nat /\ \A i \in 1 .. Len(t) : Seven(t[i]) \notin LineEnd BY TypedIs, LenProperties
  <1>3. /\ raw \in Seq(Chars) /\ Len(raw) = n + 1 /\ n \in Nat
        /\ \A i \in 1 .. Len(p) : raw[i] = p[i]
        /\ \A i \in 1 .. Len(t) : raw[Len(p) + i] = t[i]
        /\ raw[n + 1] = ReturnC
    <2>1. /\ raw \in Seq(Chars) /\ Len(raw) = Len(p) + Len(t) + 1
          /\ \A i \in 1 .. Len(p) : raw[i] = p[i]
          /\ \A i \in 1 .. Len(t) : raw[Len(p) + i] = t[i]
          /\ raw[Len(p) + Len(t) + 1] = ReturnC
      BY <1>1, <1>2, RawIs, Zenon
    <2> HIDE DEF raw
    <2> QED BY <1>1, <1>2, <2>1
  <1> HIDE DEF raw
  <1>4. ASSUME NEW i \in 1 .. n PROVE Seven(raw[i]) \notin LineEnd
    <2>1. CASE i \in 1 .. Len(p) BY <1>1, <1>3, <2>1
    <2>2. CASE i \notin 1 .. Len(p)
      <3> DEFINE j == i - Len(p)
      <3>1. j \in 1 .. Len(t) /\ Len(p) + j = i BY <1>1, <1>2, <2>2
      <3> HIDE DEF j
      <3>2. raw[i] = t[j] BY <1>3, <3>1
      <3> QED BY <1>2, <3>1, <3>2
    <2> QED BY <2>1, <2>2
  <1> HIDE DEF n
  <1>5. Len(raw) - 1 = n /\ Len(raw) > 0 /\ raw[Len(raw)] = ReturnC BY <1>3
  <1>6. ASSUME b \in 1 .. Len(raw)
        PROVE  /\ line \in Seq(Chars) /\ Len(line) = n /\ \A i \in 1 .. n : line[i] = Seven(raw[i])
               /\ \E f \in b .. n + 1 : Blank(line, b, f) /\ (f = n + 1 \/ ~IsSpace(line[f])) /\ x = Drop(line, f)
    <2>1. Len(raw) < LineMax BY DEF raw
    <2>2. \A i \in 1 .. Len(raw) - 1 : Seven(raw[i]) \notin LineEnd BY <1>4, <1>5
    <2> DEFINE m == Len(raw) - 1
    <2>3. /\ line \in Seq(Chars) /\ Len(line) = m /\ \A i \in 1 .. m : line[i] = Seven(raw[i])
          /\ \E f \in b .. m + 1 : Blank(line, b, f) /\ (f = m + 1 \/ ~IsSpace(line[f])) /\ x = Drop(line, f)
      BY <1>3, <1>5, <1>6, <2>1, <2>2, CleanIs
    <2> HIDE DEF x, line, b
    <2> QED BY <1>5, <2>3
  <1>7. /\ Sevens(t) \in Seq(Chars) /\ Len(Sevens(t)) = Len(t)
        /\ \A i \in 1 .. Len(t) : Sevens(t)[i] = Seven(t[i])
    BY <1>2, SevensTyped
  <1>8. n = Len(p) + Len(t) BY DEF n
  <1>9. b = IF HasPrompt(raw, c) THEN Len(c) + 1 ELSE 1 BY DEF StartOf
  <1> HIDE DEF line, b, x
  <1>10. CASE ~HasPrompt(raw, c)
    <2>1. b = 1 /\ b \in 1 .. Len(raw) BY <1>3, <1>5, <1>9, <1>10
    <2>2. /\ line \in Seq(Chars) /\ Len(line) = n /\ \A i \in 1 .. n : line[i] = Seven(raw[i])
          /\ \E f \in 1 .. n + 1 : Blank(line, 1, f) /\ x = Drop(line, f)
      BY <1>6, <2>1
    <2>3. PICK f \in 1 .. n + 1 : Blank(line, 1, f) /\ x = Drop(line, f) BY <2>2
    <2>4. Words(x) = Words(line) BY <2>2, <2>3, LeadingBlank
    <2>5. CASE p = << >>
      <3>1. Len(p) = 0 /\ n = Len(t) BY <1>2, <1>8, <2>5
      <3>2. ASSUME NEW i \in 1 .. n PROVE line[i] = Sevens(t)[i]
        <4>1. i \in 1 .. Len(t) /\ Len(p) + i = i BY <1>2, <3>1
        <4>2. raw[i] = t[i] BY <1>3, <4>1
        <4> QED BY <1>7, <2>2, <4>1, <4>2
      <3>3. line = Sevens(t) BY <1>7, <2>2, <3>1, <3>2, SeqEqual
      <3> QED BY <2>4, <3>3 DEF CleanReads
    <2>6. CASE p # << >>
      <3>1. PICK d \in Shown : p = Shows(d) BY <2>6 DEF Fronts
      <3>2. Named(d) BY DirectoryNamed
      <3>3. Len(p) = Len(d) + 2 /\ \A i \in 1 .. Len(d) : p[i] = d[i] BY <3>1, <3>2, ShowsIs
      <3>4. Len(d) \in Nat /\ Len(d) > 1 /\ d[1] \notin {SpaceC, TabC, LtC, GtC} /\ d[2] = ColonC
        BY <3>2, LenProperties DEF Named
      <3>5. /\ 1 \in 1 .. Len(d) /\ 2 \in 1 .. Len(d) /\ 1 \in 1 .. Len(p) /\ 2 \in 1 .. Len(p)
            /\ 1 \in 1 .. n /\ 2 \in 1 .. n /\ n > 1
        BY <1>2, <1>8, <3>3, <3>4
      <3>6. line[1] = d[1] /\ line[2] = d[2] BY <1>1, <1>3, <2>2, <3>3, <3>5
      <3>7. Words(line) \in Seq(Solid) /\ Words(line) # << >> /\ Odd(Words(line)[1])
        BY <2>2, <3>4, <3>5, <3>6, OddFirst
      <3> QED BY <2>4, <3>7 DEF CleanReads
    <2> QED BY <2>5, <2>6
  <1>11. CASE HasPrompt(raw, c)
    <2>1. c # << >> BY <1>11, Zenon DEF HasPrompt
    <2>2. PICK e \in Directories : c = PromptCore(e) BY <2>1 DEF Cores
    <2>3. p # << >> BY <1>11, <2>2, NoPrompt DEF raw
    <2>4. PICK d \in Shown : p = Shows(d) BY <2>3 DEF Fronts
    <2>5. Named(d) /\ Named(e) BY DirectoryNamed DEF Shown
    <2>6. Len(e) = Len(d) BY <1>2, <1>11, <2>2, <2>4, <2>5, PromptLength DEF raw
    <2>7. Len(c) = Len(e) + 1 BY <2>2, <2>5, ShowsIs
    <2>8. Len(p) = Len(d) + 2 /\ p[Len(d) + 2] = SpaceC BY <2>4, <2>5, ShowsIs
    <2>9. Len(d) \in Nat BY <2>5, LenProperties DEF Named
    <2>10. b = Len(p) /\ b \in 1 .. n /\ b \in 1 .. Len(raw) /\ b \in 1 .. n + 1 /\ b + 1 \in b .. n + 1
      BY <1>2, <1>3, <1>8, <1>9, <1>11, <2>6, <2>7, <2>8, <2>9
    <2>11. line \in Seq(Chars) /\ Len(line) = n /\ \A i \in 1 .. n : line[i] = Seven(raw[i]) BY <1>6, <2>10
    <2>12. PICK f \in b .. n + 1 : Blank(line, b, f) /\ x = Drop(line, f) BY <1>6, <2>10
    <2>13. Words(x) = Words(Drop(line, b)) BY <2>10, <2>11, <2>12, InnerBlank
    <2>14. IsSpace(line[b])
      <3>1. b \in 1 .. Len(p) /\ p[b] = SpaceC BY <2>8, <2>9, <2>10
      <3>2. line[b] = SpaceC BY <1>1, <1>3, <2>10, <2>11, <3>1
      <3> QED BY <3>2, CharFacts
    <2>15. Blank(line, b, b + 1)
      <3>1. \A k \in b .. (b + 1) - 1 : k = b BY <2>10
      <3> QED BY <2>14, <3>1 DEF Blank
    <2>16. Words(Drop(line, b + 1)) = Words(Drop(line, b)) BY <2>10, <2>11, <2>15, InnerBlank
    <2>17. Drop(line, b + 1) = Sevens(t)
      <3> DEFINE y == Drop(line, b + 1)
                 g == b + 1
      <3>1. g \in 1 .. Len(line) + 1 BY <2>10, <2>11
      <3>2. y \in Seq(Chars) /\ Len(y) = Len(line) - g + 1 /\ \A k \in 1 .. Len(line) - g + 1 : y[k] = line[g + k - 1]
        <4> HIDE DEF g
        <4>1. /\ Drop(line, g) \in Seq(Chars) /\ Len(Drop(line, g)) = Len(line) - g + 1
              /\ \A k \in 1 .. Len(line) - g + 1 : Drop(line, g)[k] = line[g + k - 1]
          BY <2>11, <3>1, DropIs
        <4> QED BY <4>1 DEF g
      <3> HIDE DEF y
      <3>3. Len(line) - g + 1 = Len(t) BY <1>1, <1>2, <1>8, <2>10, <2>11
      <3>4. ASSUME NEW k \in 1 .. Len(t) PROVE y[k] = Sevens(t)[k]
        <4>1. g + k - 1 = Len(p) + k /\ Len(p) + k \in 1 .. n BY <1>1, <1>2, <1>8, <2>10
        <4>2. y[k] = line[Len(p) + k] BY <3>2, <3>3, <4>1
        <4>3. line[Len(p) + k] = Seven(t[k]) BY <1>3, <2>11, <4>1
        <4> QED BY <1>7, <4>2, <4>3
      <3>5. Len(y) = Len(t) BY <3>2, <3>3
      <3>6. y = Sevens(t) BY <1>7, <3>2, <3>4, <3>5, SeqEqual
      <3> QED BY <3>6 DEF y
    <2> QED BY <2>13, <2>16, <2>17 DEF CleanReads
  <1> QED BY <1>10, <1>11

\* No letter is a colon,
LEMMA NoColon == \A i \in 1 .. 26 : Letters[i] # ColonC
  BY SMTT(60) DEF Letters, ColonC

\* and no character but a colon becomes one in upper case.
LEMMA UpperColon == Upper(ColonC) = ColonC
  <1>1. DOMAIN HighBit \cap ({" ", "0", ":", "/", ">"} \cup LineEnd) = {} BY NamesAssumption, Zenon
  <1>2. Seven(ColonC) = ColonC BY <1>1, Zenon DEF Seven, ColonC
  <1>3. ColonC \notin DOMAIN UpperCase
    <2> DEFINE S == {Letters[i] : i \in 1 .. 26}
    <2>1. ColonC \notin S BY NoColon
    <2>2. DOMAIN UpperCase = S BY Zenon DEF UpperCase
    <2> QED BY <2>1, <2>2, Zenon
  <1> QED BY <1>2, <1>3, Zenon DEF Upper

\* The table of nbox, entry by entry.
Cmd(n, i, m) == [name |-> n, id |-> i, mode |-> m]

\* The applets of the table, by name, id and mode.
LEMMA CommandList ==
    Commands = {Cmd(<<"P", "W", "D">>, "pwd", "CHILD"),
                Cmd(<<"C", "D">>, "cd", "PARENT"),
                Cmd(<<"L", "S">>, "ls", "CHILD"),
                Cmd(<<"C", "A", "T">>, "cat", "CHILD"),
                Cmd(<<"E", "C", "H", "O">>, "echo", "CHILD"),
                Cmd(<<"R", "M">>, "rm", "CHILD"),
                Cmd(<<"M", "V">>, "mv", "CHILD"),
                Cmd(<<"M", "K", "D", "I", "R">>, "mkdir", "CHILD"),
                Cmd(<<"R", "M", "D", "I", "R">>, "rmdir", "CHILD"),
                Cmd(<<"C", "P">>, "cp", "CHILD"),
                Cmd(<<"P", "S">>, "ps", "CHILD"),
                Cmd(<<"K", "I", "L", "L">>, "kill", "PARENT")}
  BY Zenon DEF Commands, Cmd

CdName == <<"C", "D">>

\* What the shell relies on in an entry of the command table.
\* What the entries of the table have in common.
EntryOk(c) ==
    /\ c.name[2] # ColonC /\ c.mode \in {"CHILD", "PARENT"}
    /\ c.mode = "PARENT" => \/ c.id = "kill"
                            \/ c.id = "cd" /\ c.name = CdName

\* cd and kill are the only ones that run in the shell itself.
LEMMA CommandFacts == \A c \in Commands : EntryOk(c)
  <1>1. EntryOk(Cmd(<<"P", "W", "D">>, "pwd", "CHILD")) BY DEF EntryOk, Cmd, ColonC, CdName
  <1>2. EntryOk(Cmd(<<"C", "D">>, "cd", "PARENT")) BY DEF EntryOk, Cmd, ColonC, CdName
  <1>3. EntryOk(Cmd(<<"L", "S">>, "ls", "CHILD")) BY DEF EntryOk, Cmd, ColonC, CdName
  <1>4. EntryOk(Cmd(<<"C", "A", "T">>, "cat", "CHILD")) BY DEF EntryOk, Cmd, ColonC, CdName
  <1>5. EntryOk(Cmd(<<"E", "C", "H", "O">>, "echo", "CHILD")) BY DEF EntryOk, Cmd, ColonC, CdName
  <1>6. EntryOk(Cmd(<<"R", "M">>, "rm", "CHILD")) BY DEF EntryOk, Cmd, ColonC, CdName
  <1>7. EntryOk(Cmd(<<"M", "V">>, "mv", "CHILD")) BY DEF EntryOk, Cmd, ColonC, CdName
  <1>8. EntryOk(Cmd(<<"M", "K", "D", "I", "R">>, "mkdir", "CHILD")) BY DEF EntryOk, Cmd, ColonC, CdName
  <1>9. EntryOk(Cmd(<<"R", "M", "D", "I", "R">>, "rmdir", "CHILD")) BY DEF EntryOk, Cmd, ColonC, CdName
  <1>10. EntryOk(Cmd(<<"C", "P">>, "cp", "CHILD")) BY DEF EntryOk, Cmd, ColonC, CdName
  <1>11. EntryOk(Cmd(<<"P", "S">>, "ps", "CHILD")) BY DEF EntryOk, Cmd, ColonC, CdName
  <1>12. EntryOk(Cmd(<<"K", "I", "L", "L">>, "kill", "PARENT")) BY DEF EntryOk, Cmd, ColonC, CdName
  <1> QED BY CommandList, <1>1, <1>2, <1>3, <1>4, <1>5, <1>6, <1>7, <1>8, <1>9, <1>10, <1>11, <1>12, Zenon

\* A resolved command is an entry whose name the first word matches.
Calls(w, c) == c \in Commands /\ TokenMatches(w, c.name)

\* nbox_resolve finds an applet whose name the first word matches.
LEMMA ResolveIs ==
    ASSUME NEW t
    PROVE  LET w == NextToken(t, 1).word
               r == Resolve(t) IN
           \/ r.mode \in {"NONE", "UNKNOWN"}
           \/ w # << >> /\ \E c : Calls(w, c) /\ r.id = c.id /\ r.mode = c.mode
  <1> DEFINE w == NextToken(t, 1).word
             c == CHOOSE c \in Commands : TokenMatches(w, c.name)
  <1>1. CASE w = << >> \/ Len(w) > CommandMax \/ ~\E d \in Commands : TokenMatches(w, d.name)
    <2>1. Resolve(t) = Unresolved("NONE") \/ Resolve(t) = Unresolved("UNKNOWN") BY <1>1, Zenon DEF Resolve
    <2> QED BY <2>1 DEF Unresolved
  <1>2. CASE ~(w = << >> \/ Len(w) > CommandMax \/ ~\E d \in Commands : TokenMatches(w, d.name))
    <2>1. Calls(w, c) BY <1>2, Zenon DEF Calls
    <2>2. Resolve(t) = [id |-> c.id, mode |-> c.mode] BY <1>2, Zenon DEF Resolve
    <2> HIDE DEF c, w
    <2>3. Resolve(t).id = c.id /\ Resolve(t).mode = c.mode BY <2>2
    <2>4. w # << >> BY <1>2
    <2> QED BY <2>1, <2>3, <2>4, Zenon DEF w
  <1> QED BY <1>1, <1>2

\* A word that begins like a prompt is no command.
LEMMA OddIsNone ==
    ASSUME NEW w \in Seq(Chars), Odd(w)
    PROVE  \A c : ~Calls(w, c)
  <1> SUFFICES ASSUME NEW c \in Commands, TokenMatches(w, c.name) PROVE FALSE BY DEF Calls
  <1>1. Len(w) \in Nat /\ DOMAIN w = 1 .. Len(w) BY LenProperties
  <1>2. 2 \in DOMAIN w /\ w[2] = ColonC BY <1>1 DEF Odd
  <1>3. Upper(w[2]) = c.name[2] BY <1>2, Zenon DEF TokenMatches
  <1>4. c.name[2] # ColonC BY CommandFacts DEF EntryOk
  <1> QED BY <1>2, <1>3, <1>4, UpperColon

(***************************************************************************)
(* From a clean line to the command and its arguments.                     *)
(***************************************************************************)
\* An operator begins with < or >, or has a > behind its first character.
LEMMA OperatorHeads ==
    \A o \in Operators : \/ o.text[1] \in {LtC, GtC}
                         \/ Len(o.text) > 1 /\ o.text[2] = GtC
  BY OperatorList, SMTT(30) DEF Op

\* The first word of a drive is no redirection.
LEMMA OddIsPlain ==
    ASSUME NEW w \in Seq(Chars), Odd(w)
    PROVE  ~IsRedirection(w)
  <1> SUFFICES ASSUME NEW o \in Operators, Starts(w, o.text) PROVE FALSE BY DEF IsRedirection, OperatorsOf
  <1>1. o.text \in Seq(Chars) /\ o.text # << >> /\ Len(o.text) \in 1 .. 3 BY TextsOfOperators, OperatorFacts
  <1>2. Begins(o.text, w) BY <1>1, StartsIs
  <1>3. w[1] = o.text[1] BY <1>1, <1>2 DEF Begins
  <1>4. Len(o.text) > 1 => w[2] = o.text[2] BY <1>1, <1>2 DEF Begins
  <1>5. w[1] \notin {LtC, GtC} /\ w[2] # GtC BY CharFacts DEF Odd
  <1> QED BY <1>3, <1>4, <1>5, OperatorHeads

\* The smallest number comes first.
LEMMA ListedFirst ==
    ASSUME NEW S, Bounded(S), 1 \in S
    PROVE  Cardinality(S) \in Nat /\ 1 \in 1 .. Cardinality(S) /\ Listed(S)[1] = 1
  <1>1. PICK N \in Nat : S \in SUBSET (1 .. N) BY DEF Bounded
  <1>2. IsFiniteSet(S) /\ Cardinality(S) \in Nat BY <1>1, FiniteUpTo
  <1>3. 1 \in 1 .. Cardinality(S)
    <2>1. Cardinality(S) # 0
      <3>1. S # {} OBVIOUS
      <3> QED BY <1>2, <3>1, FS_EmptySet, Zenon
    <2> QED BY <1>2, <2>1
  <1> DEFINE upto(i) == {j \in S : j <= i}
  <1>4. upto(1) = {1}
    <2>1. \A j \in S : j <= 1 <=> j = 1 BY <1>1
    <2> QED BY <2>1
  <1>5. Cardinality({1}) = 1 BY FS_Singleton
  <1> HIDE DEF upto
  <1>6. Cardinality(upto(1)) = 1 BY <1>4, <1>5
  <1>7. 1 \in Ranked(S, 1) BY <1>6, Zenon DEF Ranked, upto
  <1>8. ASSUME NEW i \in Ranked(S, 1) PROVE i = 1
    <2>1. i \in S /\ Cardinality(upto(i)) = 1 BY Zenon DEF Ranked, upto
    <2>2. upto(i) \in SUBSET (1 .. N) BY <1>1 DEF upto
    <2>3. IsFiniteSet(upto(i)) BY <1>1, <2>2, FiniteUpTo
    <2>4. \A j, k \in upto(i) : j = k BY <2>1, <2>3, AtMostOne
    <2>5. i \in Nat /\ 1 <= i /\ i <= i BY <1>1, <2>1
    <2>6. 1 \in upto(i) /\ i \in upto(i) BY <2>1, <2>5 DEF upto
    <2> QED BY <2>4, <2>6
  <1>9. Listed(S)[1] = CHOOSE i : i \in Ranked(S, 1) BY <1>3, ListedDef
  <1>10. (CHOOSE i : i \in Ranked(S, 1)) \in Ranked(S, 1) BY <1>7, Zenon
  <1> QED BY <1>2, <1>3, <1>8, <1>9, <1>10

\* A first word that is no operator is the name of the command.
LEMMA FirstCommandWord ==
    ASSUME NEW ws \in Seq(Solid), ws # << >>, ~IsRedirection(ws[1])
    PROVE  CommandWords(ws)[1] = ws[1]
  <1> DEFINE S == Ordinary(ws)
  <1>1. Len(ws) \in Nat /\ CommandAt(ws) = S /\ \A k \in 1 .. Len(ws) : ws[k] \in Solid BY WordsFacts
  <1>2. 1 \in 1 .. Len(ws) BY <1>1, EmptySeq
  <1>3. 1 \in S BY <1>2 DEF Ordinary
  <1>4. S \in SUBSET (1 .. Len(ws)) BY DEF Ordinary
  <1> HIDE DEF S
  <1>5. Bounded(S) BY <1>1, <1>4 DEF Bounded
  <1>6. Valued(ws, S, Solid) BY <1>1, <1>4 DEF Valued
  <1>7. Picks(ws, S, Solid) BY <1>5, <1>6, PickedAt
  <1>8. 1 \in 1 .. Cardinality(S) /\ Listed(S)[1] = 1 BY <1>3, <1>5, ListedFirst
  <1>9. Picked(ws, S)[1] = ws[1] BY <1>7, <1>8 DEF Picks
  <1> QED BY <1>1, <1>9 DEF CommandWords

\* What a line means depends on its words alone.
LEMMA MeaningOfWords ==
    ASSUME NEW x, NEW y, Words(x) = Words(y)
    PROVE  Meaning(x) = Meaning(y)
  BY Zenon DEF Meaning

\* What a resolved line r of the parsed command text t stands for, by meaning m.
\* What was parsed and resolved stands for a meaning.
Stands(m, s, r) ==
    LET ws == m.words IN
    /\ m.ok /\ s.plan = m.plan /\ ws \in Seq(Solid) /\ ws # << >>
    /\ ArgList(Arguments(s.command)) = Tail(ws)
    /\ \E c : Calls(ws[1], c) /\ r.id = c.id /\ r.mode = c.mode
    /\ IsCdDash(Arguments(s.command)) <=> Len(ws) = 2 /\ ws[2] = <<"-">>

\* A line that is read whole, parsed and resolved stands for what was typed.
LEMMA LineStands ==
    ASSUME NEW p \in Fronts, NEW c \in Cores, NEW t \in Typed, Len(Raw(p, t)) < LineMax,
           LET s == ParseRedirections(CleanLine(Raw(p, t), c)) IN
           s.verdict = "ok" /\ Resolve(s.command).mode \notin {"NONE", "UNKNOWN"}
    PROVE  LET s == ParseRedirections(CleanLine(Raw(p, t), c)) IN
           Stands(Meaning(Sevens(t)), s, Resolve(s.command))
  <1> DEFINE x == CleanLine(Raw(p, t), c)
             s == ParseRedirections(x)
             r == Resolve(s.command)
             m == Meaning(x)
             w == NextToken(s.command, 1).word
             a == Arguments(s.command)
             y == Sevens(t)
  <1>1. x \in Seq(Chars) /\ Len(x) < LineMax
    <2>1. p \in Seq(Chars) /\ t \in Seq(Chars) BY FrontIs, TypedIs
    <2>2. Raw(p, t) \in Seq(Chars) BY <2>1, RawIs
    <2>3. c \in Seq(Chars)
      <3>1. CASE c = << >> BY <3>1
      <3>2. CASE c # << >>
        <4>1. PICK d \in Directories : c = PromptCore(d) BY <3>2 DEF Cores
        <4>2. Named(d) BY DirectoryNamed DEF Shown
        <4> QED BY <4>1, <4>2, ShowsIs
      <3> QED BY <3>1, <3>2
    <2>4. CleanLine(Raw(p, t), c) \in BufferTexts BY <2>2, <2>3, CleanTyped
    <2> QED BY <2>4 DEF BufferTexts
  <1>2. CleanReads(x, t) BY CleanWords
  <1>3. s.verdict = "ok" /\ r.mode \notin {"NONE", "UNKNOWN"} OBVIOUS
  <1> HIDE DEF x
  <1>4. Agrees(x) BY <1>1, AgreesAlways
  <1>5. s.command \in Seq(Chars) BY <1>1, ParsedTyped DEF Scans, BufferTexts
  <1> HIDE DEF s
  <1>6. m.ok /\ s.plan = m.plan /\ Words(s.command) = m.words
    <2>1. /\ (s.verdict = "ok") = m.ok
          /\ m.ok => s.plan = m.plan /\ Words(s.command) = m.words /\ Len(s.command) < LineMax
      BY <1>4, Zenon DEF Agrees, s
    <2> QED BY <1>3, <2>1
  <1>7. w # << >> /\ \E d : Calls(w, d) /\ r.id = d.id /\ r.mode = d.mode
    <2>1. \/ r.mode \in {"NONE", "UNKNOWN"}
          \/ w # << >> /\ \E d : Calls(w, d) /\ r.id = d.id /\ r.mode = d.mode
      BY ResolveIs, Zenon
    <2> QED BY <1>3, <2>1
  <1>8. ArgumentsAre(s.command, w) BY <1>5, <1>7, ArgumentsIs
  <1>9. w \in Solid BY <1>5, <1>7, FirstToken DEF FirstIs
  <1> HIDE DEF r, m, w, a
  <1>10. /\ a \in Seq(Chars) /\ (a = << >> \/ ~IsSpace(a[1])) /\ Words(a) \in Seq(Solid)
         /\ m.words = <<w>> \o Words(a)
    BY <1>6, <1>8 DEF ArgumentsAre, a
  <1>11. m.words \in Seq(Solid) /\ m.words # << >> /\ Len(m.words) = Len(Words(a)) + 1 /\ m.words[1] = w /\ Tail(m.words) = Words(a)
    BY <1>9, <1>10, Cons
  <1>12. ArgList(a) = Tail(m.words) BY <1>10, <1>11, ArgListIs
  <1>13. IsCdDash(a) <=> Len(m.words) = 2 /\ m.words[2] = <<"-">>
    <2>1. IsCdDash(a) <=> Len(Words(a)) = 1 /\ Words(a)[1] = <<"-">> BY <1>10, DashIs
    <2>2. Len(Words(a)) \in Nat BY <1>10, LenProperties
    <2>3. Len(Words(a)) = 1 <=> Len(m.words) = 2
      <3>1. \A k \in Nat : \A n : n = k + 1 => (k = 1 <=> n = 2) OBVIOUS
      <3> QED BY <1>11, <2>2, <3>1, Zenon
    <2>4. ASSUME Len(Words(a)) = 1 PROVE Words(a)[1] = m.words[2]
      <3>1. \A i \in 1 .. Len(Tail(m.words)) : Tail(m.words)[i] = m.words[i + 1]
        BY <1>11, HeadTailProperties
      <3>2. 1 \in 1 .. Len(Tail(m.words)) /\ 1 + 1 = 2 BY <1>11, <2>4
      <3> QED BY <1>11, <3>1, <3>2
    <2> QED BY <2>1, <2>3, <2>4
  <1>14. Words(x) = Words(y)
    <2> SUFFICES ASSUME Words(x) \in Seq(Solid), Words(x) # << >>, Odd(Words(x)[1]) PROVE FALSE
      BY <1>2 DEF CleanReads
    <2> DEFINE ws == Words(x)
    <2>1. ws[1] \in Solid /\ ws[1] \in Seq(Chars)
      <3>1. 1 \in 1 .. Len(ws) BY EmptySeq, LenProperties
      <3> QED BY <3>1, WordsFacts
    <2>2. ~IsRedirection(ws[1]) BY <2>1, OddIsPlain
    <2>3. CommandWords(ws)[1] = ws[1] BY <2>2, FirstCommandWord
    <2>4. m.words = CommandWords(ws)
      <3>1. CASE WellFormed(ws)
        <4>1. m = [ok |-> TRUE, plan |-> PlanOf(ws), words |-> CommandWords(ws)] BY <3>1, Zenon DEF m, Meaning
        <4> QED BY <4>1
      <3>2. CASE ~WellFormed(ws)
        <4>1. m = [ok |-> FALSE, plan |-> EmptyPlan, words |-> << >>] BY <3>2, Zenon DEF m, Meaning
        <4>2. m.ok = FALSE BY <4>1
        <4> QED BY <1>6, <4>2
      <3> QED BY <3>1, <3>2
    <2>5. w = ws[1] BY <1>11, <2>3, <2>4
    <2> QED BY <1>7, <2>1, <2>5, OddIsNone
  <1>15. m = Meaning(y)
    <2>1. Meaning(x) = Meaning(y) BY <1>14, MeaningOfWords
    <2> QED BY <2>1 DEF m
  <1>16. Stands(m, s, r) BY <1>6, <1>7, <1>11, <1>12, <1>13 DEF Stands, a
  <1> QED BY <1>15, <1>16 DEF s, r, x

(***************************************************************************)
(* From the command to the child: what every step keeps.                   *)
(***************************************************************************)
\* Directories and prompts are what the file system has named; a change of
\* directory has saved the one it leaves.
Known ==
    /\ cwd \in Directories /\ core \in Cores
    /\ saved \in Directories \cup {<< >>} /\ previous \in Directories \cup {<< >>}
    /\ pc \in {"cd", "dash"} => saved = cwd

\* A whole entry is what was typed behind something that was on the screen.
Tidy  == {e \in Entries : e.whole => \E p \in Fronts : e.text = Raw(p, e.typed)}
Lines == queue \in Seq(Tidy)

\* A directory's text names it.
LEMMA PlacesFacts ==
    /\ Root \in Directories
    /\ \A d \in Directories : d \in DOMAIN Places /\ Places[d] = d /\ d # << >>
  <1>1. Root \in Directories BY TextsAssumption, Zenon DEF Root, Directories
  <1>2. ASSUME NEW d \in Directories PROVE d \in DOMAIN Places /\ Places[d] = d /\ d # << >>
    <2>1. PICK p \in DOMAIN Places : d = Places[p] BY DEF Directories
    <2>2. d \in DOMAIN Places /\ Places[d] = d BY <2>1, NamesAssumption, Zenon
    <2>3. Named(d) BY DirectoryNamed DEF Shown
    <2>4. Len(d) > 1 BY <2>3 DEF Named
    <2>5. d # << >> BY <2>4
    <2> QED BY <2>2, <2>5
  <1> QED BY <1>1, <1>2

\* The invariants hold at the start,
LEMMA InitKnown == Init => Known /\ Lines
  <1> SUFFICES ASSUME Init PROVE Known /\ Lines OBVIOUS
  <1>1. cwd = Root /\ core = << >> /\ saved = << >> /\ previous = << >> /\ pc = "prompt" BY DEF Init
  <1>2. Known BY <1>1, PlacesFacts DEF Known, Cores
  <1>3. queue = << >> BY DEF Init
  <1>4. Lines BY <1>3 DEF Lines
  <1> QED BY <1>2, <1>4

\* and are kept by a step that neither moves the shell nor prompts.
LEMMA KnownFrame ==
    ASSUME Known, UNCHANGED <<cwd, core, saved, previous>>, pc' = pc \/ pc' \notin {"cd", "dash"}
    PROVE  Known'
  BY DEF Known

\* A change of directory goes to a directory, and remembers the one it leaves.
LEMMA CdKnown == ASSUME Known, Texts, Cd PROVE Known'
  <1>1. /\ pc \in {"cd", "dash"} /\ pc' = "prompt" /\ UNCHANGED <<core, saved>>
        /\ \E paths : ChangeDir(paths)
    BY Zenon DEF Cd
  <1>2. PICK paths : ChangeDir(paths) BY <1>1
  <1>3. saved = cwd /\ Len(saved) < LineMax BY <1>1 DEF Known, Texts, BufferTexts
  <1>4. CASE UNCHANGED <<cwd, previous>> BY <1>1, <1>4 DEF Known
  <1>5. CASE \E p \in paths : \E d \in ChdirTo(p) : cwd' = d /\ RecordPrevious(saved)
    <2>1. PICK p \in paths : \E d \in ChdirTo(p) : cwd' = d /\ RecordPrevious(saved) BY <1>5
    <2>a. PICK d \in ChdirTo(p) : cwd' = d /\ RecordPrevious(saved) BY <2>1
    <2>2. p \in DOMAIN Places /\ d = Places[p] BY <2>a DEF ChdirTo, Found
    <2>3. cwd' \in Directories BY <2>a, <2>2 DEF Directories
    <2>4. previous' = cwd BY <1>3, <2>a DEF RecordPrevious
    <2> QED BY <1>1, <2>3, <2>4 DEF Known
  <1> QED BY <1>2, <1>4, <1>5 DEF ChangeDir

LEMMA NextKeepsKnown == ASSUME Known, Texts, [Next]_vars PROVE Known'
  <1>1. CASE PrintPrompt
    <2>1. core' = PromptCore(cwd) \/ core' = << >> BY <1>1 DEF PrintPrompt
    <2>2. core' \in Cores BY <2>1 DEF Known, Cores
    <2>3. pc' = "read" /\ saved' = << >> /\ previous' = previous /\ cwd' = cwd
      BY <1>1 DEF PrintPrompt, DropCommand, envVars
    <2> QED BY <2>2, <2>3 DEF Known
  <1>2. CASE ReadLine
    <2>1. pc' \notin {"cd", "dash"} BY <1>2, BranchTarget DEF ReadLine
    <2>2. UNCHANGED <<cwd, core, saved, previous>> BY <1>2 DEF ReadLine
    <2> QED BY <2>1, <2>2, KnownFrame
  <1>3. CASE SaveCwd
    <2>1. UNCHANGED <<core, previous, cwd>> BY <1>3 DEF SaveCwd, envVars
    <2>2. (saved' = cwd) \/ (pc' = "prompt" /\ saved' = saved) BY <1>3 DEF SaveCwd
    <2> QED BY <2>1, <2>2 DEF Known
  <1>4. CASE ReadInterrupted \/ ReadNothing \/ Kill \/ OpenRedirection \/ SeekToEnd \/ AllOpen \/ Spawn
             \/ WaitChild \/ CloseAfterChild
    <2>1. UNCHANGED <<cwd, core, saved, previous>>
      BY <1>4 DEF ReadInterrupted, ReadNothing, Kill, OpenRedirection, SeekToEnd, AllOpen, Spawn, WaitChild,
                  CloseAfterChild, envVars
    <2>2. pc' = pc \/ pc' \notin {"cd", "dash"}
      BY <1>4 DEF ReadInterrupted, ReadNothing, Kill, OpenRedirection, RefuseOpen, SeekToEnd, AllOpen, Spawn,
                  WaitChild, CloseAfterChild
    <2> QED BY <2>1, <2>2, KnownFrame
  <1>5. CASE Enter \/ Break \/ Reroute \/ ChildReads \/ ChildEnds \/ OtherDirs \/ UNCHANGED vars
    <2>1. UNCHANGED <<cwd, core, saved, previous, pc>>
      BY <1>5 DEF Enter, Break, Reroute, ChildReads, ChildEnds, OtherDirs, shellVars, vars
    <2> QED BY <2>1, KnownFrame
  <1> QED BY <1>1, <1>2, <1>3, <1>4, <1>5, CdKnown DEF Next, ShellStep

\* What stands in front of the cursor is a prompt or nothing.
LEMMA OnScreenIs == ASSUME Known, NEW p \in OnScreen PROVE p \in Fronts
  <1>1. SpaceC = " " BY DEF SpaceC
  <1>2. DefaultCore \o <<" ">> = Shows(RootName) BY RootNamed, <1>1, Zenon DEF Shows
  <1>3. \A d : PromptCore(d) \o <<" ">> = Shows(d) BY <1>1, Zenon DEF Shows
  <1>4. \/ p = << >>
        \/ p = DefaultCore \o <<" ">>
        \/ core # << >> /\ p = core \o <<" ">>
        \/ previous # << >> /\ p = PromptCore(previous) \o <<" ">>
    BY Zenon DEF OnScreen
  <1>5. RootName \in Shown /\ \A d \in Directories : d \in Shown BY DEF Shown
  <1>6. CASE p = << >> BY <1>6 DEF Fronts
  <1>7. CASE p = DefaultCore \o <<" ">> BY <1>2, <1>5, <1>7, Zenon DEF Fronts
  <1>8. CASE core # << >> /\ p = core \o <<" ">>
    <2>1. PICK d \in Directories : core = PromptCore(d) BY <1>8 DEF Known, Cores
    <2> QED BY <1>3, <1>5, <1>8, <2>1, Zenon DEF Fronts
  <1>9. CASE previous # << >> /\ p = PromptCore(previous) \o <<" ">>
    <2>1. previous \in Directories BY <1>9 DEF Known
    <2> QED BY <1>3, <1>5, <1>9, <2>1, Zenon DEF Fronts
  <1> QED BY <1>4, <1>6, <1>7, <1>8, <1>9

\* What a read leaves of a line is not a whole line.
LEMMA LeftoverTidy ==
    ASSUME NEW e \in Entries
    PROVE  Leftover(e) \in Seq(Tidy)
  <1>1. CASE Leftover(e) = << >> BY <1>1
  <1>2. CASE Leftover(e) # << >>
    <2> DEFINE rest == SubSeq(e.text, LineMax, Len(e.text))
               x    == [e EXCEPT !.text = rest, !.whole = FALSE]
    <2>1. ~(Len(e.text) < LineMax) /\ Leftover(e) = <<x>> BY <1>2 DEF Leftover
    <2>2. e.text \in Seq(Chars) /\ Len(e.text) \in Nat /\ LineMax \in 1 .. Len(e.text) + 1 /\ Len(e.text) \in LineMax - 1 .. Len(e.text)
      BY <2>1, CommandLineAssumption, LenProperties DEF Entries
    <2>3. rest \in Seq(Chars)
      <3> DEFINE t == e.text
                 i == LineMax
      <3>1. t \in Seq(Chars) /\ i \in 1 .. Len(t) + 1 /\ Len(t) \in i - 1 .. Len(t) BY <2>2
      <3> HIDE DEF t, i
      <3>2. SubSeq(t, i, Len(t)) \in Seq(Chars) BY <3>1, Piece
      <3> QED BY <3>2 DEF t, i
    <2> HIDE DEF rest
    <2>4. x \in Entries /\ x.whole = FALSE BY <2>3 DEF Entries
    <2> HIDE DEF x
    <2>5. x \in Tidy BY <2>4 DEF Tidy
    <2> QED BY <2>1, <2>5
  <1> QED BY <1>1, <1>2

LEMMA NextKeepsLines == ASSUME Lines, Known, [Next]_vars PROVE Lines'
  <1>1. CASE Enter
    <2>1. PICK t \in Typed, p \in OnScreen :
             queue' = Append(queue, [text |-> p \o t \o <<"\r">>, typed |-> t, whole |-> TRUE])
      BY <1>1 DEF Enter
    <2>2. p \in Fronts BY OnScreenIs
    <2> DEFINE x == Raw(p, t)
    <2>3. p \o t \o <<"\r">> = x BY Zenon DEF Raw, ReturnC
    <2>4. x \in Seq(Chars) BY <2>2, FrontIs, TypedIs, RawIs
    <2> DEFINE e == [text |-> x, typed |-> t, whole |-> TRUE]
    <2>5. queue' = Append(queue, e) BY <2>1, <2>3
    <2>6. e \in Entries /\ e.text = x /\ e.typed = t BY <2>4 DEF Entries
    <2> HIDE DEF e
    <2>7. e \in Tidy BY <2>2, <2>6 DEF Tidy
    <2> QED BY <2>5, <2>7, AppendProperties DEF Lines
  <1>2. CASE ReadLine
    <2> DEFINE e == Head(queue)
               a == Leftover(e)
               b == Tail(queue)
    <2>1. queue # << >> /\ queue' = a \o b BY <1>2 DEF ReadLine
    <2>2. e \in Tidy /\ b \in Seq(Tidy) BY <2>1, HeadTailProperties DEF Lines
    <2>3. a \in Seq(Tidy)
      <3>1. e \in Entries BY <2>2 DEF Tidy
      <3> QED BY <3>1, LeftoverTidy
    <2> HIDE DEF a, b
    <2>4. a \o b \in Seq(Tidy) BY <2>2, <2>3, ConcatProperties
    <2> QED BY <2>1, <2>4 DEF Lines
  <1>3. CASE ChildReads
    <2>1. queue # << >> /\ queue' = Tail(queue) BY <1>3 DEF ChildReads
    <2> QED BY <2>1, HeadTailProperties DEF Lines
  <1>4. CASE ~(Enter \/ ReadLine \/ ChildReads)
    <2>1. UNCHANGED queue
      BY <1>4 DEF Next, ShellStep, PrintPrompt, ReadInterrupted, Kill, SaveCwd, Cd, OpenRedirection, SeekToEnd, AllOpen,
                  Spawn, WaitChild, CloseAfterChild, ReadNothing, Break, Reroute, ChildEnds, OtherDirs, envVars, vars
    <2> QED BY <2>1 DEF Lines
  <1> QED BY <1>1, <1>2, <1>3, <1>4

\* Where a command is being executed, and what stands for which command.
Busy == {"kill", "cd_getcwd", "dash_getcwd", "cd", "dash", "open", "seek", "spawn", "wait", "close"}
Dash(ws) == Len(ws) = 2 /\ ws[2] = <<"-">>
MeantBy(m) ==
    LET ws == m.words IN
    /\ m.ok /\ plan = m.plan /\ ws \in Seq(Solid) /\ ws # << >> /\ command.args = Tail(ws)
    /\ \E c : /\ Calls(ws[1], c) /\ command.id = c.id
              /\ pc \in {"cd_getcwd", "dash_getcwd", "cd", "dash"} => c.name = CdName
    /\ pc \in {"cd_getcwd", "cd"} => ~Dash(ws)
    /\ pc \in {"dash_getcwd", "dash"} => Dash(ws) /\ previous # << >>
Meant == current.whole /\ pc \in Busy => MeantBy(TypedMeaning)

\* Where the loop goes says what was resolved.
LEMMA BranchIs ==
    ASSUME NEW t, NEW p
    PROVE  LET b == Branch(t, p)
               r == Resolve(t) IN
           /\ b # "prompt" => r.mode \notin {"NONE", "UNKNOWN"}
           /\ b \in {"cd_getcwd", "dash_getcwd"} => r.mode # "CHILD" /\ r.id # "kill"
           /\ b = "cd_getcwd" => ~IsCdDash(Arguments(t))
           /\ b = "dash_getcwd" => IsCdDash(Arguments(t)) /\ previous # << >>
           /\ b \in {"open", "spawn"} => (b = "open" <=> Redirected(p))
           /\ b \in {"prompt", "open", "spawn", "kill", "cd_getcwd", "dash_getcwd"}
  BY DEF Branch

\* A line that was read stands for the command that was typed.
LEMMA ReadMeant == ASSUME Lines, Known, ReadLine PROVE Meant'
  <1> SUFFICES ASSUME current'.whole, pc' \in Busy PROVE MeantBy(TypedMeaning)' BY DEF Meant
  <1> DEFINE e == Head(queue)
             s == ParseRedirections(CleanLine(Chunk(e), core))
             r == Resolve(s.command)
  <1>1. /\ queue # << >> /\ UNCHANGED <<core, previous>> /\ plan' = s.plan
        /\ current' = [typed |-> e.typed, whole |-> e.whole /\ Leftover(e) = << >>]
        /\ IF s.verdict = "ok"
           THEN pc' = Branch(s.command, s.plan) /\ command' = [id |-> r.id, args |-> ArgList(Arguments(s.command))]
           ELSE pc' = "prompt" /\ UNCHANGED command
    BY DEF ReadLine
  <1>2. e \in Tidy /\ e \in Entries BY <1>1, HeadTailProperties DEF Lines, Tidy
  <1> HIDE DEF e
  <1>3. e.whole /\ Leftover(e) = << >> /\ current'.typed = e.typed BY <1>1
  <1>4. PICK p \in Fronts : e.text = Raw(p, e.typed) BY <1>2, <1>3 DEF Tidy
  <1>5. e.typed \in Typed BY <1>2 DEF Entries
  <1>6. Len(e.text) < LineMax
    <2>1. ASSUME ~(Len(e.text) < LineMax) PROVE FALSE
      <3> DEFINE x == [e EXCEPT !.text = SubSeq(e.text, LineMax, Len(e.text)), !.whole = FALSE]
      <3>1. Leftover(e) = <<x>> BY <2>1, Zenon DEF Leftover
      <3> HIDE DEF x
      <3>2. <<x>> # << >> OBVIOUS
      <3> QED BY <1>3, <3>1, <3>2
    <2> QED BY <2>1
  <1>7. Chunk(e) = Raw(p, e.typed) BY <1>4, <1>6 DEF Chunk
  <1>8. core \in Cores BY DEF Known
  <1>9. s = ParseRedirections(CleanLine(Raw(p, e.typed), core)) BY <1>7, Zenon
  <1> HIDE DEF s, r
  <1>10. s.verdict = "ok" /\ pc' = Branch(s.command, s.plan) /\ pc' # "prompt" BY <1>1 DEF Busy
  <1>11. r.mode \notin {"NONE", "UNKNOWN"} BY <1>10, BranchIs DEF r
  <1>a. PICK m : m = Meaning(Sevens(e.typed)) OBVIOUS
  <1>12. Stands(m, s, r)
    <2> DEFINE z == ParseRedirections(CleanLine(Raw(p, e.typed), core))
    <2>1. z.verdict = "ok" /\ Resolve(z.command).mode \notin {"NONE", "UNKNOWN"} BY <1>9, <1>10, <1>11 DEF r
    <2>2. Len(Raw(p, e.typed)) < LineMax BY <1>4, <1>6
    <2>3. Stands(m, z, Resolve(z.command)) BY <1>5, <1>8, <1>a, <2>1, <2>2, LineStands
    <2> QED BY <1>9, <2>3 DEF r
  <1>13. TypedMeaning' = m
    <2>1. TypedMeaning' = Meaning([i \in DOMAIN current'.typed |-> Seven(current'.typed[i])]) BY DEF TypedMeaning
    <2> QED BY <1>3, <1>a, <2>1 DEF Sevens
  <1> DEFINE ws == m.words
  <1>14. /\ m.ok /\ s.plan = m.plan /\ ws \in Seq(Solid) /\ ws # << >>
         /\ ArgList(Arguments(s.command)) = Tail(ws)
         /\ \E c : Calls(ws[1], c) /\ r.id = c.id /\ r.mode = c.mode
         /\ IsCdDash(Arguments(s.command)) <=> Dash(ws)
    BY <1>12, Zenon DEF Stands, Dash
  <1>15. command'.id = r.id /\ command'.args = Tail(ws) BY <1>1, <1>10, <1>14
  <1>16. PICK c : Calls(ws[1], c) /\ r.id = c.id /\ r.mode = c.mode BY <1>14
  <1>17. ASSUME pc' \in {"cd_getcwd", "dash_getcwd"} PROVE c.name = CdName
    <2>1. r.mode # "CHILD" /\ r.id # "kill" BY <1>10, <1>17, BranchIs DEF r
    <2>2. EntryOk(c) BY <1>16, CommandFacts DEF Calls
    <2> QED BY <1>16, <2>1, <2>2 DEF EntryOk
  <1>18. pc' \notin {"cd", "dash"} BY <1>10, BranchIs
  <1>19. pc' = "cd_getcwd" => ~Dash(ws) BY <1>10, <1>14, BranchIs
  <1>20. pc' = "dash_getcwd" => Dash(ws) /\ previous' # << >> BY <1>1, <1>10, <1>14, BranchIs
  <1>21. MeantBy(m)'
    BY <1>1, <1>10, <1>14, <1>15, <1>16, <1>17, <1>18, <1>19, <1>20 DEF MeantBy
  <1> QED BY <1>13, <1>21 DEF MeantBy

\* Which change of directory a step belongs to.
CdPhase(q) == IF q \in {"cd_getcwd", "cd"} THEN "cd" ELSE IF q \in {"dash_getcwd", "dash"} THEN "dash" ELSE "none"

\* A step that goes on with the command keeps what it means.
LEMMA MeantFrame ==
    ASSUME Meant, UNCHANGED <<current, plan, command>>,
           \/ pc' \notin Busy
           \/ pc \in Busy /\ previous' = previous /\ CdPhase(pc') \in {CdPhase(pc), "none"}
    PROVE  Meant'
  <1> SUFFICES ASSUME current.whole, pc' \in Busy PROVE MeantBy(TypedMeaning)' BY DEF Meant
  <1>1. pc \in Busy /\ previous' = previous /\ CdPhase(pc') \in {CdPhase(pc), "none"} OBVIOUS
  <1>2. MeantBy(TypedMeaning) BY <1>1 DEF Meant
  <1>3. TypedMeaning' = TypedMeaning BY DEF TypedMeaning
  <1>4. PICK m : m = TypedMeaning OBVIOUS
  <1>5. MeantBy(m) BY <1>2, <1>4
  <1>6. /\ pc' \in {"cd_getcwd", "cd"} => pc \in {"cd_getcwd", "cd"}
        /\ pc' \in {"dash_getcwd", "dash"} => pc \in {"dash_getcwd", "dash"}
    BY <1>1, Zenon DEF CdPhase
  <1> DEFINE ws == m.words
  <1>7. PICK c : /\ Calls(ws[1], c) /\ command.id = c.id
                 /\ pc \in {"cd_getcwd", "dash_getcwd", "cd", "dash"} => c.name = CdName
    BY <1>5 DEF MeantBy
  <1>8. /\ m.ok /\ plan' = m.plan /\ ws \in Seq(Solid) /\ ws # << >> /\ command'.args = Tail(ws)
        /\ Calls(ws[1], c) /\ command'.id = c.id
        /\ pc' \in {"cd_getcwd", "dash_getcwd", "cd", "dash"} => c.name = CdName
        /\ pc' \in {"cd_getcwd", "cd"} => ~Dash(ws)
        /\ pc' \in {"dash_getcwd", "dash"} => Dash(ws) /\ previous' # << >>
    BY <1>1, <1>5, <1>6, <1>7 DEF MeantBy
  <1>9. MeantBy(m)' BY <1>8 DEF MeantBy
  <1> QED BY <1>3, <1>4, <1>9 DEF MeantBy

LEMMA NextKeepsMeant == ASSUME Meant, Lines, Known, [Next]_vars PROVE Meant'
  <1>1. CASE ReadLine BY <1>1, ReadMeant
  <1>2. CASE PrintPrompt
    <2>1. pc' = "read" BY <1>2 DEF PrintPrompt
    <2> QED BY <2>1 DEF Meant, Busy
  <1>3. CASE ReadInterrupted \/ ReadNothing \/ Kill \/ Cd \/ CloseAfterChild
    <2>1. pc' \in {"prompt", "gone"}
      BY <1>3 DEF ReadInterrupted, ReadNothing, Kill, Cd, CloseAfterChild
    <2> QED BY <2>1 DEF Meant, Busy
  <1>4. CASE SaveCwd
    <2>1. UNCHANGED <<current, plan, command, previous>> BY <1>4 DEF SaveCwd
    <2>2. pc' = "prompt" \/ (pc = "cd_getcwd" /\ pc' = "cd") \/ (pc = "dash_getcwd" /\ pc' = "dash")
      BY <1>4 DEF SaveCwd
    <2>3. pc' \notin Busy \/ (pc \in Busy /\ CdPhase(pc') \in {CdPhase(pc), "none"})
      BY <2>2 DEF Busy, CdPhase
    <2> QED BY <2>1, <2>3, MeantFrame
  <1>5. CASE OpenRedirection \/ SeekToEnd \/ AllOpen \/ Spawn \/ WaitChild
    <2>1. UNCHANGED <<current, plan, command, previous>>
      BY <1>5 DEF OpenRedirection, SeekToEnd, AllOpen, Spawn, WaitChild
    <2>2. pc \in {"open", "seek", "spawn", "wait"} /\ pc' \in {"prompt", "open", "seek", "spawn", "wait", "close"}
      BY <1>5 DEF OpenRedirection, RefuseOpen, SeekToEnd, AllOpen, Spawn, WaitChild
    <2>3. pc' \notin Busy \/ (pc \in Busy /\ CdPhase(pc') \in {CdPhase(pc), "none"})
      BY <2>2 DEF Busy, CdPhase
    <2> QED BY <2>1, <2>3, MeantFrame
  <1>6. CASE Enter \/ Break \/ Reroute \/ ChildReads \/ ChildEnds \/ OtherDirs \/ UNCHANGED vars
    <2>1. UNCHANGED <<current, plan, command, previous, pc>>
      BY <1>6 DEF Enter, Break, Reroute, ChildReads, ChildEnds, OtherDirs, shellVars, vars
    <2> QED BY <2>1, MeantFrame
  <1> QED BY <1>1, <1>2, <1>3, <1>4, <1>5, <1>6 DEF Next, ShellStep

\* The stream that a redirection stands for.
Stream(r) == IF r.mode = "NONE" THEN Console ELSE [File(r) EXCEPT !.atEnd = (r.mode = "APPEND")]

\* The files opened so far are those the plan names, in their modes.
Opened ==
    /\ \A f \in Std : fds[f] = Console
    /\ pc \in {"open", "seek", "spawn"} =>
          \A i \in Std : redir[i] # Closed => plan[i].mode # "NONE" /\ fds[redir[i]] = Stream(plan[i])
    /\ pc = "spawn" => \A i \in Std : plan[i].mode # "NONE" => redir[i] # Closed
    /\ pc = "seek" => \A i \in Std : ToOpen(i) => plan[i].mode = "APPEND" /\ fds[opened] = File(plan[i])

LEMMA InitOpened == Init => Opened
  <1> SUFFICES ASSUME Init PROVE Opened OBVIOUS
  <1>1. fds = StdFds /\ pc = "prompt" BY DEF Init
  <1>2. \A f \in Std : f \in 0 .. MaxFds - 1 BY ShellAssumption DEF Std
  <1>3. \A f \in Std : fds[f] = Console BY <1>1, <1>2 DEF StdFds
  <1> QED BY <1>1, <1>3 DEF Opened

\* A step that leaves the descriptors alone keeps what they stand for.
LEMMA OpenedFrame ==
    ASSUME Opened, UNCHANGED <<redir, opened, fds, plan>>,
           \/ pc' = pc
           \/ pc' \notin {"open", "seek", "spawn"}
    PROVE  Opened'
  BY DEF Opened, ToOpen

\* Closing the redirections leaves the console on the standard descriptors.
LEMMA CloseOpened ==
    ASSUME Opened, Inv, CloseRedirections, pc' \notin {"open", "seek", "spawn"}
    PROVE  Opened'
  <1>1. fds' = [f \in DOMAIN fds |-> IF f = opened \/ \E i \in Std : redir[i] = f THEN Free ELSE fds[f]]
    BY DEF CloseRedirections
  <1>a. DOMAIN fds = 0 .. MaxFds - 1 BY DEF Inv, Shapes
  <1>b. \A f \in Std : f \in 0 .. MaxFds - 1 /\ f # Closed BY ShellAssumption DEF Std, Closed
  <1>2. DOMAIN fds = 0 .. MaxFds - 1 /\ \A f \in Std : f \in 0 .. MaxFds - 1 /\ f # Closed
    BY <1>a, <1>b
  <1>3. ASSUME NEW f \in Std PROVE fds'[f] = Console
    <2>1. f # opened /\ \A i \in Std : redir[i] # f BY <1>2 DEF Inv, DescriptorsOwned
    <2>2. fds'[f] = fds[f] BY <1>1, <1>2, <2>1
    <2> QED BY <2>2 DEF Opened
  <1> QED BY <1>3 DEF Opened

\* A line without redirections opens nothing before it runs.
LEMMA ReadOpened == ASSUME Opened, Inv, Texts, ReadLine PROVE Opened'
  <1>1. UNCHANGED <<fds, opened>> /\ redir' = [f \in Std |-> Closed] BY DEF ReadLine
  <1>2. \E t : pc' = "prompt" \/ pc' = Branch(t, plan') BY Zenon DEF ReadLine
  <1>3. PICK t : pc' = "prompt" \/ pc' = Branch(t, plan') BY <1>2
  <1>4. pc' # "seek"
    BY <1>3, BranchTarget
  <1>5. pc' = "spawn" => ~Redirected(plan') BY <1>3, BranchIs
  <1>6. pc' = "spawn" => \A i \in Std : plan'[i].mode = "NONE" BY <1>5 DEF Redirected, Std
  <1>7. \A i \in Std : redir'[i] = Closed BY <1>1
  <1> QED BY <1>1, <1>4, <1>6, <1>7 DEF Opened

\* A field that is set to what it is.
LEMMA AtEndOf ==
    ASSUME NEW k, NEW p, NEW m, NEW e, NEW q, q = [kind |-> k, path |-> p, mode |-> m, atEnd |-> e]
    PROVE  [q EXCEPT !.atEnd = e] = q
  OBVIOUS

\* The stream that a redirection stands for, in its fields.
LEMMA StreamIs ==
    ASSUME NEW r \in Redirections, r.mode # "NONE"
    PROVE  /\ r.mode # "APPEND" => File(r) = Stream(r)
           /\ r.mode = "APPEND" => [File(r) EXCEPT !.atEnd = TRUE] = Stream(r)
  <1>2. Stream(r) = [File(r) EXCEPT !.atEnd = (r.mode = "APPEND")] BY DEF Stream
  <1>3. File(r) = [kind |-> "file", path |-> r.path, mode |-> r.mode, atEnd |-> FALSE] BY DEF File
  <1>4. CASE r.mode = "APPEND"
    <2>1. (r.mode = "APPEND") = TRUE BY <1>4
    <2> QED BY <1>2, <1>4, <2>1
  <1>5. CASE r.mode # "APPEND"
    <2>1. (r.mode = "APPEND") = FALSE BY <1>5
    <2>2. Stream(r) = [File(r) EXCEPT !.atEnd = FALSE] BY <1>2, <2>1
    <2>3. PICK e : e = FALSE OBVIOUS
    <2>4. PICK q : q = [kind |-> "file", path |-> r.path, mode |-> r.mode, atEnd |-> e] OBVIOUS
    <2>5. [q EXCEPT !.atEnd = e] = q BY <2>4, AtEndOf
    <2>6. File(r) = q BY <1>3, <2>3, <2>4, Zenon
    <2>7. Stream(r) = [q EXCEPT !.atEnd = e] BY <2>2, <2>3, <2>6, Zenon
    <2>8. Stream(r) = File(r) BY <2>5, <2>6, <2>7, Zenon
    <2> QED BY <1>5, <2>8, Zenon
  <1> QED BY <1>4, <1>5

\* One stream at a time is the next to be opened.
LEMMA OneToOpen == \A i, j \in Std : ToOpen(i) /\ ToOpen(j) => i = j
  BY DEF ToOpen, Std

\* In order, so that none is left when there is no next one.
LEMMA NoneLeft ==
    ASSUME \A i \in Std : ~ToOpen(i)
    PROVE  \A i \in Std : plan[i].mode # "NONE" => redir[i] # Closed
  <1> DEFINE Done(i) == plan[i].mode = "NONE" \/ redir[i] # Closed
  <1>1. \A i \in Std : (\A j \in Std : j < i => Done(j)) => Done(i) BY DEF ToOpen
  <1> HIDE DEF Done
  <1>2. Done(0) BY <1>1 DEF Std
  <1>3. Done(1) BY <1>1, <1>2 DEF Std
  <1>4. Done(2) BY <1>1, <1>2, <1>3 DEF Std
  <1>5. \A i \in Std : i = 0 \/ i = 1 \/ i = 2 BY DEF Std
  <1> QED BY <1>2, <1>3, <1>4, <1>5 DEF Done

\* neosh_open_redirection opens the file of the plan, in its mode.
LEMMA OpenOpened == ASSUME Opened, Inv, plan \in Plans, OpenRedirection PROVE Opened'
  <1>1. pc = "open" /\ plan' = plan BY DEF OpenRedirection
  <1>2. CASE RefuseOpen
    <2>1. CloseRedirections /\ pc' = "prompt" BY <1>2 DEF RefuseOpen
    <2> QED BY <2>1, CloseOpened
  <1>3. CASE \E i \in Std : /\ ToOpen(i)
                            /\ \E f \in 0 .. MaxFds - 1 :
                               /\ FreeFd(f)
                               /\ fds' = [fds EXCEPT ![f] = File(plan[i])]
                               /\ IF plan[i].mode = "APPEND"
                                  THEN pc' = "seek" /\ opened' = f /\ UNCHANGED redir
                                  ELSE redir' = [redir EXCEPT ![i] = f] /\ UNCHANGED <<pc, opened>>
    <2>1. PICK i \in Std, f \in 0 .. MaxFds - 1 :
             /\ ToOpen(i) /\ FreeFd(f) /\ fds' = [fds EXCEPT ![f] = File(plan[i])]
             /\ IF plan[i].mode = "APPEND"
                THEN pc' = "seek" /\ opened' = f /\ UNCHANGED redir
                ELSE redir' = [redir EXCEPT ![i] = f] /\ UNCHANGED <<pc, opened>>
      BY <1>3
    <2>2. fds[f].kind = "free" /\ f \notin Std /\ \A j \in Std : redir[j] # f
      BY <2>1 DEF FreeFd, Inv, DescriptorsOwned
    <2>3. /\ DOMAIN fds = 0 .. MaxFds - 1 /\ \A j \in Std : redir[j] # Closed => redir[j] \in 0 .. MaxFds - 1
          /\ DOMAIN redir = Std /\ f # Closed
      <3>1. f # Closed BY ShellAssumption DEF Closed
      <3>2. DOMAIN fds = 0 .. MaxFds - 1 /\ redir \in [Std -> FdValues] BY DEF Inv, Shapes
      <3> QED BY <3>1, <3>2 DEF FdValues
    <2>4. fds'[f] = File(plan[i]) BY <2>1, <2>3
    <2>5. \A g \in 0 .. MaxFds - 1 : g # f => fds'[g] = fds[g] BY <2>1, <2>3
    <2>6. \A g \in Std : g \in 0 .. MaxFds - 1 BY ShellAssumption DEF Std
    <2>7. \A g \in Std : fds'[g] = Console BY <2>2, <2>5, <2>6 DEF Opened
    <2>8. plan[i] \in Redirections /\ plan[i].mode # "NONE" BY <2>1 DEF Plans, Std, ToOpen
    <2>9. \A j \in Std : redir[j] # Closed => plan[j].mode # "NONE" /\ fds'[redir[j]] = Stream(plan[j])
      BY <1>1, <2>2, <2>3, <2>5 DEF Opened
    <2>10. CASE plan[i].mode = "APPEND"
      <3>1. pc' = "seek" /\ opened' = f /\ redir' = redir BY <2>1, <2>10
      <3>2. ASSUME NEW j \in Std, ToOpen(j)' PROVE plan'[j].mode = "APPEND" /\ fds'[opened'] = File(plan'[j])
        <4>1. ToOpen(j) BY <3>1, <3>2, <1>1 DEF ToOpen
        <4>2. j = i BY <4>1, <2>1, OneToOpen
        <4> QED BY <1>1, <2>4, <2>10, <3>1, <4>2
      <3> QED BY <1>1, <2>7, <2>9, <3>1, <3>2 DEF Opened
    <2>11. CASE plan[i].mode # "APPEND"
      <3>1. pc' = "open" /\ redir' = [redir EXCEPT ![i] = f] BY <1>1, <2>1, <2>11
      <3>2. redir'[i] = f /\ \A j \in Std : j # i => redir'[j] = redir[j] BY <2>3, <3>1
      <3>3. fds'[f] = Stream(plan[i]) BY <2>4, <2>8, <2>11, StreamIs
      <3>4. \A j \in Std : redir'[j] # Closed => plan'[j].mode # "NONE" /\ fds'[redir'[j]] = Stream(plan'[j])
        BY <1>1, <2>8, <2>9, <3>2, <3>3
      <3> QED BY <2>7, <3>1, <3>4 DEF Opened
    <2> QED BY <2>10, <2>11
  <1> QED BY <1>2, <1>3 DEF OpenRedirection

\* The seek puts the file to append to at its end.
LEMMA SeekOpened == ASSUME Opened, Inv, plan \in Plans, SeekToEnd PROVE Opened'
  <1>1. pc = "seek" /\ plan' = plan BY DEF SeekToEnd
  <1>2. CASE RefuseOpen
    <2>1. CloseRedirections /\ pc' = "prompt" BY <1>2 DEF RefuseOpen
    <2> QED BY <2>1, CloseOpened
  <1>3. CASE /\ fds' = [fds EXCEPT ![opened].atEnd = TRUE]
             /\ redir' = [i \in Std |-> IF ToOpen(i) THEN opened ELSE redir[i]]
             /\ opened' = Closed /\ pc' = "open"
    <2>1. opened # Closed /\ opened \in 0 .. MaxFds - 1 /\ opened \notin Std
      BY <1>1 DEF Inv, Shapes, SeekHasStream, DescriptorsOwned, FdValues
    <2>2. /\ DOMAIN fds = 0 .. MaxFds - 1
          /\ \A j \in Std : redir[j] # Closed => redir[j] \in 0 .. MaxFds - 1 /\ redir[j] # opened
      BY DEF Inv, Shapes, FdValues, DescriptorsOwned
    <2>3. fds'[opened] = [fds[opened] EXCEPT !.atEnd = TRUE] BY <1>3, <2>1, <2>2
    <2>4. \A g \in 0 .. MaxFds - 1 : g # opened => fds'[g] = fds[g] BY <1>3, <2>2
    <2>5. \A g \in Std : g \in 0 .. MaxFds - 1 BY ShellAssumption DEF Std
    <2>6. \A g \in Std : fds'[g] = Console BY <2>1, <2>4, <2>5 DEF Opened
    <2>7. ASSUME NEW j \in Std, redir'[j] # Closed
          PROVE  plan[j].mode # "NONE" /\ fds'[redir'[j]] = Stream(plan[j])
      <3>1. CASE ToOpen(j)
        <4>1. redir'[j] = opened BY <1>3, <3>1
        <4>2. plan[j] \in Redirections /\ plan[j].mode = "APPEND" /\ fds[opened] = File(plan[j])
          BY <1>1, <3>1 DEF Opened, Plans, Std
        <4>3. fds'[opened] = [File(plan[j]) EXCEPT !.atEnd = TRUE] BY <2>3, <4>2
        <4>4. [File(plan[j]) EXCEPT !.atEnd = TRUE] = Stream(plan[j]) BY <4>2, StreamIs
        <4> QED BY <4>1, <4>2, <4>3, <4>4
      <3>2. CASE ~ToOpen(j)
        <4>1. redir'[j] = redir[j] BY <1>3, <3>2
        <4>2. plan[j].mode # "NONE" /\ fds[redir[j]] = Stream(plan[j]) BY <1>1, <2>7, <4>1 DEF Opened
        <4>3. fds'[redir[j]] = fds[redir[j]] BY <2>2, <2>4, <2>7, <4>1
        <4> QED BY <4>1, <4>2, <4>3
      <3> QED BY <3>1, <3>2
    <2> QED BY <1>1, <1>3, <2>6, <2>7 DEF Opened
  <1> QED BY <1>2, <1>3 DEF SeekToEnd

LEMMA NextKeepsOpened == ASSUME Opened, Inv, Texts, [Next]_vars PROVE Opened'
  <1>0. plan \in Plans BY DEF Texts
  <1>1. CASE AllOpen
    <2>1. UNCHANGED <<redir, fds, plan>> /\ pc = "open" /\ pc' = "spawn" /\ \A i \in Std : ~ToOpen(i)
      BY <1>1 DEF AllOpen
    <2>2. \A i \in Std : plan[i].mode # "NONE" => redir[i] # Closed BY <2>1, NoneLeft
    <2> QED BY <2>1, <2>2 DEF Opened
  <1>2. CASE Spawn
    <2>1. CASE CloseRedirections /\ pc' = "prompt" BY <2>1, CloseOpened
    <2>2. CASE UNCHANGED <<fds, redir, opened>> /\ pc' = "wait"
      <3>1. plan' = plan BY <1>2 DEF Spawn
      <3> QED BY <2>2, <3>1, OpenedFrame
    <2> QED BY <1>2, <2>1, <2>2 DEF Spawn
  <1>3. CASE CloseAfterChild
    <2>1. CloseRedirections /\ pc' = "prompt" BY <1>3 DEF CloseAfterChild
    <2> QED BY <2>1, CloseOpened
  <1>4. CASE PrintPrompt
    <2>1. fds' = fds /\ pc' = "read" BY <1>4 DEF PrintPrompt
    <2> QED BY <2>1 DEF Opened
  <1>5. CASE ReadInterrupted \/ ReadNothing \/ Kill \/ SaveCwd \/ Cd \/ WaitChild
    <2>1. UNCHANGED <<redir, opened, fds, plan>>
      BY <1>5 DEF ReadInterrupted, ReadNothing, Kill, SaveCwd, Cd, WaitChild
    <2>2. pc' \notin {"open", "seek", "spawn"}
      BY <1>5 DEF ReadInterrupted, ReadNothing, Kill, SaveCwd, Cd, WaitChild
    <2> QED BY <2>1, <2>2, OpenedFrame
  <1>6. CASE Enter \/ Break \/ Reroute \/ ChildReads \/ ChildEnds \/ OtherDirs \/ UNCHANGED vars
    <2>1. UNCHANGED <<redir, opened, fds, plan, pc>>
      BY <1>6 DEF Enter, Break, Reroute, ChildReads, ChildEnds, OtherDirs, shellVars, vars
    <2> QED BY <2>1, OpenedFrame
  <1> QED BY <1>0, <1>1, <1>2, <1>3, <1>4, <1>5, <1>6, ReadOpened, OpenOpened, SeekOpened DEF Next, ShellStep

\* The child is the command that was resolved, on the streams of the plan.
ChildIs ==
    child.state # "NONE" =>
        child.id = command.id /\ child.args = command.args /\ child.std = [i \in Std |-> Stream(plan[i])]

\* A step that keeps the command, the plan and the child, or ends it.
LEMMA ChildFrame ==
    ASSUME ChildIs,
           \/ child'.state = "NONE"
           \/ /\ UNCHANGED <<command, plan>> /\ child.state # "NONE"
              /\ child'.id = child.id /\ child'.args = child.args /\ child'.std = child.std
    PROVE  ChildIs'
  BY DEF ChildIs

\* The streams that the child inherits are those of the plan.
LEMMA SpawnedChild == ASSUME Opened, pc = "spawn" PROVE ChildStd = [i \in Std |-> Stream(plan[i])]
  <1>1. ASSUME NEW i \in Std
        PROVE  (IF redir[i] = Closed THEN fds[i] ELSE fds[redir[i]]) = Stream(plan[i])
    <2>1. CASE redir[i] = Closed
      <3>1. plan[i].mode = "NONE" /\ fds[i] = Console BY <2>1 DEF Opened
      <3> QED BY <2>1, <3>1 DEF Stream
    <2>2. CASE redir[i] # Closed
      <3>1. fds[redir[i]] = Stream(plan[i]) BY <2>2 DEF Opened
      <3> QED BY <2>2, <3>1
    <2> QED BY <2>1, <2>2
  <1> QED BY <1>1 DEF ChildStd

LEMMA NextKeepsChild == ASSUME ChildIs, ConsoleInv, Opened, [Next]_vars PROVE ChildIs'
  <1>0. child.state # "NONE" <=> pc = "wait" BY DEF ConsoleInv, ConsoleFollowsChild
  <1>1. CASE Spawn
    <2>1. CASE child' = child
      <3>1. child'.state = "NONE" BY <1>0, <1>1, <2>1 DEF Spawn
      <3> QED BY <3>1, ChildFrame
    <2>2. CASE child' = [state |-> "LIVE", id |-> command.id, args |-> command.args, std |-> ChildStd, status |-> "OK"]
      <3>1. child'.id = command.id /\ child'.args = command.args /\ child'.std = ChildStd BY <2>2
      <3>2. pc = "spawn" /\ UNCHANGED <<command, plan>> BY <1>1 DEF Spawn
      <3>3. ChildStd = [i \in Std |-> Stream(plan[i])] BY <3>2, SpawnedChild
      <3> QED BY <3>1, <3>2, <3>3 DEF ChildIs
    <2> QED BY <1>1, <2>1, <2>2 DEF Spawn
  <1>2. CASE WaitChild
    <2>1. child'.state = "NONE" BY <1>2 DEF WaitChild, Reap, NoChild
    <2> QED BY <2>1, ChildFrame
  <1>3. CASE Break \/ ChildEnds
    <2>1. UNCHANGED <<command, plan>> BY <1>3 DEF Break, ChildEnds, shellVars
    <2>2. CASE child' = child BY <2>1, <2>2 DEF ChildIs
    <2>3. CASE child.state = "LIVE" /\ \E s : child' = [child EXCEPT !.state = "ZOMBIE", !.status = s]
      <3>1. PICK s : child' = [child EXCEPT !.state = "ZOMBIE", !.status = s] BY <2>3
      <3>2. child = [state |-> child.state, id |-> child.id, args |-> child.args, std |-> child.std,
                     status |-> child.status]
        BY DEF ConsoleInv, Shapes
      <3>3. child'.id = child.id /\ child'.args = child.args /\ child'.std = child.std BY <3>1, <3>2
      <3> QED BY <2>1, <2>3, <3>3, ChildFrame
    <2> QED BY <1>3, <2>2, <2>3 DEF Break, ChildEnds
  <1>4. CASE PrintPrompt \/ ReadLine
    <2>1. child' = child /\ pc # "wait" BY <1>4 DEF PrintPrompt, ReadLine, envVars
    <2> QED BY <1>0, <2>1, ChildFrame
  <1>5. CASE \/ ReadInterrupted \/ ReadNothing \/ Kill \/ SaveCwd \/ Cd \/ OpenRedirection \/ SeekToEnd \/ AllOpen
             \/ CloseAfterChild \/ Enter \/ Reroute \/ ChildReads \/ OtherDirs \/ UNCHANGED vars
    <2>1. UNCHANGED <<command, plan, child>>
      BY <1>5 DEF ReadInterrupted, ReadNothing, Kill, SaveCwd, Cd, OpenRedirection, SeekToEnd, AllOpen,
                  CloseAfterChild, Enter, Reroute, ChildReads, OtherDirs, envVars, shellVars, vars
    <2> QED BY <2>1 DEF ChildIs
  <1> QED BY <1>1, <1>2, <1>3, <1>4, <1>5 DEF Next, ShellStep

\* Only files that the line truncates have been truncated.
Emptied ==
    /\ pc = "read" => truncated = {}
    /\ current.whole => \A p \in truncated : \E i \in Std : TypedMeaning.plan[i] = [mode |-> "TRUNC", path |-> p]

LEMMA EmptiedFrame == ASSUME Emptied, UNCHANGED <<truncated, current>>, pc' # "read" \/ pc' = pc PROVE Emptied'
  <1>1. TypedMeaning' = TypedMeaning BY DEF TypedMeaning
  <1>2. PICK m : m = TypedMeaning OBVIOUS
  <1>3. /\ pc = "read" => truncated = {}
        /\ current.whole => \A p \in truncated : \E i \in Std : m.plan[i] = [mode |-> "TRUNC", path |-> p]
    BY <1>2 DEF Emptied
  <1>4. /\ pc' = "read" => truncated' = {}
        /\ current'.whole => \A p \in truncated' : \E i \in Std : m.plan[i] = [mode |-> "TRUNC", path |-> p]
    BY <1>3
  <1> QED BY <1>1, <1>2, <1>4 DEF Emptied

\* Opening a file to write truncates it, and only a > of the line does that.
LEMMA OpenEmptied == ASSUME Emptied, Meant, plan \in Plans, OpenRedirection PROVE Emptied'
  <1>1. pc = "open" /\ pc' # "read" /\ current' = current
    BY DEF OpenRedirection, RefuseOpen
  <1>2. TypedMeaning' = TypedMeaning BY <1>1 DEF TypedMeaning
  <1>3. PICK m : m = TypedMeaning OBVIOUS
  <1>4. CASE truncated' = truncated BY <1>1, <1>4, EmptiedFrame
  <1>5. CASE \E i \in Std :
                truncated' = truncated \cup {plan[j].path : j \in {i} \cap {k \in Std : plan[k].mode = "TRUNC"}}
    <2>1. ASSUME current.whole, NEW p \in truncated'
          PROVE  \E i \in Std : m.plan[i] = [mode |-> "TRUNC", path |-> p]
      <3>1. CASE p \in truncated BY <1>3, <2>1, <3>1 DEF Emptied
      <3>2. CASE p \notin truncated
        <4>1. PICK i \in Std :
                 truncated' = truncated \cup {plan[j].path : j \in {i} \cap {k \in Std : plan[k].mode = "TRUNC"}}
          BY <1>5
        <4>2. PICK j \in Std : plan[j].mode = "TRUNC" /\ p = plan[j].path BY <2>1, <3>2, <4>1
        <4>3. plan[j] \in Redirections BY DEF Plans, Std
        <4>4. plan[j] = [mode |-> "TRUNC", path |-> p] BY <4>2, <4>3 DEF Redirections
        <4>5. plan = m.plan BY <1>1, <1>3, <2>1 DEF Meant, MeantBy, Busy
        <4> QED BY <4>4, <4>5
      <3> QED BY <3>1, <3>2
    <2> QED BY <1>1, <1>2, <1>3, <2>1 DEF Emptied
  <1> QED BY <1>4, <1>5 DEF OpenRedirection

LEMMA NextKeepsEmptied == ASSUME Emptied, Meant, Texts, [Next]_vars PROVE Emptied'
  <1>1. CASE PrintPrompt
    <2>1. truncated' = {} BY <1>1 DEF PrintPrompt, DropCommand
    <2> QED BY <2>1 DEF Emptied
  <1>2. CASE ReadLine
    <2>1. truncated' = {} BY <1>2 DEF ReadLine, Emptied
    <2> QED BY <2>1 DEF Emptied
  <1>3. CASE \/ ReadInterrupted \/ ReadNothing \/ Kill \/ SaveCwd \/ Cd \/ SeekToEnd \/ AllOpen \/ Spawn \/ WaitChild
             \/ CloseAfterChild
    <2>1. UNCHANGED <<truncated, current>> /\ pc' # "read"
      BY <1>3 DEF ReadInterrupted, ReadNothing, Kill, SaveCwd, Cd, SeekToEnd, RefuseOpen, AllOpen, Spawn, WaitChild,
                  CloseAfterChild
    <2> QED BY <2>1, EmptiedFrame
  <1>4. CASE Enter \/ Break \/ Reroute \/ ChildReads \/ ChildEnds \/ OtherDirs \/ UNCHANGED vars
    <2>1. UNCHANGED <<truncated, current, pc>>
      BY <1>4 DEF Enter, Break, Reroute, ChildReads, ChildEnds, OtherDirs, shellVars, vars
    <2> QED BY <2>1, EmptiedFrame
  <1>5. plan \in Plans BY DEF Texts
  <1> QED BY <1>1, <1>2, <1>3, <1>4, <1>5, OpenEmptied DEF Next, ShellStep

\* All of it together, from the keyboard to the child's streams.
Told == Known /\ Lines /\ Meant /\ Opened /\ ChildIs /\ Emptied
All  == Inv /\ TypeInv /\ ConsoleInv /\ Told

LEMMA InitAll == Init => All
  <1> SUFFICES ASSUME Init PROVE All OBVIOUS
  <1>1. ConsoleInv BY InitInv DEF Inv, ConsoleInv, Init, ConsoleFollowsChild, NoChild
  <1>2. Meant BY DEF Init, Meant, Busy
  <1>3. ChildIs BY DEF Init, ChildIs, NoChild
  <1>4. Emptied BY DEF Init, Emptied
  <1> QED BY <1>1, <1>2, <1>3, <1>4, InitInv, InitTyped, InitKnown, InitOpened DEF All, Told

LEMMA NextKeepsAll == All /\ [Next]_vars => All'
  <1> SUFFICES ASSUME All, [Next]_vars PROVE All' OBVIOUS
  <1>1. Inv /\ TypeInv /\ ConsoleInv /\ Texts BY DEF All, TypeInv
  <1>2. Known /\ Lines /\ Meant /\ Opened /\ ChildIs /\ Emptied BY DEF All, Told
  <1>3. Inv' /\ TypeInv' /\ ConsoleInv' BY <1>1, NextKeepsInv, NextKeepsTypes, NextKeepsConsole
  <1>4. Known' BY <1>1, <1>2, NextKeepsKnown
  <1>5. Lines' BY <1>2, NextKeepsLines
  <1>6. Meant' BY <1>2, NextKeepsMeant
  <1>7. Opened' BY <1>1, <1>2, NextKeepsOpened
  <1>8. ChildIs' BY <1>1, <1>2, NextKeepsChild
  <1>9. Emptied' BY <1>1, <1>2, NextKeepsEmptied
  <1> QED BY <1>3, <1>4, <1>5, <1>6, <1>7, <1>8, <1>9 DEF All, Told

LEMMA AllRunsWhatWasTyped == All => RunsWhatWasTyped
  <1> SUFFICES ASSUME All PROVE RunsWhatWasTyped OBVIOUS
  <1>1. ConsoleFollowsChild /\ Meant /\ ChildIs /\ Emptied BY DEF All, Told, ConsoleInv
  <1> DEFINE m == TypedMeaning
  <1>2. ASSUME current.whole, child.state # "NONE"
        PROVE  /\ m.ok /\ \E c \in Commands : c.id = child.id /\ TokenMatches(m.words[1], c.name)
               /\ child.args = Tail(m.words)
               /\ child.std = Streams(m)
    <2>1. pc \in Busy BY <1>1, <1>2 DEF ConsoleFollowsChild, Busy
    <2>2. MeantBy(m) BY <1>1, <1>2, <2>1 DEF Meant
    <2> HIDE DEF m
    <2>3. m.ok /\ plan = m.plan /\ command.args = Tail(m.words) BY <2>2 DEF MeantBy
    <2>4. PICK c : Calls(m.words[1], c) /\ command.id = c.id BY <2>2 DEF MeantBy
    <2>5. child.id = command.id /\ child.args = command.args /\ child.std = [i \in Std |-> Stream(plan[i])]
      BY <1>1, <1>2 DEF ChildIs
    <2>6. child.std = Streams(m) BY <2>3, <2>5 DEF Streams, Stream
    <2> QED BY <2>3, <2>4, <2>5, <2>6 DEF Calls
  <1>3. current.whole => \A p \in truncated : \E i \in Std : m.plan[i] = [mode |-> "TRUNC", path |-> p]
    BY <1>1 DEF Emptied
  <1> QED BY <1>2, <1>3 DEF RunsWhatWasTyped

\* neosh_clean_line, neosh_parse_redirections, nbox_resolve, neosh_open_redirection
\* and neosh_execute_child in a row: the child of a line that was read whole is
\* the command that was typed, with the typed arguments, on the streams the line
\* names, and nothing but the line's > has truncated a file.
THEOREM RunsTheTypedCommand == Spec => []RunsWhatWasTyped
  BY InitAll, NextKeepsAll, AllRunsWhatWasTyped, PTL DEF Spec

\* Where the words of a line send the shell.
GoesTo(ws) ==
    /\ TokenMatches(ws[1], <<"C", "D">>)
    /\ cwd' = IF Len(ws) = 1 THEN Root ELSE IF ws[2] = <<"-">> THEN previous ELSE Places[ws[2]]
\* A change of directory as ChangesDirAsTold has it.
CdGoes == cwd' # cwd => previous' = cwd /\ (current.whole => GoesTo(TypedMeaning.words))

\* The path of cd: the root, or its one argument.
LEMMA CdPathIs ==
    ASSUME NEW as, NEW p \in CdPath(as)
    PROVE  (as = << >> /\ p = <<SlashC>>) \/ (Len(as) = 1 /\ p = as[1])
  <1>1. CASE as = << >>
    <2>1. Len(as) # 1 BY <1>1
    <2> QED BY <1>1, <2>1, Zenon DEF CdPath, SlashC
  <1>2. CASE as # << >>
    BY <1>2, Zenon DEF CdPath
  <1> QED BY <1>1, <1>2

\* A change of directory goes where the line sends it.
LEMMA CdGoesWhereTold == ASSUME Known, Meant, Texts, Cd, cwd' # cwd PROVE CdGoes
  <1>1. pc \in {"cd", "dash"} BY DEF Cd
  <1>2. saved = cwd /\ Len(saved) < LineMax BY <1>1 DEF Known, Texts, BufferTexts
  <1> DEFINE paths == IF pc = "cd" THEN CdPath(command.args) ELSE {previous}
  <1>3. PICK p \in paths : \E d \in ChdirTo(p) : cwd' = d /\ RecordPrevious(saved) BY DEF Cd, ChangeDir
  <1>4. p \in DOMAIN Places /\ cwd' = Places[p] /\ RecordPrevious(saved) BY <1>3 DEF ChdirTo, Found
  <1>5. previous' = cwd BY <1>2, <1>4 DEF RecordPrevious
  <1>6. ASSUME current.whole
        PROVE  GoesTo(TypedMeaning.words)
    <2>0. PICK m : m = TypedMeaning OBVIOUS
    <2> DEFINE ws == m.words
    <2> SUFFICES GoesTo(ws) BY <2>0, Zenon
    <2>1. MeantBy(m) BY <1>1, <1>6, <2>0 DEF Meant, Busy
    <2>2. /\ ws \in Seq(Solid) /\ ws # << >> /\ command.args = Tail(ws)
          /\ pc = "cd" => ~Dash(ws)
          /\ pc = "dash" => Dash(ws) /\ previous # << >>
      BY <2>1 DEF MeantBy
    <2>3. PICK c : Calls(ws[1], c) /\ c.name = CdName BY <1>1, <2>1 DEF MeantBy
    <2>4. TokenMatches(ws[1], <<"C", "D">>) BY <2>3, Zenon DEF Calls, CdName
    <2>5. Len(Tail(ws)) = Len(ws) - 1 /\ Len(ws) \in Nat /\ \A i \in 1 .. Len(ws) - 1 : Tail(ws)[i] = ws[i + 1]
      <3> HIDE DEF ws
      <3> QED BY <2>2, HeadTailProperties
    <2>6. CASE pc = "dash"
      <3>1. Len(ws) = 2 /\ ws[2] = <<"-">> BY <2>2, <2>6, Zenon DEF Dash
      <3>2. p = previous BY <1>3, <2>6
      <3>3. Places[previous] = previous BY <2>2, <2>6, PlacesFacts DEF Known
      <3>4. cwd' = previous /\ Len(ws) # 1 BY <1>4, <3>1, <3>2, <3>3
      <3> QED BY <2>4, <3>1, <3>4, Zenon DEF GoesTo
    <2>7. CASE pc = "cd" /\ Tail(ws) = << >>
      <3> DEFINE as == Tail(ws)
      <3>0. as = << >> BY <2>7
      <3>1. Len(as) = 0
        <4> HIDE DEF as
        <4> QED BY <3>0
      <3>a. Len(ws) = 1 BY <2>5, <3>1
      <3>2. p \in CdPath(as) BY <1>3, <2>2, <2>7
      <3> HIDE DEF as
      <3>3. p = <<SlashC>> BY <3>0, <3>1, <3>2, CdPathIs
      <3>4. cwd' = Root BY <1>4, <3>3, Zenon DEF Root, SlashC
      <3> QED BY <2>4, <3>a, <3>4, Zenon DEF GoesTo
    <2>8. CASE pc = "cd" /\ Tail(ws) # << >>
      <3> DEFINE as == Tail(ws)
      <3>1. p \in CdPath(as) BY <1>3, <2>2, <2>8
      <3>2. as # << >> BY <2>8
      <3> HIDE DEF as
      <3>3. Len(as) = 1 /\ p = as[1] BY <3>1, <3>2, CdPathIs
      <3>4. Len(ws) = 2 /\ as[1] = ws[2] BY <2>5, <3>3 DEF as
      <3>5. ws[2] # <<"-">> BY <2>2, <2>8, <3>4, Zenon DEF Dash
      <3>6. cwd' = Places[ws[2]] /\ Len(ws) # 1 BY <1>4, <3>3, <3>4
      <3> QED BY <2>4, <3>5, <3>6, Zenon DEF GoesTo
    <2> QED BY <1>1, <2>6, <2>7, <2>8
  <1> QED BY <1>5, <1>6, Zenon DEF CdGoes

\* No other step changes the directory.
LEMMA NextGoesAsTold == All /\ [Next]_vars => CdGoes
  <1> SUFFICES ASSUME All, [Next]_vars, cwd' # cwd PROVE CdGoes BY Zenon DEF CdGoes
  <1>1. Known /\ Meant /\ Texts BY DEF All, Told, TypeInv
  <1>2. ~UNCHANGED vars BY DEF vars
  <1>3. Cd
    BY <1>2 DEF Next, ShellStep, PrintPrompt, ReadLine, ReadInterrupted, Kill, SaveCwd, OpenRedirection, SeekToEnd,
                AllOpen, Spawn, WaitChild, CloseAfterChild, ReadNothing, Enter, Break, Reroute, ChildReads, ChildEnds,
                OtherDirs, envVars, shellVars
  <1> QED BY <1>1, <1>3, CdGoesWhereTold

\* neosh_execute_cd_parent and neosh_execute_cd_dash: cd, cd with a directory and
\* cd - go where the line that was typed says, and nothing else moves the shell;
\* the directory it leaves is the one cd - returns to.
THEOREM CdGoesAsTyped == Spec => ChangesDirAsTold
  <1>1. All /\ [Next]_vars => CdGoes BY NextGoesAsTold
  <1>2. CdGoes =>
          [cwd' # cwd =>
             /\ previous' = cwd
             /\ current.whole =>
                  LET ws == TypedMeaning.words IN
                  /\ TokenMatches(ws[1], <<"C", "D">>)
                  /\ cwd' = IF Len(ws) = 1 THEN Root ELSE IF ws[2] = <<"-">> THEN previous ELSE Places[ws[2]]]_vars
    BY Zenon DEF CdGoes, GoesTo
  <1> QED BY <1>1, <1>2, InitAll, NextKeepsAll, PTL DEF Spec, ChangesDirAsTold
=============================================================================
