--------------------------- MODULE AppletsProofs ----------------------------
(***************************************************************************)
(* For any files, buffers, faults and short transfers: cat and cp deliver  *)
(* exactly the bytes of their source, no applet leaves a descriptor open   *)
(* behind it, and every failure is told in a status and in diagnostics.    *)
(* For any texts and any words of 32 bits: the number conversions are      *)
(* exact, and kill signals what was typed.  For any directory and any      *)
(* process table, and however others change them meanwhile: ls and ps list *)
(* what stays exactly once.                                                *)
(*                                                                         *)
(* The conversions are recursive functions.  What they compute is proved   *)
(* from the least number for which it would fail.                          *)
(***************************************************************************)
EXTENDS Applets, SequenceTheorems, FiniteSetTheorems, WellFoundedInduction, TLAPS

----------------------------------------------------------------------------
(***************************************************************************)
(* Descriptors.  While an applet writes, where it goes on decides whether  *)
(* it may hold one.                                                        *)
(***************************************************************************)
Held ==
    /\ HandlesClosed
    /\ pc = "write" => after \in {"read", "readdir", "info", "done"}
    /\ pc = "write" /\ after \in {"info", "done"} => open = {}
    /\ pc = "create" => open = {"source"}

LEMMA InitHeld == Init => Held
  BY DEF Init, Held, HandlesClosed

LEMMA NextHeld ==
    ASSUME Held, [Next]_vars
    PROVE  Held'
  <1> USE DEF Held, HandlesClosed, End, Emit, idle, world
  <1>1. CASE RejectUsage BY <1>1 DEF RejectUsage
  <1>2. CASE WriteSome BY <1>2 DEF WriteSome, Wrote
  <1>3. CASE WriteFails BY <1>3 DEF WriteFails
  <1>4. CASE CatStdin BY <1>4 DEF CatStdin, Begins
  <1>5. CASE OpenSource BY <1>5 DEF OpenSource, Begins
  <1>6. CASE SamePath BY <1>6 DEF SamePath
  <1>7. CASE CreateDestination BY <1>7 DEF CreateDestination
  <1>8. CASE ReadSome BY <1>8 DEF ReadSome
  <1>9. CASE ReadFails BY <1>9 DEF ReadFails
  <1>10. CASE ReadEnd BY <1>10 DEF ReadEnd
  <1>11. CASE Echo BY <1>11 DEF Echo, Begins
  <1>12. CASE Pwd BY <1>12 DEF Pwd, Begins
  <1>13. CASE Kill BY <1>13 DEF Kill
  <1>14. CASE Rm \/ Rmdir \/ Mkdir \/ Mv BY <1>14 DEF Rm, Rmdir, Mkdir, Mv, PathOperation
  <1>15. CASE LsStart BY <1>15 DEF LsStart, Begins
  <1>16. CASE OpenDir BY <1>16 DEF OpenDir
  <1>17. CASE ReadDir BY <1>17 DEF ReadDir
  <1>18. CASE CloseDir BY <1>18 DEF CloseDir
  <1>19. CASE ReadDirFails BY <1>19 DEF ReadDirFails
  <1>20. CASE PsStart BY <1>20 DEF PsStart, Begins
  <1>21. CASE PsInfo BY <1>21 DEF PsInfo
  <1>22. CASE PsInfoFails BY <1>22 DEF PsInfoFails
  <1>23. CASE PsEnd BY <1>23 DEF PsEnd
  <1>24. CASE OtherEntry \/ OtherProcess BY <1>24 DEF OtherEntry, OtherProcess
  <1>25. CASE UNCHANGED vars BY <1>25 DEF vars
  <1> QED
    BY <1>1, <1>2, <1>3, <1>4, <1>5, <1>6, <1>7, <1>8, <1>9, <1>10, <1>11, <1>12, <1>13, <1>14,
       <1>15, <1>16, <1>17, <1>18, <1>19, <1>20, <1>21, <1>22, <1>23, <1>24, <1>25
    DEF Next, AppletStep

\* Every way out of cat, cp and ls closes what it has opened, whatever call
\* fails and however short the transfers are.
THEOREM AppletsCloseAll == Spec => []HandlesClosed
  <1>1. Held => HandlesClosed BY DEF Held
  <1> QED BY InitHeld, NextHeld, <1>1, PTL DEF Spec

----------------------------------------------------------------------------
(***************************************************************************)
(* The bytes of a copy.  The sink holds the first a bytes of the source,   *)
(* the buffer what lies between a and the read position.                   *)
(***************************************************************************)
LEMMA Buffered ==
    ASSUME NEW s \in Seq(Bytes), NEW a \in Nat, NEW b \in 0 .. Len(s), a <= b
    PROVE  SubSeq(s, a + 1, b) \in Seq(Bytes) /\ Len(SubSeq(s, a + 1, b)) = b - a
  <1>1. Len(s) \in Nat /\ \A i \in a + 1 .. b : s[i] \in Bytes
    BY ElementOfSeq, LenProperties
  <1>2. /\ SubSeq(s, a + 1, b) \in Seq(Bytes)
        /\ Len(SubSeq(s, a + 1, b)) = IF a + 1 <= b THEN b - (a + 1) + 1 ELSE 0
    BY <1>1, SubSeqProperties
  <1> QED BY <1>1, <1>2

\* Writing n bytes of the buffer moves the border by n.
LEMMA BorderMoves ==
    ASSUME NEW s \in Seq(Bytes), NEW a \in Nat, NEW b \in 0 .. Len(s), a <= b, NEW n \in 1 .. b - a
    PROVE  /\ SubSeq(s, 1, a) \o SubSeq(SubSeq(s, a + 1, b), 1, n) = SubSeq(s, 1, a + n)
           /\ SubSeq(SubSeq(s, a + 1, b), n + 1, b - a) = SubSeq(s, a + n + 1, b)
  <1>1. Len(s) \in Nat BY LenProperties
  <1>2. a + 1 \in 1 .. Len(s) /\ b \in 1 .. Len(s) /\ a \in 0 .. Len(s) /\ a + n \in a .. Len(s)
    BY <1>1
  <1>3. SubSeq(SubSeq(s, a + 1, b), 1, n) = SubSeq(s, a + 1, a + n)
    <2>1. 1 \in 1 .. b - (a + 1) + 1 /\ n \in 1 .. b - (a + 1) + 1 BY <1>1
    <2>2. SubSeq(SubSeq(s, a + 1, b), 1, n) = SubSeq(s, (a + 1) + 1 - 1, (a + 1) + n - 1)
      BY <1>2, <2>1, SubSeqOfSubSeq
    <2> QED BY <2>2, <1>1
  <1>4. SubSeq(s, 1, a) \o SubSeq(s, a + 1, a + n) = SubSeq(s, 1, a + n)
    <2>1. 1 \in 1 .. Len(s) + 1 /\ a \in 1 - 1 .. Len(s) BY <1>1, <1>2
    <2> QED BY <2>1, <1>2, ConcatAdjacentSubSeq
  <1>5. SubSeq(SubSeq(s, a + 1, b), n + 1, b - a) = SubSeq(s, a + n + 1, b)
    <2>1. CASE n = b - a
      <3>1. SubSeq(SubSeq(s, a + 1, b), n + 1, b - a) = << >> BY <2>1, <1>1, SubSeqEmpty
      <3>2. SubSeq(s, a + n + 1, b) = << >> BY <2>1, <1>1, SubSeqEmpty
      <3> QED BY <3>1, <3>2
    <2>2. CASE n < b - a
      <3>1. n + 1 \in 1 .. b - (a + 1) + 1 /\ b - a \in 1 .. b - (a + 1) + 1 BY <2>2, <1>1
      <3>2. SubSeq(SubSeq(s, a + 1, b), n + 1, b - a) = SubSeq(s, (a + 1) + (n + 1) - 1, (a + 1) + (b - a) - 1)
        BY <1>2, <3>1, SubSeqOfSubSeq
      <3> QED BY <3>2, <1>1
    <2> QED BY <2>1, <2>2, <1>1
  <1> QED BY <1>3, <1>4, <1>5

FileRecord == [kind : {"none", "file", "dir"}, data : Seq(Bytes)]

Copier   == job.id \in {"cat", "cp"}
Proper   == Usage(job.id, job.args) /\ (job.id = "cp" => Canon(job.args[1]) # Canon(job.args[2]))
Original == IF OnStdin THEN Stdin ELSE Stored[Canon(job.args[1])].data
Sink     == IF job.id = "cp" THEN files[Destination].data ELSE out

\* Where a copier is, and that a refused one has done nothing.
Course ==
    /\ pc \in {"start", "create", "read", "write", "done"}
    /\ pc = "create" => job.id = "cp"
    /\ pc = "write" => after = "read"
    /\ pc = "start" => out = << >> /\ files = Stored
    /\ pc \in {"start", "create"} => pos = 0
    /\ ~Usage(job.id, job.args) =>
          pc \in {"start", "done"} /\ out = << >> /\ files = Stored /\ (pc = "done" => status # "OK")

\* What has been copied, and what nobody has touched.
Progress ==
    /\ files \in [Paths -> FileRecord]
    /\ \A p \in Paths : (job.id = "cp" => p # Destination) => files[p] = Stored[p]
    /\ job.id = "cat" => \E a \in 0 .. Len(Original) : out = SubSeq(Original, 1, a)
    /\ pc = "read" => pos \in 0 .. Len(Original) /\ Sink = SubSeq(Original, 1, pos)
    /\ pc = "write" =>
          /\ pos \in 0 .. Len(Original)
          /\ \E a \in 0 .. pos : Sink = SubSeq(Original, 1, a) /\ todo = SubSeq(Original, a + 1, pos)
    /\ pc \in {"read", "write"} /\ job.id = "cp" => files[Destination].kind = "file"
    /\ pc = "done" /\ status = "OK" => Sink = Original /\ (job.id = "cp" => files[Destination].kind = "file")

CopyInv == job \in Jobs /\ (Copier => Course /\ (Proper => Progress))

LEMMA ArgumentCount ==
    ASSUME NEW as, Len(as) \in Nat
    PROVE  /\ Usage("cat", as) => Len(as) \in 0 .. 1
           /\ Usage("cp", as) => Len(as) = 2
  <1>1. MostArgs["cat"] = 1 /\ MostArgs["cp"] = 2 BY DEF MostArgs
  <1>2. DOMAIN MostArgs = {"cat", "cp", "mv", "rm", "mkdir", "rmdir", "ls", "pwd", "ps"}
    BY DEF MostArgs
  <1>3. LeastArgs["cat"] = 0 /\ LeastArgs["cp"] = 2
    BY <1>1, <1>2 DEF LeastArgs
  <1>4. Usage("cat", as) => Len(as) \in LeastArgs["cat"] .. MostArgs["cat"] BY DEF Usage
  <1>5. Usage("cp", as) => Len(as) \in LeastArgs["cp"] .. MostArgs["cp"] BY DEF Usage
  <1>6. LeastArgs["cat"] .. MostArgs["cat"] = 0 .. 1 BY <1>1, <1>3, Zenon
  <1>7. LeastArgs["cp"] .. MostArgs["cp"] = 2 .. 2 BY <1>1, <1>3, Zenon
  <1>8. Usage("cat", as) => Len(as) \in 0 .. 1 BY <1>4, <1>6, Zenon
  <1>9. Usage("cp", as) => Len(as) \in 2 .. 2 BY <1>5, <1>7, Zenon
  <1>10. Len(as) \in 2 .. 2 => Len(as) = 2 OBVIOUS
  <1> QED BY <1>8, <1>9, <1>10

LEMMA SourceFacts ==
    ASSUME job \in Jobs, Copier, Proper
    PROVE  /\ Original \in Seq(Bytes) /\ Len(Original) \in Nat
           /\ OnStdin \/ Canon(job.args[1]) \in Paths
           /\ job.id = "cp" => ~OnStdin /\ Destination \in Paths /\ Destination # Canon(job.args[1])
  <1>1. job.args \in Seq(Seq(STRING)) /\ Len(job.args) \in Nat
    BY FilesAssumption, LenProperties
  <1>2. job.id = "cp" => Len(job.args) = 2
    BY <1>1, ArgumentCount DEF Proper
  <1>3. job.id = "cat" => Len(job.args) \in 0 .. 1
    BY <1>1, ArgumentCount DEF Proper
  <1>4. job.args # << >> => Len(job.args) # 0
    BY <1>1, EmptySeq
  <1>5. \A i \in 1 .. Len(job.args) : Canon(job.args[i]) \in Paths
    BY FilesAssumption DEF Copier, Proper
  <1>6. OnStdin \/ Canon(job.args[1]) \in Paths
    BY <1>1, <1>2, <1>3, <1>4, <1>5 DEF OnStdin, Copier
  <1>7. job.id = "cp" => ~OnStdin /\ Destination \in Paths /\ Destination # Canon(job.args[1])
    BY <1>2, <1>5 DEF OnStdin, Destination, Proper
  <1>8. Original \in Seq(Bytes)
    BY <1>6, FilesAssumption DEF Original
  <1> QED BY <1>6, <1>7, <1>8, LenProperties

LEMMA SourceIsOriginal ==
    ASSUME job \in Jobs, Copier, Proper, Progress
    PROVE  Source = Original
  BY SourceFacts DEF Progress, Source, Original, Copier, OnStdin

LEMMA JobStays == [Next]_vars => job' = job
  BY DEF Next, AppletStep, vars, RejectUsage, WriteSome, WriteFails, CatStdin, OpenSource, SamePath,
     CreateDestination, ReadSome, ReadFails, ReadEnd, Echo, Pwd, Kill, Rm, Rmdir, Mkdir, Mv,
     PathOperation, LsStart, OpenDir, ReadDir, CloseDir, ReadDirFails, PsStart, PsInfo, PsInfoFails,
     PsEnd, OtherEntry, OtherProcess

LEMMA Frame ==
    ASSUME job' = job
    PROVE  /\ Copier' = Copier /\ Proper' = Proper /\ OnStdin' = OnStdin /\ Original' = Original
           /\ Destination' = Destination
  BY DEF Copier, Proper, OnStdin, Original, Destination, Usage, PathsFit, Canon

LEMMA InitCopy == Init => CopyInv
  <1> SUFFICES ASSUME Init, Copier
               PROVE  Course /\ (Proper => Progress)
    BY DEF Init, CopyInv
  <1>1. Course BY DEF Init, Course
  <1>2. ASSUME Proper PROVE Progress
    <2>1. Stored \in [Paths -> FileRecord] BY FilesAssumption DEF FileRecord
    <2>2. 0 \in 0 .. Len(Original) BY <1>2, SourceFacts DEF Init
    <2>3. SubSeq(Original, 1, 0) = << >> BY SubSeqEmpty
    <2> QED BY <2>1, <2>2, <2>3 DEF Init, Progress
  <1> QED BY <1>1, <1>2

\* The steps that a copier can take.
LEMMA CopierSteps ==
    ASSUME Copier, Course, [Next]_vars
    PROVE  \/ RejectUsage \/ WriteSome \/ WriteFails \/ CatStdin \/ OpenSource \/ SamePath
           \/ CreateDestination \/ ReadSome \/ ReadFails \/ ReadEnd \/ UNCHANGED vars
  <1>1. /\ ~Echo /\ ~Pwd /\ ~Kill /\ ~Rm /\ ~Rmdir /\ ~Mkdir /\ ~Mv /\ ~LsStart /\ ~OpenDir
        /\ ~ReadDir /\ ~CloseDir /\ ~ReadDirFails /\ ~PsStart /\ ~PsInfo /\ ~PsInfoFails /\ ~PsEnd
        /\ ~OtherEntry /\ ~OtherProcess
    BY DEF Copier, Course, Begins, Echo, Pwd, Kill, Rm, Rmdir, Mkdir, Mv, PathOperation, LsStart,
       OpenDir, ReadDir, CloseDir, ReadDirFails, PsStart, PsInfo, PsInfoFails, PsEnd, OtherEntry,
       OtherProcess
  <1> QED BY <1>1 DEF Next, AppletStep

\* No step takes a copier off its course.
LEMMA CourseKept ==
    ASSUME job \in Jobs, Copier, Course, [Next]_vars
    PROVE  Course'
  <1>1. job' = job BY JobStays
  <1>2. Usage(job.id, job.args)' = Usage(job.id, job.args) BY <1>1 DEF Usage, PathsFit
  <1>3. job.id \in DOMAIN MostArgs BY DEF Copier, MostArgs
  <1> USE <1>1, <1>2, <1>3 DEF Course, Copier, End, Emit, idle, world
  <1>4. CASE RejectUsage BY <1>4 DEF RejectUsage
  <1>5. CASE WriteSome BY <1>5 DEF WriteSome, Wrote
  <1>6. CASE WriteFails BY <1>6 DEF WriteFails
  <1>7. CASE CatStdin BY <1>7 DEF CatStdin, Begins
  <1>8. CASE OpenSource BY <1>8 DEF OpenSource, Begins
  <1>9. CASE SamePath BY <1>9 DEF SamePath, Begins
  <1>10. CASE CreateDestination BY <1>10 DEF CreateDestination
  <1>11. CASE ReadSome BY <1>11 DEF ReadSome
  <1>12. CASE ReadFails BY <1>12 DEF ReadFails
  <1>13. CASE ReadEnd BY <1>13 DEF ReadEnd
  <1>14. CASE UNCHANGED vars BY <1>14 DEF vars
  <1>15. \/ RejectUsage \/ WriteSome \/ WriteFails \/ CatStdin \/ OpenSource \/ SamePath
         \/ CreateDestination \/ ReadSome \/ ReadFails \/ ReadEnd \/ UNCHANGED vars
    BY CopierSteps
  <1> QED
    BY <1>4, <1>5, <1>6, <1>7, <1>8, <1>9, <1>10, <1>11, <1>12, <1>13, <1>14, <1>15

\* One step of a copy whose two files differ.
LEMMA ProgressKept ==
    ASSUME job \in Jobs, Copier, Proper, Course, Progress, [Next]_vars
    PROVE  Progress'
  <1>1. job' = job BY JobStays
  <1>2. /\ Original' = Original /\ Destination' = Destination /\ OnStdin' = OnStdin
    BY <1>1, Frame
  <1>3. /\ Original \in Seq(Bytes) /\ Len(Original) \in Nat
        /\ job.id = "cp" => Destination \in Paths /\ Destination # Canon(job.args[1])
    BY SourceFacts
  <1>4. Source = Original BY SourceIsOriginal
  <1>5. Usage(job.id, job.args) /\ job.id \in {"cat", "cp"} BY DEF Proper, Copier
  <1>6. SubSeq(Original, 1, 0) = << >> BY SubSeqEmpty
  <1>7. \A st \in Fails("open") \cup Fails("read") \cup Fails("write") \cup Fails("close") : st # "OK"
    BY DEF Fails, Errors
  <1>8. ASSUME pc' = "done", status' # "OK", UNCHANGED <<files, out>> PROVE Progress'
    BY <1>8, <1>1, <1>2 DEF Progress
  <1>10. CASE WriteSome
    <2>1. pc = "write" /\ pos \in 0 .. Len(Original) /\ after = "read"
      BY <1>10 DEF WriteSome, Progress, Course
    <2>2. PICK a \in 0 .. pos : Sink = SubSeq(Original, 1, a) /\ todo = SubSeq(Original, a + 1, pos)
      BY <2>1 DEF Progress
    <2>3. Len(todo) = pos - a
      BY <2>1, <2>2, <1>3, Buffered
    <2>4. PICK n \in 1 .. pos - a :
             /\ todo' = SubSeq(todo, n + 1, pos - a)
             /\ pc' = IF n = pos - a THEN "read" ELSE "write"
             /\ IF job.id = "cp"
                THEN /\ files' = [files EXCEPT ![Destination] =
                                     [kind |-> "file", data |-> files[Destination].data \o SubSeq(todo, 1, n)]]
                     /\ out' = out
                ELSE out' = out \o SubSeq(todo, 1, n) /\ files' = files
      BY <1>10, <2>1, <2>3 DEF WriteSome, Wrote
    <2>5. /\ Sink \o SubSeq(todo, 1, n) = SubSeq(Original, 1, a + n)
          /\ todo' = SubSeq(Original, a + n + 1, pos)
      <3>1. a \in Nat /\ a <= pos BY <2>1, <2>2, <1>3
      <3>2. /\ SubSeq(Original, 1, a) \o SubSeq(SubSeq(Original, a + 1, pos), 1, n) = SubSeq(Original, 1, a + n)
            /\ SubSeq(SubSeq(Original, a + 1, pos), n + 1, pos - a) = SubSeq(Original, a + n + 1, pos)
        BY <3>1, <2>1, <1>3, BorderMoves
      <3> QED BY <3>2, <2>2, <2>4
    <2>6. SubSeq(Original, 1, a + n) \in Seq(Bytes)
      <3>1. 1 <= a + n /\ a + n \in 0 .. Len(Original) BY <2>1, <2>4, <1>3
      <3> QED BY <3>1, <1>3, Buffered
    <2>7. /\ Sink' = SubSeq(Original, 1, a + n)
          /\ files' \in [Paths -> FileRecord]
          /\ \A p \in Paths : (job.id = "cp" => p # Destination) => files'[p] = Stored[p]
          /\ job.id = "cp" => files'[Destination].kind = "file"
      <3>1. CASE job.id = "cp"
        <4>1. files' = [files EXCEPT ![Destination] = [kind |-> "file", data |-> SubSeq(Original, 1, a + n)]]
          BY <3>1, <2>4, <2>5 DEF Sink
        <4> QED BY <4>1, <3>1, <2>6, <1>1, <1>2, <1>3 DEF Progress, FileRecord, Sink
      <3>2. CASE job.id = "cat"
        BY <3>2, <2>4, <2>5, <1>1 DEF Progress, Sink
      <3> QED BY <3>1, <3>2, <1>5
    <2>8. a + n \in 0 .. pos /\ (n = pos - a => a + n = pos) BY <2>1, <2>4
    <2>9. pos' = pos BY <1>10 DEF WriteSome
    <2>10. job.id = "cat" => out' = SubSeq(Original, 1, a + n) /\ a + n \in 0 .. Len(Original)
      BY <2>1, <2>7, <2>8, <1>1, <1>3 DEF Sink
    <2> QED
      BY <1>1, <1>2, <2>1, <2>4, <2>5, <2>7, <2>8, <2>9, <2>10 DEF Progress
  <1>11. CASE CreateDestination
    <2>1. pos = 0 /\ job.id = "cp" /\ pos' = 0
      BY <1>11 DEF CreateDestination, Course, idle
    <2>2. CASE files' = [files EXCEPT ![Destination] = [kind |-> "file", data |-> << >>]] /\ pc' = "read"
      <3>1. << >> \in Seq(Bytes) OBVIOUS
      <3> QED BY <2>1, <2>2, <3>1, <1>1, <1>2, <1>3, <1>6 DEF Progress, FileRecord, Sink
    <2>3. CASE pc' = "done" /\ status' # "OK" /\ UNCHANGED <<files, out>>
      BY <2>3, <1>8
    <2> QED BY <1>11, <2>2, <2>3, <1>7 DEF CreateDestination, End, idle
  <1>12. CASE ReadSome
    <2>1. pc = "read" /\ pos \in 0 .. Len(Original) /\ Sink = SubSeq(Original, 1, pos)
      BY <1>12 DEF ReadSome, Progress
    <2>2. PICK n \in 1 .. BufferSize :
             /\ pos + n <= Len(Original) /\ pos' = pos + n
             /\ todo' = SubSeq(Original, pos + 1, pos + n) /\ pc' = "write"
      BY <1>12, <1>4 DEF ReadSome, Emit
    <2>3. pos' \in 0 .. Len(Original) /\ pos \in 0 .. pos'
      BY <2>1, <2>2, <1>3, AppletsAssumption
    <2>4. UNCHANGED <<files, out>> /\ Sink' = Sink
      BY <1>12, <1>1, <1>2 DEF ReadSome, world, Sink
    <2> QED BY <2>1, <2>2, <2>3, <2>4, <1>1, <1>2 DEF Progress
  <1>13. CASE ReadEnd
    <2>1. pc = "read" /\ pos \in 0 .. Len(Original) /\ Sink = SubSeq(Original, 1, pos) /\ pos >= Len(Original)
      BY <1>13, <1>4 DEF ReadEnd, Progress
    <2>2. pos = Len(Original) BY <2>1, <1>3
    <2>3. Sink = Original BY <2>1, <2>2, <1>3, SubSeqFull
    <2>4. UNCHANGED <<files, out>> /\ pc' = "done" /\ Sink' = Sink
      BY <1>13, <1>1, <1>2 DEF ReadEnd, End, world, idle, Sink
    <2> QED BY <2>1, <2>3, <2>4, <1>1, <1>2 DEF Progress
  <1>14. CASE CatStdin \/ OpenSource
    <2>1. pos = 0 /\ pos' = 0 /\ UNCHANGED <<files, out>> /\ out = << >>
      BY <1>14 DEF CatStdin, OpenSource, Begins, Course, idle, world
    <2>2. CASE pc' = "read" /\ job.id = "cat"
      BY <2>1, <2>2, <1>1, <1>2, <1>3, <1>6 DEF Progress, Sink
    <2>3. CASE pc' = "create"
      BY <2>1, <2>3, <1>1, <1>2 DEF Progress
    <2>4. CASE pc' = "done" /\ status' # "OK"
      BY <2>1, <2>4, <1>8
    <2> QED BY <1>14, <2>2, <2>3, <2>4, <1>5, <1>7 DEF CatStdin, OpenSource, Begins, End
  <1>15. CASE RejectUsage \/ SamePath
    BY <1>15, <1>8 DEF RejectUsage, SamePath, End, world, idle
  <1>16. CASE ReadFails
    BY <1>16, <1>7, <1>8 DEF ReadFails, End, world, idle
  <1>17. CASE WriteFails
    BY <1>17, <1>7, <1>8 DEF WriteFails, End, world, idle
  <1>18. CASE UNCHANGED vars
    BY <1>18, <1>1, <1>2 DEF vars, Progress, Sink
  <1>19. \/ WriteSome \/ CreateDestination \/ ReadSome \/ ReadEnd \/ CatStdin \/ OpenSource \/ RejectUsage
         \/ SamePath \/ ReadFails \/ WriteFails \/ UNCHANGED vars
    BY CopierSteps
  <1> QED
    BY <1>10, <1>11, <1>12, <1>13, <1>14, <1>15, <1>16, <1>17, <1>18, <1>19

LEMMA NextCopy ==
    ASSUME CopyInv, [Next]_vars
    PROVE  CopyInv'
  <1>1. job' = job BY JobStays
  <1>2. Copier' = Copier /\ Proper' = Proper BY <1>1, Frame
  <1> QED BY <1>1, <1>2, CourseKept, ProgressKept DEF CopyInv

\* cat puts out the bytes of its source in order, none twice, and all of them
\* when it returns OK, however short reads and writes are and whatever fails.
THEOREM CatIsExact == Spec => []CatExact
  <1>1. ASSUME CopyInv PROVE CatExact
    <2> SUFFICES ASSUME job.id = "cat"
                 PROVE  /\ out # << >> => IsPrefixOf(out, Source)
                        /\ pc = "done" /\ status = "OK" => out = Source
      BY DEF CatExact
    <2>1. job \in Jobs /\ Copier /\ Course /\ (Proper => Progress) BY <1>1 DEF CopyInv, Copier
    <2>2. CASE ~Proper BY <2>1, <2>2 DEF Proper, Course
    <2>3. CASE Proper
      <3>1. Source = Original /\ Original \in Seq(Bytes) /\ Len(Original) \in Nat
        BY <2>1, <2>3, SourceFacts, SourceIsOriginal
      <3>2. PICK a \in 0 .. Len(Original) : out = SubSeq(Original, 1, a)
        BY <2>1, <2>3 DEF Progress
      <3>3. Len(out) = a
        <4>1. SubSeq(Original, 0 + 1, a) = SubSeq(Original, 1, a) OBVIOUS
        <4> QED BY <3>1, <3>2, <4>1, Buffered
      <3>4. IsPrefixOf(out, Source) BY <3>1, <3>2, <3>3 DEF IsPrefixOf
      <3>5. pc = "done" /\ status = "OK" => out = Source
        BY <2>1, <2>3, <3>1 DEF Progress, Sink
      <3> QED BY <3>4, <3>5
    <2> QED BY <2>2, <2>3
  <1> QED BY InitCopy, NextCopy, <1>1, PTL DEF Spec

\* cp returns OK only with the whole source in the destination, and no path
\* through it touches another file.
THEOREM CopiesCompletely == Spec => []CopyComplete
  <1>1. ASSUME CopyInv PROVE CopyComplete
    <2> SUFFICES ASSUME job.id = "cp", Len(job.args) = 2, Canon(job.args[1]) # Canon(job.args[2])
                 PROVE  /\ pc = "done" /\ status = "OK" =>
                              /\ files[Destination].data = Stored[Canon(job.args[1])].data
                              /\ files[Destination].kind = "file"
                        /\ \A p \in Paths \ {Destination} : files[p] = Stored[p]
      BY DEF CopyComplete
    <2>1. job \in Jobs /\ Copier /\ Course /\ (Proper => Progress) BY <1>1 DEF CopyInv, Copier
    <2>2. CASE ~Proper BY <2>1, <2>2 DEF Proper, Course
    <2>3. CASE Proper BY <2>1, <2>3 DEF Progress, Sink, Original, OnStdin
    <2> QED BY <2>2, <2>3
  <1> QED BY InitCopy, NextCopy, <1>1, PTL DEF Spec
----------------------------------------------------------------------------
(***************************************************************************)
(* Diagnostics.  An applet that is still running has said nothing; only ls *)
(* ever stands at the steps of ls, whose failures are reported twice.      *)
(***************************************************************************)
Told ==
    /\ Diagnosed
    /\ pc # "done" => err = 0 /\ status = "OK"
    /\ pc \in {"opendir", "readdir"} => job.id = "ls"
    /\ pc = "write" => after \in {"read", "readdir", "info", "done"}
    /\ pc = "write" /\ after = "readdir" => job.id = "ls"

LEMMA InitTold == Init => Told
  BY DEF Init, Told, Diagnosed

LEMMA NextTold ==
    ASSUME Told, [Next]_vars
    PROVE  Told'
  <1>0. job' = job BY JobStays
  <1>a. \A call : \A st \in Fails(call) : st # "OK" BY DEF Fails, Errors
  <1> USE <1>0 DEF Told, Diagnosed, End, Emit, idle, world
  <1>1. CASE RejectUsage BY <1>1 DEF RejectUsage
  <1>2. CASE WriteSome BY <1>2 DEF WriteSome, Wrote
  <1>3. CASE WriteFails BY <1>3, <1>a DEF WriteFails, LsMessages
  <1>4. CASE CatStdin BY <1>4 DEF CatStdin, Begins
  <1>5. CASE OpenSource BY <1>5, <1>a DEF OpenSource, Begins
  <1>6. CASE SamePath BY <1>6 DEF SamePath, Begins
  <1>7. CASE CreateDestination BY <1>7, <1>a DEF CreateDestination
  <1>8. CASE ReadSome BY <1>8 DEF ReadSome
  <1>9. CASE ReadFails BY <1>9, <1>a DEF ReadFails
  <1>10. CASE ReadEnd BY <1>10, <1>a DEF ReadEnd
  <1>11. CASE Echo BY <1>11 DEF Echo, Begins
  <1>12. CASE Pwd BY <1>12, <1>a DEF Pwd, Begins
  <1>13. CASE Kill BY <1>13, <1>a DEF Kill
  <1>14. CASE Rm \/ Rmdir \/ Mkdir \/ Mv
    BY <1>14, <1>a DEF Rm, Rmdir, Mkdir, Mv, PathOperation, Begins
  <1>15. CASE LsStart BY <1>15 DEF LsStart, Begins
  <1>16. CASE OpenDir BY <1>16, <1>a DEF OpenDir, LsMessages
  <1>17. CASE ReadDir BY <1>17 DEF ReadDir
  <1>18. CASE CloseDir BY <1>18, <1>a DEF CloseDir, LsMessages
  <1>19. CASE ReadDirFails BY <1>19, <1>a DEF ReadDirFails, LsMessages
  <1>20. CASE PsStart BY <1>20 DEF PsStart, Begins
  <1>21. CASE PsInfo BY <1>21 DEF PsInfo
  <1>22. CASE PsInfoFails BY <1>22, <1>a DEF PsInfoFails
  <1>23. CASE PsEnd BY <1>23 DEF PsEnd
  <1>24. CASE OtherEntry \/ OtherProcess BY <1>24 DEF OtherEntry, OtherProcess
  <1>25. CASE UNCHANGED vars BY <1>25 DEF vars
  <1> QED
    BY <1>1, <1>2, <1>3, <1>4, <1>5, <1>6, <1>7, <1>8, <1>9, <1>10, <1>11, <1>12, <1>13, <1>14,
       <1>15, <1>16, <1>17, <1>18, <1>19, <1>20, <1>21, <1>22, <1>23, <1>24, <1>25
    DEF Next, AppletStep

\* Every failing call of every applet ends in a status that is not OK and in as
\* many diagnostics as the code prints, and success prints none.
THEOREM FailuresAreDiagnosed == Spec => []Diagnosed
  <1>1. Told => Diagnosed BY DEF Told
  <1> QED BY InitTold, NextTold, <1>1, PTL DEF Spec

----------------------------------------------------------------------------
(***************************************************************************)
(* Numbers.  The conversions are recursive functions; what they compute is *)
(* shown by way of the least argument at which it would be wrong.          *)
(***************************************************************************)
LEMMA LeastNumber ==
    ASSUME NEW S \in SUBSET Nat, S # {}
    PROVE  \E n \in S : \A m \in S : n <= m
<1> DEFINE R == OpToRel(<, Nat)
<1>1. IsWellFoundedOn(R, Nat)
  BY NatLessThanWellFounded
<1>2. PICK x \in S : \A y \in S : ~ (<<y, x>> \in R)
  <2> HIDE DEF R
  <2> QED BY <1>1, WFMin
<1>3. \A y \in S : ~(y < x)
  BY <1>2 DEF OpToRel
<1> QED BY <1>3

\* What holds of 0, and of n + 1 when it holds of n, holds up to N.
LEMMA Upward ==
    ASSUME NEW N \in Nat, NEW S, 0 \in S, \A n \in 0 .. N - 1 : n \in S => n + 1 \in S
    PROVE  \A n \in 0 .. N : n \in S
  <1> SUFFICES ASSUME NEW k \in 0 .. N, k \notin S PROVE FALSE OBVIOUS
  <1> DEFINE Bad == {n \in 0 .. N : n \notin S}
  <1>1. Bad \in SUBSET Nat /\ k \in Bad OBVIOUS
  <1>2. PICK n \in Bad : \A m \in Bad : n <= m BY <1>1, LeastNumber
  <1>3. n # 0 /\ n \in 1 .. N BY <1>2
  <1>4. n - 1 \in 0 .. N - 1 /\ n - 1 \notin Bad BY <1>2, <1>3
  <1>5. n - 1 \in S BY <1>4
  <1>6. (n - 1) + 1 \in S BY <1>4, <1>5
  <1> QED BY <1>2, <1>3, <1>6

\* A function defined by recursion on 0 .. N exists.
LEMMA Recursion ==
    ASSUME NEW N \in Nat, NEW step \in [1 .. N -> [Int -> Int]]
    PROVE  \E f \in [0 .. N -> Int] : f[0] = 0 /\ \A i \in 0 .. N - 1 : f[i + 1] = step[i + 1][f[i]]
  <1> DEFINE Has(n) == \E f \in [0 .. n -> Int] : f[0] = 0 /\ \A i \in 0 .. n - 1 : f[i + 1] = step[i + 1][f[i]]
             Good == {n \in 0 .. N : Has(n)}
  <1>1. 0 \in Good
    <2>1. Has(0)
      <3> DEFINE e == [i \in 0 .. 0 |-> 0]
      <3>1. e \in [0 .. 0 -> Int] /\ e[0] = 0 /\ 1 .. 0 = {} OBVIOUS
      <3> HIDE DEF e
      <3> QED BY <3>1
    <2> HIDE DEF Has
    <2> QED BY <2>1
  <1>2. ASSUME NEW n \in 0 .. N - 1, n \in Good PROVE n + 1 \in Good
    <2>1. PICK f \in [0 .. n -> Int] : f[0] = 0 /\ \A i \in 0 .. n - 1 : f[i + 1] = step[i + 1][f[i]] BY <1>2
    <2> DEFINE g == [i \in 0 .. n + 1 |-> IF i = n + 1 THEN step[n + 1][f[n]] ELSE f[i]]
    <2>2. step[n + 1][f[n]] \in Int OBVIOUS
    <2>3. g \in [0 .. n + 1 -> Int] BY <2>2
    <2>4. \A i \in 0 .. n : g[i] = f[i] OBVIOUS
    <2>5. g[n + 1] = step[n + 1][g[n]] BY <2>4
    <2>6. \A i \in 0 .. n : g[i + 1] = step[i + 1][g[i]]
      <3> SUFFICES ASSUME NEW i \in 0 .. n PROVE g[i + 1] = step[i + 1][g[i]] OBVIOUS
      <3>1. CASE i = n BY <3>1, <2>5
      <3>2. CASE i \in 0 .. n - 1
        <4>1. i \in 0 .. n /\ i + 1 \in 0 .. n BY <3>2
        <4>2. g[i] = f[i] /\ g[i + 1] = f[i + 1] BY <4>1, <2>4
        <4> QED BY <3>2, <4>2, <2>1
      <3> QED BY <3>1, <3>2
    <2>7. g[0] = 0 BY <2>1, <2>4
    <2> HIDE DEF g
    <2>8. (n + 1) - 1 = n OBVIOUS
    <2>9. g[0] = 0 /\ \A i \in 0 .. (n + 1) - 1 : g[i + 1] = step[i + 1][g[i]] BY <2>6, <2>7, <2>8
    <2>10. Has(n + 1) BY <2>3, <2>9, Zenon
    <2>11. n + 1 \in 0 .. N OBVIOUS
    <2> HIDE DEF Has
    <2> QED BY <2>10, <2>11, Zenon
  <1>3. N \in Good
    <2> HIDE DEF Good
    <2>1. \A n \in 0 .. N - 1 : n \in Good => n + 1 \in Good BY <1>2
    <2>2. \A n \in 0 .. N : n \in Good BY <1>1, <2>1, Upward, Zenon
    <2> QED BY <2>2
  <1>4. Has(N)
    <2> HIDE DEF Has
    <2> QED BY <1>3
  <1> QED BY <1>4

LEMMA DigitFacts ==
    ASSUME NEW c, IsDigit(c)
    PROVE  DigitValue(c) \in 0 .. 9 /\ Digits[DigitValue(c) + 1] = c
  <1> DEFINE i == CHOOSE i \in 1 .. 10 : Digits[i] = c
  <1>1. i \in 1 .. 10 /\ Digits[i] = c
    <2>1. \E k \in 1 .. 10 : Digits[k] = c BY DEF IsDigit
    <2> HIDE DEF i
    <2> QED BY <2>1, Zenon DEF i
  <1>2. DigitValue(c) = i - 1 BY Zenon DEF DigitValue
  <1> HIDE DEF i
  <1> QED BY <1>1, <1>2

\* The value of a numeral, digit by digit.
LEMMA ValueByDigits ==
    ASSUME NEW w, NEW N \in Nat, N = Len(w), \A i \in 1 .. N : IsDigit(w[i])
    PROVE  \E f \in [0 .. N -> Nat] :
              /\ f[0] = 0 /\ \A i \in 0 .. N - 1 : f[i + 1] = f[i] * 10 + DigitValue(w[i + 1])
              /\ ValueOf(w) = f[N]
  <1> DEFINE G(v) == [i \in 0 .. N |-> IF i = 0 THEN 0 ELSE v[i - 1] * 10 + DigitValue(w[i])]
             c    == CHOOSE v : v = G(v)
             step == [i \in 1 .. N |-> [v \in Int |-> v * 10 + DigitValue(w[i])]]
  <1>1. ValueOf(w) = c[N] BY Zenon DEF ValueOf
  <1>2. step \in [1 .. N -> [Int -> Int]] BY DigitFacts
  <1>3. PICK f \in [0 .. N -> Int] : f[0] = 0 /\ \A i \in 0 .. N - 1 : f[i + 1] = step[i + 1][f[i]]
    <2> HIDE DEF step
    <2> QED BY <1>2, Recursion, Zenon
  <1>4. \A i \in 0 .. N - 1 : f[i + 1] = f[i] * 10 + DigitValue(w[i + 1])
    <2> SUFFICES ASSUME NEW i \in 0 .. N - 1
                 PROVE  f[i + 1] = f[i] * 10 + DigitValue(w[i + 1])
      OBVIOUS
    <2>1. i + 1 \in 1 .. N /\ f[i] \in Int OBVIOUS
    <2>2. f[i + 1] = step[i + 1][f[i]]
      <3> HIDE DEF step
      <3> QED BY <1>3
    <2> HIDE DEF c, G
    <2> QED BY <2>1, <2>2, Zenon
  <1>5. f = G(f)
    <2> SUFFICES ASSUME NEW i \in 0 .. N PROVE f[i] = IF i = 0 THEN 0 ELSE f[i - 1] * 10 + DigitValue(w[i])
      OBVIOUS
    <2>1. CASE i = 0 BY <1>3, <2>1
    <2>2. CASE i \in 1 .. N
      <3>1. i - 1 \in 0 .. N - 1 /\ (i - 1) + 1 = i BY <2>2
      <3>2. f[(i - 1) + 1] = f[i - 1] * 10 + DigitValue(w[(i - 1) + 1]) BY <3>1, <1>4, Zenon
      <3> QED BY <3>1, <3>2, <2>2
    <2> QED BY <2>1, <2>2
  <1>6. c = G(c)
    <2> HIDE DEF G
    <2> QED BY <1>5, Zenon
  <1> HIDE DEF c
  <1>7. c[0] = 0 /\ DOMAIN c = 0 .. N BY <1>6
  <1>8. \A i \in 0 .. N - 1 : c[i + 1] = c[i] * 10 + DigitValue(w[i + 1])
    <2> SUFFICES ASSUME NEW i \in 0 .. N - 1
                 PROVE  c[i + 1] = c[i] * 10 + DigitValue(w[i + 1])
      OBVIOUS
    <2>1. i + 1 \in 0 .. N /\ i + 1 # 0 /\ (i + 1) - 1 = i OBVIOUS
    <2>2. G(c)[i + 1] = c[(i + 1) - 1] * 10 + DigitValue(w[i + 1]) BY <2>1, Zenon
    <2> HIDE DEF G
    <2> QED BY <2>1, <2>2, <1>6
  <1> DEFINE Good == {i \in 0 .. N : c[i] \in Nat}
  <1>9. \A i \in 0 .. N : i \in Good
    <2>1. 0 \in Good BY <1>7
    <2>2. ASSUME NEW n \in 0 .. N - 1, n \in Good PROVE n + 1 \in Good
      <3>1. n + 1 \in 0 .. N /\ n + 1 \in 1 .. N OBVIOUS
      <3>2. DigitValue(w[n + 1]) \in 0 .. 9 BY <3>1, DigitFacts
      <3>3. c[n] \in Nat BY <2>2
      <3>4. c[n + 1] = c[n] * 10 + DigitValue(w[n + 1]) BY <1>8
      <3>5. c[n + 1] \in Nat
        <4>1. \A a \in Nat, d \in 0 .. 9 : a * 10 + d \in Nat OBVIOUS
        <4>2. c[n] * 10 + DigitValue(w[n + 1]) \in Nat BY <4>1, <3>2, <3>3, Zenon
        <4> QED BY <4>2, <3>4, Zenon
      <3> QED BY <3>1, <3>5, Zenon
    <2>3. \A n \in 0 .. N - 1 : n \in Good => n + 1 \in Good BY <2>2
    <2> HIDE DEF Good
    <2> QED BY <2>1, <2>3, Upward, Zenon
  <1>10. c = [i \in 0 .. N |-> c[i]]
    <2> DEFINE e == [i \in 0 .. N |-> IF i = 0 THEN 0 ELSE c[i - 1] * 10 + DigitValue(w[i])]
    <2>1. c = e BY <1>6
    <2> QED BY <2>1
  <1>11. \A i \in 0 .. N : c[i] \in Nat BY <1>9
  <1>12. c \in [0 .. N -> Nat]
    <2> HIDE DEF Good
    <2> QED BY <1>10, <1>11
  <1> QED BY <1>1, <1>7, <1>8, <1>12, Zenon

\* One digit of kill_parse_decimal.
ParserStep(v, c, m) ==
    IF v = -1 \/ ~IsDigit(c) THEN -1
    ELSE LET n == (v * 10 + DigitValue(c)) % 65536 IN IF n > m THEN -1 ELSE n

ParserBody(value, w, m) ==
    [i \in 0 .. Len(w) |->
        IF i = 0 THEN 0
        ELSE LET v == value[i - 1] IN
             IF v = -1 \/ ~IsDigit(w[i]) THEN -1
             ELSE LET n == (v * 10 + DigitValue(w[i])) % 65536 IN IF n > m THEN -1 ELSE n]
Parser(w, m) == CHOOSE value : value = ParserBody(value, w, m)

LEMMA ParserChoice ==
    ASSUME NEW w, NEW m
    PROVE  ParseDecimal(w, m) =
              IF w = << >> \/ Parser(w, m)[Len(w)] = -1 THEN NoNumber ELSE Parser(w, m)[Len(w)]
  BY DEF ParseDecimal, Parser, ParserBody

\* The running value of kill_parse_decimal, digit by digit.
LEMMA ParseByDigits ==
    ASSUME NEW w \in Seq(STRING), NEW N \in Nat, N = Len(w), NEW m \in Nat
    PROVE  \E f \in [0 .. N -> Int] :
              /\ f[0] = 0
              /\ \A i \in 0 .. N - 1 : f[i + 1] = ParserStep(f[i], w[i + 1], m)
              /\ ParseDecimal(w, m) = IF w = << >> \/ f[N] = -1 THEN NoNumber ELSE f[N]
  <1> DEFINE B(i, v) == ParserStep(v, w[i], m)
             G(v) == ParserBody(v, w, m)
             c    == Parser(w, m)
             step == [i \in 1 .. N |-> [v \in Int |-> B(i, v)]]
  <1>2. \A i \in 1 .. N, v \in Int : B(i, v) \in Int BY DigitFacts DEF ParserStep
  <1>a. ASSUME NEW v PROVE G(v) = [i \in 0 .. N |-> IF i = 0 THEN 0 ELSE B(i, v[i - 1])]
    BY DEF ParserStep, ParserBody
  <1> HIDE DEF B, G
  <1>b. step \in [1 .. N -> [Int -> Int]] BY <1>2
  <1>3. PICK f \in [0 .. N -> Int] : f[0] = 0 /\ \A i \in 0 .. N - 1 : f[i + 1] = step[i + 1][f[i]]
    <2> HIDE DEF step
    <2> QED BY <1>b, Recursion, Zenon
  <1>4. \A i \in 0 .. N - 1 : f[i + 1] = B(i + 1, f[i])
    <2> SUFFICES ASSUME NEW i \in 0 .. N - 1
                 PROVE  f[i + 1] = B(i + 1, f[i])
      OBVIOUS
    <2>1. i + 1 \in 1 .. N /\ f[i] \in Int OBVIOUS
    <2>2. f[i + 1] = step[i + 1][f[i]]
      <3> HIDE DEF step
      <3> QED BY <1>3
    <2> HIDE DEF c
    <2> QED BY <2>1, <2>2, Zenon
  <1>d. c = CHOOSE v : v = G(v) BY Zenon DEF Parser, G
  <1>5. f = G(f)
    <2> SUFFICES ASSUME NEW i \in 0 .. N PROVE f[i] = IF i = 0 THEN 0 ELSE B(i, f[i - 1])
      BY <1>a
    <2>1. CASE i = 0 BY <1>3, <2>1
    <2>2. CASE i \in 1 .. N
      <3>1. i - 1 \in 0 .. N - 1 /\ (i - 1) + 1 = i /\ i # 0 BY <2>2
      <3>2. f[(i - 1) + 1] = B((i - 1) + 1, f[i - 1]) BY <3>1, <1>4, Zenon
      <3> QED BY <3>1, <3>2, Zenon
    <2> QED BY <2>1, <2>2
  <1>6. c = G(c)
    <2> HIDE DEF c
    <2> QED BY <1>5, <1>d, Zenon
  <1> HIDE DEF c
  <1>c. c = [i \in 0 .. N |-> IF i = 0 THEN 0 ELSE B(i, c[i - 1])] BY <1>6, <1>a, Zenon
  <1>7. c[0] = 0 /\ DOMAIN c = 0 .. N BY <1>c
  <1>8. \A i \in 0 .. N - 1 : c[i + 1] = B(i + 1, c[i])
    <2> SUFFICES ASSUME NEW i \in 0 .. N - 1
                 PROVE  c[i + 1] = B(i + 1, c[i])
      OBVIOUS
    <2>1. i + 1 \in 0 .. N /\ i + 1 # 0 /\ (i + 1) - 1 = i OBVIOUS
    <2> DEFINE e == [j \in 0 .. N |-> IF j = 0 THEN 0 ELSE B(j, c[j - 1])]
    <2>2. e[i + 1] = B(i + 1, c[(i + 1) - 1]) BY <2>1, Zenon
    <2>3. c = e BY <1>c
    <2> HIDE DEF e
    <2> QED BY <2>1, <2>2, <2>3, Zenon
  <1> DEFINE Good == {i \in 0 .. N : c[i] \in Int}
  <1>9. \A i \in 0 .. N : i \in Good
    <2>1. 0 \in Good BY <1>7
    <2>2. ASSUME NEW n \in 0 .. N - 1, n \in Good PROVE n + 1 \in Good
      <3>1. n + 1 \in 0 .. N /\ n + 1 \in 1 .. N OBVIOUS
      <3>2. c[n] \in Int BY <2>2
      <3>3. c[n + 1] \in Int BY <3>1, <3>2, <1>2, <1>8, Zenon
      <3> QED BY <3>1, <3>3, Zenon
    <2>3. \A n \in 0 .. N - 1 : n \in Good => n + 1 \in Good BY <2>2
    <2> HIDE DEF Good
    <2> QED BY <2>1, <2>3, Upward, Zenon
  <1>10. c = [i \in 0 .. N |-> c[i]]
    <2> DEFINE e == [i \in 0 .. N |-> IF i = 0 THEN 0 ELSE B(i, c[i - 1])]
    <2>1. c = e BY <1>c
    <2> QED BY <2>1
  <1>11. \A i \in 0 .. N : c[i] \in Int BY <1>9
  <1>12. c \in [0 .. N -> Int]
    <2> HIDE DEF Good
    <2> QED BY <1>10, <1>11
  <1>14. ParseDecimal(w, m) = IF w = << >> \/ c[N] = -1 THEN NoNumber ELSE c[N] BY ParserChoice DEF c
  <1> QED BY <1>8,  <1>14, <1>7, <1>12, Zenon DEF B

\* A bound that a 16-bit word can pass by a digit without wrapping.
Small(m) == m \in Nat /\ 10 * m + 9 < 65536

\* A digit more: under a small bound nothing wraps, and over it there is no way back.
LEMMA DigitMore ==
    ASSUME NEW x \in Nat, NEW c, IsDigit(c), NEW m, Small(m)
    PROVE  /\ x * 10 + DigitValue(c) \in Nat
           /\ x <= m => ParserStep(x, c, m) = IF x * 10 + DigitValue(c) <= m THEN x * 10 + DigitValue(c) ELSE -1
           /\ ~(x <= m) => ~(x * 10 + DigitValue(c) <= m)
  <1>0. m \in Nat /\ 10 * m + 9 < 65536 BY DEF Small
  <1> DEFINE d == DigitValue(c)
             n == x * 10 + d
  <1>1. d \in Nat /\ d <= 9 BY DigitFacts
  <1> HIDE DEF d
  <1>2. n \in Nat /\ (~(x <= m) => ~(n <= m)) BY <1>0, <1>1
  <1>3. ASSUME x <= m PROVE ParserStep(x, c, m) = IF n <= m THEN n ELSE -1
    <2>1. n % 65536 = n BY <1>0, <1>1, <1>2, <1>3
    <2>2. x # -1 OBVIOUS
    <2>3. ParserStep(x, c, m) = IF n % 65536 > m THEN -1 ELSE n % 65536 BY <2>2 DEF ParserStep, d
    <2> HIDE DEF n
    <2> QED BY <2>1, <2>3, <1>0, <1>2
  <1> QED BY <1>2, <1>3 DEF d

\* kill_parse_decimal takes exactly the numerals up to its bound: its 16-bit
\* running value never wraps.
LEMMA ParseIsExact ==
    ASSUME NEW w \in Seq(STRING), NEW m, Small(m)
    PROVE  ParseDecimal(w, m) = IF Numeral(w) /\ ValueOf(w) <= m THEN ValueOf(w) ELSE NoNumber
  <1> DEFINE N == Len(w)
  <1>0. N \in Nat /\ DOMAIN w = 1 .. N /\ (w = << >> <=> N = 0)
    BY LenProperties, EmptySeq
  <1>n. N \in Nat BY <1>0
  <1>a. m \in Nat BY DEF Small
  <1>b. N = Len(w) OBVIOUS
  <1> HIDE DEF N
  <1>1. PICK p \in [0 .. N -> Int] :
              /\ p[0] = 0
              /\ \A i \in 0 .. N - 1 : p[i + 1] = ParserStep(p[i], w[i + 1], m)
              /\ ParseDecimal(w, m) = IF w = << >> \/ p[N] = -1 THEN NoNumber ELSE p[N]
    BY <1>n, <1>a, <1>b, ParseByDigits, Zenon
  <1>2. CASE w = << >>
    <2>1. ~Numeral(w) BY <1>2 DEF Numeral
    <2> QED BY <2>1, <1>1, <1>2
  <1>3. CASE w # << >> /\ ~Numeral(w)
    <2>1. PICK j \in 1 .. N : ~IsDigit(w[j]) BY <1>0, <1>3 DEF Numeral
    <2> DEFINE S == {i \in 0 .. N : i >= j => p[i] = -1}
    <2>2. 0 \in S BY <1>0
    <2>3. ASSUME NEW n \in 0 .. N - 1, n \in S PROVE n + 1 \in S
      <3>1. n + 1 \in 0 .. N /\ n \in Int /\ j \in Int BY <1>0
      <3>2. p[n + 1] = ParserStep(p[n], w[n + 1], m) BY <1>1
      <3>3. CASE n + 1 = j
        <4>1. ~IsDigit(w[n + 1]) BY <2>1, <3>3
        <4>2. p[n + 1] = -1 BY <4>1, <3>2 DEF ParserStep
        <4> QED BY <4>2, <3>1
      <3>4. CASE n >= j
        <4>1. p[n] = -1 BY <2>3, <3>4
        <4>2. p[n + 1] = -1 BY <4>1, <3>2 DEF ParserStep
        <4> QED BY <4>2, <3>1
      <3>5. CASE n + 1 < j BY <3>1, <3>5
      <3> QED BY <3>1, <3>3, <3>4, <3>5
    <2>4. \A n \in 0 .. N - 1 : n \in S => n + 1 \in S
      <3> HIDE DEF S
      <3> QED BY <2>3
    <2>5. \A i \in 0 .. N : i \in S
      <3> HIDE DEF S
      <3> QED BY <2>2, <2>4, <1>n, Upward, Zenon
    <2>6. p[N] = -1
      <3>1. N \in S BY <2>5, <1>0
      <3> QED BY <3>1, <1>0
    <2> QED BY <2>6, <1>1, <1>3
  <1>4. CASE Numeral(w)
    <2>1. w # << >> /\ \A i \in 1 .. N : IsDigit(w[i]) BY <1>0, <1>4 DEF Numeral
    <2>2. PICK r \in [0 .. N -> Nat] :
              /\ r[0] = 0 /\ \A i \in 0 .. N - 1 : r[i + 1] = r[i] * 10 + DigitValue(w[i + 1])
              /\ ValueOf(w) = r[N]
      BY <2>1, <1>n, <1>b, ValueByDigits, Zenon
    <2> DEFINE S == {i \in 0 .. N : p[i] = IF r[i] <= m THEN r[i] ELSE -1}
    <2>3. 0 \in S
      <3>1. p[0] = 0 /\ r[0] = 0 /\ 0 \in 0 .. N BY <1>n, <1>1, <2>2
      <3>2. 0 <= m BY <1>a
      <3>3. p[0] = IF r[0] <= m THEN r[0] ELSE -1 BY <3>1, <3>2, Zenon
      <3> QED BY <3>1, <3>3, Zenon
    <2>4. ASSUME NEW n \in 0 .. N - 1, n \in S PROVE n + 1 \in S
      <3>1. n + 1 \in 1 .. N /\ n + 1 \in 0 .. N /\ n \in 0 .. N BY <1>0
      <3>2. p[n + 1] = ParserStep(p[n], w[n + 1], m) BY <1>1
      <3>3. r[n + 1] = r[n] * 10 + DigitValue(w[n + 1]) BY <2>2
      <3>4. r[n] \in Nat /\ IsDigit(w[n + 1]) BY <3>1, <2>1
      <3>5. /\ r[n] <= m => ParserStep(r[n], w[n + 1], m) = IF r[n + 1] <= m THEN r[n + 1] ELSE -1
            /\ ~(r[n] <= m) => ~(r[n + 1] <= m)
        BY <3>3, <3>4, DigitMore
      <3>6. p[n] = IF r[n] <= m THEN r[n] ELSE -1 BY <2>4
      <3>7. p[n + 1] = IF r[n + 1] <= m THEN r[n + 1] ELSE -1
        <4>1. CASE r[n] <= m BY <4>1, <3>2, <3>5, <3>6
        <4>2. CASE ~(r[n] <= m) BY <4>2, <3>2, <3>5, <3>6 DEF ParserStep
        <4> QED BY <4>1, <4>2
      <3> QED BY <3>1, <3>7
    <2>5. \A n \in 0 .. N - 1 : n \in S => n + 1 \in S
      <3> HIDE DEF S
      <3> QED BY <2>4
    <2>6. \A i \in 0 .. N : i \in S
      <3> HIDE DEF S
      <3> QED BY <2>3, <2>5, <1>n, Upward, Zenon
    <2>7. p[N] = IF ValueOf(w) <= m THEN ValueOf(w) ELSE -1
      <3>1. N \in S BY <2>6, <1>0
      <3> QED BY <3>1, <2>2
    <2>8. ValueOf(w) \in Nat BY <2>2, <1>0
    <2> QED BY <2>1, <2>7, <2>8, <1>1, <1>4
  <1> QED BY <1>2, <1>3, <1>4

DigitSet == {Digits[i] : i \in 1 .. 10}

LEMMA DigitTable ==
    ASSUME NEW d \in 0 .. 9
    PROVE  Digits[d + 1] \in DigitSet /\ IsDigit(Digits[d + 1]) /\ DigitValue(Digits[d + 1]) = d
           /\ (d # 0 => Digits[d + 1] # "0")
  <1>1. d + 1 \in 1 .. 10 OBVIOUS
  <1>2. IsDigit(Digits[d + 1]) BY <1>1 DEF IsDigit
  <1>3. \A i, j \in 1 .. 10 : Digits[i] = Digits[j] => i = j BY DEF Digits
  <1>4. DigitValue(Digits[d + 1]) \in 0 .. 9 /\ Digits[DigitValue(Digits[d + 1]) + 1] = Digits[d + 1]
    BY <1>2, DigitFacts
  <1>5. DigitValue(Digits[d + 1]) + 1 = d + 1
    <2> DEFINE k == DigitValue(Digits[d + 1])
    <2>1. k + 1 \in 1 .. 10 BY <1>4
    <2> HIDE DEF k
    <2> QED BY <1>1, <1>3, <1>4, <2>1 DEF k
  <1>6. Digits[d + 1] \in DigitSet BY <1>1 DEF DigitSet
  <1>7. d # 0 => Digits[d + 1] # "0"
    <2>1. Digits[1] = "0" BY DEF Digits
    <2>2. d + 1 = 1 => d = 0 OBVIOUS
    <2> QED BY <1>1, <1>3, <2>1, <2>2
  <1> QED BY <1>2, <1>4, <1>5, <1>6, <1>7

\* A digit at the end.
LEMMA ValueOfAppend ==
    ASSUME NEW A, NEW s \in Seq(A), \A i \in 1 .. Len(s) : IsDigit(s[i]), NEW c \in A, IsDigit(c)
    PROVE  /\ ValueOf(s) \in Nat /\ Append(s, c) \in Seq(A) /\ Len(Append(s, c)) = Len(s) + 1
           /\ \A i \in 1 .. Len(s) + 1 : IsDigit(Append(s, c)[i])
           /\ ValueOf(Append(s, c)) = ValueOf(s) * 10 + DigitValue(c)
  <1> DEFINE N == Len(s)
             t == Append(s, c)
  <1>1. N \in Nat BY LenProperties
  <1>2. /\ t \in Seq(A) /\ Len(t) = N + 1 /\ t[N + 1] = c
        /\ \A i \in 1 .. N : t[i] = s[i]
    <2>1. t \in Seq(A) /\ Len(t) = N + 1 BY AppendProperties
    <2>2. t[N + 1] = c BY AppendProperties
    <2>3. \A i \in 1 .. N : t[i] = s[i] BY AppendProperties
    <2> QED BY <2>1, <2>2, <2>3
  <1>a. \A i \in 1 .. N : IsDigit(s[i]) OBVIOUS
  <1>b. N = Len(s) OBVIOUS
  <1> HIDE DEF N, t
  <1>3. \A i \in 1 .. N + 1 : IsDigit(t[i])
    <2> SUFFICES ASSUME NEW i \in 1 .. N + 1 PROVE IsDigit(t[i]) OBVIOUS
    <2>1. i = N + 1 \/ i \in 1 .. N BY <1>1
    <2> QED BY <2>1, <1>2, <1>a
  <1>4. N + 1 \in Nat /\ N + 1 = Len(t) BY <1>1, <1>2
  <1>5. PICK f \in [0 .. N -> Nat] :
              /\ f[0] = 0 /\ \A i \in 0 .. N - 1 : f[i + 1] = f[i] * 10 + DigitValue(s[i + 1])
              /\ ValueOf(s) = f[N]
    BY <1>1, <1>a, <1>b, ValueByDigits, Zenon
  <1>6. PICK g \in [0 .. N + 1 -> Nat] :
              /\ g[0] = 0 /\ \A i \in 0 .. (N + 1) - 1 : g[i + 1] = g[i] * 10 + DigitValue(t[i + 1])
              /\ ValueOf(t) = g[N + 1]
    BY <1>2, <1>3, <1>4, ValueByDigits, Zenon
  <1>7. (N + 1) - 1 = N BY <1>1
  <1> DEFINE S == {i \in 0 .. N : g[i] = f[i]}
  <1>8. 0 \in S BY <1>1, <1>5, <1>6
  <1>9. \A n \in 0 .. N - 1 : n \in S => n + 1 \in S
    <2> SUFFICES ASSUME NEW n \in 0 .. N - 1, n \in S PROVE n + 1 \in S OBVIOUS
    <2>1. n \in 0 .. N /\ n + 1 \in 0 .. N /\ n + 1 \in 1 .. N BY <1>1
    <2>2. f[n + 1] = f[n] * 10 + DigitValue(s[n + 1]) BY <1>5
    <2>3. g[n + 1] = g[n] * 10 + DigitValue(t[n + 1]) BY <2>1, <1>6, <1>7
    <2>4. t[n + 1] = s[n + 1] /\ g[n] = f[n] BY <2>1, <1>2
    <2>5. g[n + 1] = f[n + 1] BY <2>2, <2>3, <2>4, Zenon
    <2> QED BY <2>1, <2>5
  <1>10. \A n \in 0 .. N : n \in S
    <2> HIDE DEF S
    <2> QED BY <1>1, <1>8, <1>9, Upward, Zenon
  <1>11. g[N] = f[N]
    <2>1. N \in S BY <1>1, <1>10
    <2> QED BY <2>1
  <1>12. g[N + 1] = g[N] * 10 + DigitValue(t[N + 1])
    <2>1. N \in 0 .. (N + 1) - 1 BY <1>1
    <2> QED BY <2>1, <1>6, Zenon
  <1>13. ValueOf(s) \in Nat BY <1>1, <1>5
  <1>14. ValueOf(t) = ValueOf(s) * 10 + DigitValue(c) BY <1>2, <1>5, <1>6, <1>11, <1>12, Zenon
  <1> QED BY <1>2, <1>3, <1>13, <1>14 DEF t, N

\* The digits of the numbers up to N, as neox_applet_format_u32 makes them.
DigitsBody(f, N) ==
    [v \in 0 .. N |-> IF v < 10 THEN <<Digits[v + 1]>> ELSE Append(f[v \div 10], Digits[(v % 10) + 1])]
DigitsUpTo(N) == CHOOSE f : f = DigitsBody(f, N)

LEMMA DigitsExist ==
    ASSUME NEW N \in Nat
    PROVE  DigitsUpTo(N) = DigitsBody(DigitsUpTo(N), N)
  <1> DEFINE Has(n) == \E f : f = DigitsBody(f, n)
             Good   == {n \in 0 .. N : Has(n)}
  <1>1. 0 \in Good
    <2> DEFINE e == [v \in 0 .. 0 |-> <<Digits[1]>>]
    <2>1. e = DigitsBody(e, 0)
      <3>1. \A v \in 0 .. 0 : v = 0 /\ v < 10 OBVIOUS
      <3> QED BY <3>1 DEF DigitsBody
    <2> HIDE DEF e
    <2>2. Has(0) BY <2>1, Zenon
    <2>3. 0 \in 0 .. N OBVIOUS
    <2> HIDE DEF Has
    <2> QED BY <2>2, <2>3
  <1>2. ASSUME NEW n \in 0 .. N - 1, n \in Good PROVE n + 1 \in Good
    <2>1. PICK f : f = DigitsBody(f, n) BY <1>2
    <2> DEFINE g == DigitsBody(f, n + 1)
    <2>2. \A v \in 0 .. n : f[v] = IF v < 10 THEN <<Digits[v + 1]>>
                                   ELSE Append(f[v \div 10], Digits[(v % 10) + 1])
      BY <2>1 DEF DigitsBody
    <2>3. \A v \in 0 .. n : g[v] = f[v]
      <3>1. \A v \in 0 .. n : v \in 0 .. n + 1 OBVIOUS
      <3> QED BY <3>1, <2>2, Zenon DEF DigitsBody
    <2>4. \A v \in 0 .. n + 1 : ~(v < 10) => v \div 10 \in 0 .. n OBVIOUS
    <2>5. \A v \in 0 .. n + 1 : (IF v < 10 THEN <<Digits[v + 1]>> ELSE Append(f[v \div 10], Digits[(v % 10) + 1]))
                              = (IF v < 10 THEN <<Digits[v + 1]>> ELSE Append(g[v \div 10], Digits[(v % 10) + 1]))
      <3> HIDE DEF g
      <3> QED BY <2>3, <2>4, Zenon
    <2>6. g = DigitsBody(g, n + 1)
      <3>1. DigitsBody(f, n + 1) = DigitsBody(g, n + 1)
        <4> HIDE DEF g
        <4> QED BY <2>5 DEF DigitsBody
      <3> QED BY <3>1, Zenon
    <2> HIDE DEF g
    <2>7. Has(n + 1) BY <2>6, Zenon
    <2>8. n + 1 \in 0 .. N OBVIOUS
    <2> HIDE DEF Has
    <2> QED BY <2>7, <2>8
  <1>3. N \in Good
    <2> HIDE DEF Good
    <2>1. \A n \in 0 .. N - 1 : n \in Good => n + 1 \in Good BY <1>2
    <2>2. \A n \in 0 .. N : n \in Good BY <1>1, <2>1, Upward, Zenon
    <2> QED BY <2>2
  <1>4. Has(N)
    <2> HIDE DEF Has
    <2> QED BY <1>3
  <1> QED BY <1>4, Zenon DEF DigitsUpTo

\* What a formatted number is.
Formatted(s, v) ==
    /\ s \in Seq(DigitSet) /\ Len(s) \in Nat \ {0} /\ \A i \in 1 .. Len(s) : IsDigit(s[i])
    /\ ValueOf(s) = v
    /\ v > 0 => s[1] # "0"

LEMMA OneDigit ==
    ASSUME NEW d \in 0 .. 9
    PROVE  Formatted(<<Digits[d + 1]>>, d)
  <1> DEFINE s == <<Digits[d + 1]>>
  <1>1. /\ Digits[d + 1] \in DigitSet /\ IsDigit(Digits[d + 1]) /\ DigitValue(Digits[d + 1]) = d
        /\ d # 0 => Digits[d + 1] # "0"
    BY DigitTable
  <1>2. s \in Seq(DigitSet) /\ Len(s) = 1 /\ s[1] = Digits[d + 1] BY <1>1
  <1> HIDE DEF s
  <1>3. \A i \in 1 .. 1 : IsDigit(s[i])
    <2>1. \A i \in 1 .. 1 : i = 1 OBVIOUS
    <2> QED BY <2>1, <1>1, <1>2, Zenon
  <1>4. 1 \in Nat /\ 1 = Len(s) BY <1>2
  <1>5. PICK f \in [0 .. 1 -> Nat] :
              /\ f[0] = 0 /\ \A i \in 0 .. 1 - 1 : f[i + 1] = f[i] * 10 + DigitValue(s[i + 1])
              /\ ValueOf(s) = f[1]
    BY <1>3, <1>4, ValueByDigits, Zenon
  <1>6. f[0 + 1] = f[0] * 10 + DigitValue(s[0 + 1])
    <2>1. 0 \in 0 .. 1 - 1 OBVIOUS
    <2> QED BY <2>1, <1>5, Zenon
  <1>7. 0 + 1 = 1 OBVIOUS
  <1>8. f[1] = 0 * 10 + d BY <1>1, <1>2, <1>5, <1>6, <1>7, Zenon
  <1>9. ValueOf(s) = d BY <1>5, <1>8
  <1>10. d > 0 => d # 0 OBVIOUS
  <1>11. s[1] # "0" \/ ~(d > 0) BY <1>1, <1>2, <1>10, Zenon
  <1>12. Len(s) \in Nat \ {0} BY <1>2
  <1>13. \A i \in 1 .. Len(s) : IsDigit(s[i]) BY <1>3, <1>4, Zenon
  <1> QED BY <1>2, <1>9, <1>11, <1>12, <1>13 DEF Formatted, s

LEMMA MoreDigits ==
    ASSUME NEW q \in Nat \ {0}, NEW s, Formatted(s, q), NEW d \in 0 .. 9
    PROVE  Formatted(Append(s, Digits[d + 1]), q * 10 + d) /\ Len(Append(s, Digits[d + 1])) = Len(s) + 1
  <1> DEFINE c == Digits[d + 1]
             t == Append(s, c)
  <1>1. c \in DigitSet /\ IsDigit(c) /\ DigitValue(c) = d BY DigitTable
  <1>2. /\ s \in Seq(DigitSet) /\ Len(s) \in Nat \ {0} /\ \A i \in 1 .. Len(s) : IsDigit(s[i])
        /\ ValueOf(s) = q /\ s[1] # "0"
    BY DEF Formatted
  <1> HIDE DEF c
  <1>3. /\ t \in Seq(DigitSet) /\ Len(t) = Len(s) + 1
        /\ \A i \in 1 .. Len(s) + 1 : IsDigit(t[i])
        /\ ValueOf(t) = ValueOf(s) * 10 + DigitValue(c)
    BY <1>1, <1>2, ValueOfAppend
  <1>4. t[1] = s[1]
    <2>1. 1 \in 1 .. Len(s) BY <1>2
    <2> QED BY <2>1, <1>1, <1>2, AppendProperties
  <1> HIDE DEF t
  <1>5. Len(t) \in Nat \ {0} BY <1>2, <1>3
  <1>6. \A i \in 1 .. Len(t) : IsDigit(t[i]) BY <1>3
  <1>7. ValueOf(t) = q * 10 + d BY <1>1, <1>2, <1>3
  <1>8. Formatted(t, q * 10 + d) BY <1>2, <1>3, <1>4, <1>5, <1>6, <1>7 DEF Formatted
  <1> QED BY <1>3, <1>8 DEF t, c

\* Everything neox_applet_format_u32 makes on the way to N, and how long it is.
LEMMA AllFormatted ==
    ASSUME NEW N \in Nat
    PROVE  \A v \in 0 .. N :
              /\ Formatted(DigitsUpTo(N)[v], v)
              /\ v < 10 => Len(DigitsUpTo(N)[v]) = 1
              /\ ~(v < 10) => v \div 10 \in 0 .. N /\ Len(DigitsUpTo(N)[v]) = Len(DigitsUpTo(N)[v \div 10]) + 1
  <1> DEFINE f == DigitsUpTo(N)
  <1>1. \A v \in 0 .. N : f[v] = IF v < 10 THEN <<Digits[v + 1]>>
                                 ELSE Append(f[v \div 10], Digits[(v % 10) + 1])
    <2>1. f = DigitsBody(f, N) BY DigitsExist
    <2> HIDE DEF f
    <2> QED BY <2>1 DEF DigitsBody
  <1> HIDE DEF f
  <1> DEFINE Bad == {v \in 0 .. N : ~Formatted(f[v], v)}
  <1>2. Bad = {}
    <2> SUFFICES ASSUME Bad # {} PROVE FALSE OBVIOUS
    <2>1. Bad \in SUBSET Nat OBVIOUS
    <2>2. PICK v \in Bad : \A u \in Bad : v <= u
      <3> HIDE DEF Bad
      <3> QED BY <2>1, LeastNumber
    <2>3. v \in 0 .. N /\ ~Formatted(f[v], v) OBVIOUS
    <2>4. CASE v < 10
      <3>1. v \in 0 .. 9 BY <2>3, <2>4
      <3>2. f[v] = <<Digits[v + 1]>> BY <1>1, <2>3, <2>4, Zenon
      <3> QED BY <2>3, <3>1, <3>2, OneDigit
    <2>5. CASE ~(v < 10)
      <3> DEFINE q == v \div 10
                 d == v % 10
      <3>1. q \in Nat \ {0} /\ q \in 0 .. N /\ q < v /\ d \in 0 .. 9 /\ v = q * 10 + d BY <2>3, <2>5
      <3>2. f[v] = Append(f[q], Digits[d + 1]) BY <1>1, <2>3, <2>5, Zenon
      <3> HIDE DEF q, d
      <3>3. Formatted(f[q], q)
        <4>1. q \notin Bad BY <2>2, <2>3, <3>1
        <4> QED BY <4>1, <3>1
      <3>4. Formatted(Append(f[q], Digits[d + 1]), q * 10 + d) BY <3>1, <3>3, MoreDigits
      <3>5. Formatted(f[v], v) BY <3>1, <3>2, <3>4, Zenon
      <3> QED BY <3>5, <2>3
    <2> QED BY <2>4, <2>5
  <1>3. \A v \in 0 .. N : Formatted(f[v], v) BY <1>2
  <1>4. ASSUME NEW v \in 0 .. N
        PROVE  /\ v < 10 => Len(f[v]) = 1
               /\ ~(v < 10) => v \div 10 \in 0 .. N /\ Len(f[v]) = Len(f[v \div 10]) + 1
    <2>1. CASE v < 10
      <3>1. f[v] = <<Digits[v + 1]>> BY <1>1, <2>1, Zenon
      <3> QED BY <2>1, <3>1
    <2>2. CASE ~(v < 10)
      <3> DEFINE q == v \div 10
                 d == v % 10
      <3>1. q \in Nat \ {0} /\ q \in 0 .. N /\ d \in 0 .. 9 BY <2>2
      <3>2. f[v] = Append(f[q], Digits[d + 1]) BY <1>1, <2>2, Zenon
      <3>a. v \div 10 = q OBVIOUS
      <3> HIDE DEF q, d
      <3>3. Len(Append(f[q], Digits[d + 1])) = Len(f[q]) + 1 BY <3>1, <1>3, MoreDigits
      <3> QED BY <2>2, <3>1, <3>2, <3>3, <3>a, Zenon
    <2> QED BY <2>1, <2>2
  <1> QED BY <1>3, <1>4 DEF f

\* No number below b has more than k digits.
Short(N, k, b) == \A v \in 0 .. N : v < b => Len(DigitsUpTo(N)[v]) <= k

LEMMA ShortNumbers ==
    ASSUME NEW N \in Nat
    PROVE  Short(N, 1, 10)
  <1> SUFFICES ASSUME NEW v \in 0 .. N, v < 10 PROVE Len(DigitsUpTo(N)[v]) <= 1 BY DEF Short
  <1>1. Len(DigitsUpTo(N)[v]) = 1 BY AllFormatted
  <1> QED BY <1>1

\* One digit more, ten times as many numbers.
LEMMA LongerNumbers ==
    ASSUME NEW N \in Nat, NEW k \in Nat, NEW b \in Nat, Short(N, k, b)
    PROVE  Short(N, k + 1, 10 * b)
  <1> DEFINE f == DigitsUpTo(N)
  <1> SUFFICES ASSUME NEW v \in 0 .. N, v < 10 * b PROVE Len(f[v]) <= k + 1 BY DEF Short
  <1>0. \A u \in 0 .. N : u < b => Len(f[u]) <= k BY DEF Short
  <1>1. /\ v < 10 => Len(f[v]) = 1
        /\ ~(v < 10) => v \div 10 \in 0 .. N /\ Len(f[v]) = Len(f[v \div 10]) + 1
    BY AllFormatted
  <1>2. v \div 10 \in 0 .. N => Len(f[v \div 10]) \in Nat
    BY AllFormatted DEF Formatted
  <1> HIDE DEF f
  <1>3. CASE v < 10
    <2>1. Len(f[v]) = 1 BY <1>1, <1>3
    <2>2. 1 <= k + 1 OBVIOUS
    <2> QED BY <2>1, <2>2
  <1>4. CASE ~(v < 10)
    <2> DEFINE q == v \div 10
    <2>1. q < b
      <3> DEFINE d == v % 10
      <3>1. q \in Nat /\ d \in 0 .. 9 /\ v = q * 10 + d OBVIOUS
      <3> HIDE DEF q, d
      <3> QED BY <3>1
    <2>2. q \in 0 .. N /\ Len(f[v]) = Len(f[q]) + 1 /\ Len(f[q]) \in Nat BY <1>1, <1>2, <1>4
    <2> HIDE DEF q
    <2> QED BY <2>1, <2>2, <1>0
  <1> QED BY <1>3, <1>4

\* A uint32_t has at most ten digits.
Tenfold(b) == 10 * b
Billions   == Tenfold(Tenfold(Tenfold(Tenfold(Tenfold(Tenfold(Tenfold(Tenfold(Tenfold(10)))))))))

LEMMA ShortBillions ==
    ASSUME NEW N \in Nat
    PROVE  Short(N, 10, Billions)
  <1>1. Short(N, 1, 10) BY ShortNumbers
  <1>2. ASSUME NEW k \in Nat, NEW b \in Nat, Short(N, k, b)
        PROVE  Short(N, k + 1, Tenfold(b)) /\ Tenfold(b) \in Nat
    <2>1. Short(N, k + 1, 10 * b) BY <1>2, LongerNumbers, Zenon
    <2> QED BY <2>1 DEF Tenfold
  <1> DEFINE T1 == Tenfold(10)
             T2 == Tenfold(T1)
             T3 == Tenfold(T2)
             T4 == Tenfold(T3)
             T5 == Tenfold(T4)
             T6 == Tenfold(T5)
             T7 == Tenfold(T6)
             T8 == Tenfold(T7)
             T9 == Tenfold(T8)
  <1>3. Billions = T9 BY Zenon DEF Billions
  <1>4. Short(N, 2, T1) /\ T1 \in Nat BY <1>1, <1>2
  <1> HIDE DEF T1
  <1>5. Short(N, 3, T2) /\ T2 \in Nat BY <1>4, <1>2
  <1> HIDE DEF T2
  <1>6. Short(N, 4, T3) /\ T3 \in Nat BY <1>5, <1>2
  <1> HIDE DEF T3
  <1>7. Short(N, 5, T4) /\ T4 \in Nat BY <1>6, <1>2
  <1> HIDE DEF T4
  <1>8. Short(N, 6, T5) /\ T5 \in Nat BY <1>7, <1>2
  <1> HIDE DEF T5
  <1>9. Short(N, 7, T6) /\ T6 \in Nat BY <1>8, <1>2
  <1> HIDE DEF T6
  <1>10. Short(N, 8, T7) /\ T7 \in Nat BY <1>9, <1>2
  <1> HIDE DEF T7
  <1>11. Short(N, 9, T8) /\ T8 \in Nat BY <1>10, <1>2
  <1> HIDE DEF T8
  <1>12. Short(N, 10, T9) BY <1>11, <1>2
  <1> QED BY <1>3, <1>12, Zenon

LEMMA BillionsBound == \A n \in Nat : n < 65536 * 65536 => n < Billions
  <1>1. Billions \in Nat /\ 65536 * 65536 < Billions BY DEF Billions, Tenfold
  <1> QED BY <1>1

LEMMA FormatIsExact ==
    ASSUME NEW n \in Nat
    PROVE  Formatted(FormatU32(n), n) /\ (n < 65536 * 65536 => Len(FormatU32(n)) <= 10)
  <1>1. FormatU32(n) = DigitsUpTo(n)[n] BY DEF FormatU32, DigitsUpTo, DigitsBody
  <1>2. n \in 0 .. n OBVIOUS
  <1>3. Formatted(DigitsUpTo(n)[n], n) BY <1>2, AllFormatted
  <1>4. n < 65536 * 65536 => Len(DigitsUpTo(n)[n]) <= 10
    <2> SUFFICES ASSUME n < 65536 * 65536 PROVE Len(DigitsUpTo(n)[n]) <= 10 OBVIOUS
    <2>1. n < Billions BY BillionsBound
    <2> QED BY <2>1, <1>2, ShortBillions DEF Short
  <1> QED BY <1>1, <1>3, <1>4

LEMMA NumeralValue ==
    ASSUME NEW w \in Seq(STRING), Numeral(w)
    PROVE  ValueOf(w) \in Nat
  <1> DEFINE N == Len(w)
  <1>1. N \in Nat /\ N = Len(w) BY LenProperties
  <1>2. \A i \in 1 .. N : IsDigit(w[i]) BY LenProperties DEF Numeral
  <1> HIDE DEF N
  <1>3. PICK f \in [0 .. N -> Nat] :
              /\ f[0] = 0 /\ \A i \in 0 .. N - 1 : f[i + 1] = f[i] * 10 + DigitValue(w[i + 1])
              /\ ValueOf(w) = f[N]
    BY <1>1, <1>2, ValueByDigits, Zenon
  <1> QED BY <1>1, <1>3

LEMMA SmallBounds == Small(MaxPid) /\ Small(19)
  BY DEF Small, MaxPid

LEMMA TailOfWord ==
    ASSUME NEW w \in Seq(STRING), ~(Len(w) < 2)
    PROVE  Tail(w) \in Seq(STRING)
  <1>1. w # << >> BY EmptySeq
  <1> QED BY <1>1, HeadTailProperties

LEMMA PidRange ==
    ASSUME NEW p \in Nat, p <= MaxPid, p # 0
    PROVE  p \in 1 .. MaxPid
  BY DEF MaxPid

\* What kill asks for is what was typed.
LEMMA KillIsExact ==
    ASSUME NEW as \in Seq(Seq(STRING)), KillRequest(as).pid # 0
    PROVE  LET k == KillRequest(as) IN
           /\ k.pid \in 1 .. MaxPid /\ k.signal \in Signals
           /\ k.pid = ValueOf(as[2]) /\ k.signal = ValueOf(Tail(as[1]))
  <1> DEFINE p == ParseDecimal(as[2], MaxPid)
             s == ParseDecimal(Tail(as[1]), 19)
  <1>1. Len(as) = 2 /\ ParseSignal(as[1]) # NoNumber /\ p \notin {NoNumber, 0} BY DEF KillRequest
  <1>2. KillRequest(as) = [pid |-> p, signal |-> ParseSignal(as[1])] BY <1>1 DEF KillRequest
  <1>3. ParseSignal(as[1]) = s /\ s \in Signals /\ ~(Len(as[1]) < 2) BY <1>1 DEF ParseSignal
  <1>4. as[1] \in Seq(STRING) /\ as[2] \in Seq(STRING)
    <2>1. 1 \in 1 .. Len(as) /\ 2 \in 1 .. Len(as) BY <1>1
    <2> QED BY <2>1, ElementOfSeq
  <1>5. Tail(as[1]) \in Seq(STRING) BY <1>3, <1>4, TailOfWord
  <1>6. p = IF Numeral(as[2]) /\ ValueOf(as[2]) <= MaxPid THEN ValueOf(as[2]) ELSE NoNumber
    BY <1>4, SmallBounds, ParseIsExact
  <1>7. s = IF Numeral(Tail(as[1])) /\ ValueOf(Tail(as[1])) <= 19 THEN ValueOf(Tail(as[1])) ELSE NoNumber
    BY <1>5, SmallBounds, ParseIsExact
  <1>8. NoNumber \notin Signals BY DEF NoNumber, Signals
  <1>9. p = ValueOf(as[2]) /\ p <= MaxPid /\ p # 0 BY <1>1, <1>6
  <1>10. s = ValueOf(Tail(as[1])) BY <1>3, <1>7, <1>8
  <1>11. p \in Nat
    <2>1. Numeral(as[2]) BY <1>1, <1>6
    <2> QED BY <2>1, <1>4, <1>9, NumeralValue
  <1> HIDE DEF p, s
  <1>12. p \in 1 .. MaxPid BY <1>9, <1>11, PidRange
  <1>13. KillRequest(as).pid = p /\ KillRequest(as).signal = ParseSignal(as[1]) BY <1>2
  <1> QED BY <1>13, <1>3, <1>9, <1>10, <1>12

\* The constants are values that the code can meet: texts, and words of 32 bits.
NumbersInRange ==
    /\ Probes \subseteq Seq(STRING)
    /\ Values \subseteq Nat /\ \A n \in Values : n < 65536 * 65536

LEMMA ConversionsAgree ==
    ASSUME NumbersInRange
    PROVE  /\ \A w \in Probes, m \in {MaxPid, 19} :
                 ParseDecimal(w, m) = IF Numeral(w) /\ ValueOf(w) <= m THEN ValueOf(w) ELSE NoNumber
           /\ \A n \in Values :
                 /\ Numeral(FormatU32(n)) /\ ValueOf(FormatU32(n)) = n /\ Len(FormatU32(n)) <= 10
                 /\ n > 0 => FormatU32(n)[1] # "0"
  <1>1. ASSUME NEW w \in Probes, NEW m \in {MaxPid, 19}
        PROVE  ParseDecimal(w, m) = IF Numeral(w) /\ ValueOf(w) <= m THEN ValueOf(w) ELSE NoNumber
    <2>1. w \in Seq(STRING) BY DEF NumbersInRange
    <2>2. Small(m) BY SmallBounds
    <2> QED BY <2>1, <2>2, ParseIsExact
  <1>2. ASSUME NEW n \in Values
        PROVE  /\ Numeral(FormatU32(n)) /\ ValueOf(FormatU32(n)) = n /\ Len(FormatU32(n)) <= 10
               /\ n > 0 => FormatU32(n)[1] # "0"
    <2> DEFINE s == FormatU32(n)
    <2>1. n \in Nat /\ n < 65536 * 65536 BY DEF NumbersInRange
    <2>2. Formatted(s, n) /\ Len(s) <= 10 BY <2>1, FormatIsExact
    <2> HIDE DEF s
    <2>3. /\ s \in Seq(DigitSet) /\ Len(s) \in Nat \ {0} /\ \A i \in 1 .. Len(s) : IsDigit(s[i])
          /\ ValueOf(s) = n /\ (n > 0 => s[1] # "0")
      BY <2>2 DEF Formatted
    <2>4. s # << >> BY <2>3, EmptySeq
    <2>5. DOMAIN s = 1 .. Len(s) BY <2>3, LenProperties
    <2>6. Numeral(s) BY <2>3, <2>4, <2>5 DEF Numeral
    <2> QED BY <2>2, <2>3, <2>6 DEF s
  <1> QED BY <1>1, <1>2

\* The signal that was sent is the one asked for.
Asked == job \in Jobs /\ (sent # NoSignal => KillRequest(job.args).pid # 0 /\ sent = KillRequest(job.args))

LEMMA OnlyKillSends == [Next]_vars => sent' = sent \/ Kill
  BY DEF Next, AppletStep, vars, idle, RejectUsage, WriteSome, WriteFails, CatStdin, OpenSource, SamePath,
     CreateDestination, ReadSome, ReadFails, ReadEnd, Echo, Pwd, Rm, Rmdir, Mkdir, Mv,
     PathOperation, LsStart, OpenDir, ReadDir, CloseDir, ReadDirFails, PsStart, PsInfo, PsInfoFails,
     PsEnd, OtherEntry, OtherProcess

LEMMA NextAsked ==
    ASSUME Asked, [Next]_vars
    PROVE  Asked'
  <1>1. job' = job BY JobStays
  <1>2. KillRequest(job.args)' = KillRequest(job.args) BY <1>1
  <1>3. CASE sent' = sent BY <1>1, <1>2, <1>3 DEF Asked
  <1>4. CASE Kill
    <2>1. sent' = sent \/ (KillRequest(job.args).pid # 0 /\ sent' = KillRequest(job.args))
      BY <1>4 DEF Kill
    <2> QED BY <1>1, <1>2, <2>1 DEF Asked
  <1> QED BY <1>3, <1>4, OnlyKillSends

\* The parsers take exactly the numerals up to their bounds and the formatter
\* makes the numeral of its argument, in at most ten digits and with no zero in
\* front; kill sends what was typed, to a process and with a signal that exist.
THEOREM NumbersConvert == Spec /\ NumbersInRange => []NumbersAgree
  <1>1. Init => Asked BY DEF Init, Asked
  <1>2. Asked /\ [Next]_vars => Asked' BY NextAsked
  <1>3. ASSUME Asked, NumbersInRange PROVE NumbersAgree
    <2>1. ASSUME sent # NoSignal
          PROVE  /\ sent.pid \in 1 .. MaxPid /\ sent.signal \in Signals
                 /\ sent.pid = ValueOf(job.args[2]) /\ sent.signal = ValueOf(Tail(job.args[1]))
      <3>1. job.args \in Seq(Seq(STRING)) BY <1>3, FilesAssumption DEF Asked
      <3>2. KillRequest(job.args).pid # 0 /\ sent = KillRequest(job.args) BY <1>3, <2>1 DEF Asked
      <3>3. LET k == KillRequest(job.args) IN
            /\ k.pid \in 1 .. MaxPid /\ k.signal \in Signals
            /\ k.pid = ValueOf(job.args[2]) /\ k.signal = ValueOf(Tail(job.args[1]))
        BY <3>1, <3>2, KillIsExact
      <3> QED BY <3>2, <3>3
    <2> QED BY <1>3, <2>1, ConversionsAgree DEF NumbersAgree
  <1>4. NumbersInRange /\ [Next]_vars => NumbersInRange' BY DEF NumbersInRange
  <1> QED BY <1>1, <1>2, <1>3, <1>4, PTL DEF Spec

----------------------------------------------------------------------------
(***************************************************************************)
(* Listings.  What ls has put out is what it has written and what it still *)
(* has to write; an entry that nobody touches is in it once from the step  *)
(* that reads it in its own pass, and not before.                          *)
(***************************************************************************)
\* A text once in a listing, and never.
Once(s, x)  == \E i \in DOMAIN s : s[i] = x /\ \A j \in DOMAIN s : s[j] = x => j = i
Never(s, x) == \A i \in DOMAIN s : s[i] # x

LEMMA OnceIsOne ==
    ASSUME NEW s, NEW x, Once(s, x)
    PROVE  Cardinality({i \in DOMAIN s : s[i] = x}) = 1
  <1>1. PICK i \in DOMAIN s : s[i] = x /\ \A j \in DOMAIN s : s[j] = x => j = i BY DEF Once
  <1>2. {j \in DOMAIN s : s[j] = x} = {i} BY <1>1
  <1> QED BY <1>2, FS_Singleton

\* What follows is about a listing s and a row of three texts behind it.
LEMMA RowBehind ==
    ASSUME NEW A, NEW s \in Seq(A), NEW a \in A, NEW b \in A, NEW c \in A
    PROVE  LET t == s \o <<a, b, c>> IN
           /\ t \in Seq(A) /\ DOMAIN s = 1 .. Len(s) /\ Len(s) \in Nat
           /\ DOMAIN t = DOMAIN s \cup {Len(s) + 1, Len(s) + 2, Len(s) + 3}
           /\ \A i \in DOMAIN s : t[i] = s[i]
           /\ t[Len(s) + 1] = a /\ t[Len(s) + 2] = b /\ t[Len(s) + 3] = c
  <1> DEFINE r == <<a, b, c>>
             t == s \o r
             n == Len(s)
  <1>1. r \in Seq(A) /\ Len(r) = 3 /\ r[1] = a /\ r[2] = b /\ r[3] = c OBVIOUS
  <1> HIDE DEF r
  <1>2. n \in Nat /\ DOMAIN s = 1 .. n BY LenProperties
  <1>3. /\ t \in Seq(A) /\ Len(t) = n + 3
        /\ \A i \in 1 .. n + 3 : t[i] = IF i <= n THEN s[i] ELSE r[i - n]
    <2>1. /\ s \o r \in Seq(A) /\ Len(s \o r) = Len(s) + Len(r)
          /\ \A i \in 1 .. Len(s) + Len(r) : (s \o r)[i] = IF i <= Len(s) THEN s[i] ELSE r[i - Len(s)]
      BY <1>1, ConcatProperties, Zenon
    <2> QED BY <1>1, <2>1, Zenon
  <1>4. DOMAIN t = 1 .. Len(t) BY <1>3, LenProperties
  <1> HIDE DEF t, n
  <1>5. \A i \in 1 .. n : t[i] = s[i] BY <1>2, <1>3
  <1>6. t[n + 1] = r[1] /\ t[n + 2] = r[2] /\ t[n + 3] = r[3]
    <2>1. n + 1 \in 1 .. n + 3 /\ n + 2 \in 1 .. n + 3 /\ n + 3 \in 1 .. n + 3 BY <1>2
    <2>2. ~(n + 1 <= n) /\ ~(n + 2 <= n) /\ ~(n + 3 <= n) BY <1>2
    <2>3. (n + 1) - n = 1 /\ (n + 2) - n = 2 /\ (n + 3) - n = 3 BY <1>2
    <2> QED BY <2>1, <2>2, <2>3, <1>3
  <1>7. 1 .. n + 3 = (1 .. n) \cup {n + 1, n + 2, n + 3} BY <1>2
  <1>8. DOMAIN t = DOMAIN s \cup {n + 1, n + 2, n + 3} BY <1>2, <1>3, <1>4, <1>7
  <1> QED BY <1>1, <1>2, <1>3, <1>5, <1>6, <1>8 DEF t, r, n

LEMMA RowKeeps ==
    ASSUME NEW A, NEW s \in Seq(A), NEW a \in A, NEW b \in A, NEW c \in A,
           NEW x, x \notin {a, b, c}
    PROVE  /\ Once(s, x) => Once(s \o <<a, b, c>>, x)
           /\ Never(s, x) => Never(s \o <<a, b, c>>, x)
  <1> DEFINE t == s \o <<a, b, c>>
             n == Len(s)
  <1>1. /\ DOMAIN t = DOMAIN s \cup {n + 1, n + 2, n + 3}
        /\ \A i \in DOMAIN s : t[i] = s[i]
        /\ t[n + 1] = a /\ t[n + 2] = b /\ t[n + 3] = c
    BY RowBehind
  <1> HIDE DEF t, n
  <1>2. \A i \in DOMAIN t : t[i] = x => i \in DOMAIN s /\ s[i] = x BY <1>1, Zenon
  <1>3. ASSUME Once(s, x) PROVE Once(t, x)
    <2>1. PICK i \in DOMAIN s : s[i] = x /\ \A j \in DOMAIN s : s[j] = x => j = i BY <1>3 DEF Once
    <2>2. i \in DOMAIN t /\ t[i] = x BY <1>1, <2>1
    <2> QED BY <2>1, <2>2, <1>2, Zenon DEF Once
  <1>4. Never(s, x) => Never(t, x) BY <1>2, Zenon DEF Never
  <1> QED BY <1>3, <1>4 DEF t

LEMMA RowAdds ==
    ASSUME NEW A, NEW s \in Seq(A), NEW a \in A, NEW b \in A, NEW c \in A,
           a \notin {b, c}, Never(s, a)
    PROVE  Once(s \o <<a, b, c>>, a)
  <1> DEFINE t == s \o <<a, b, c>>
             n == Len(s)
  <1>1. /\ DOMAIN t = DOMAIN s \cup {n + 1, n + 2, n + 3}
        /\ \A i \in DOMAIN s : t[i] = s[i]
        /\ t[n + 1] = a /\ t[n + 2] = b /\ t[n + 3] = c
    BY RowBehind
  <1> HIDE DEF t, n
  <1>2. \A i \in DOMAIN t : t[i] = a => i = n + 1 BY <1>1, Zenon DEF Never
  <1>3. n + 1 \in DOMAIN t /\ t[n + 1] = a BY <1>1, Zenon
  <1>4. Once(t, a) BY <1>2, <1>3, Zenon DEF Once
  <1> QED BY <1>4 DEF t

\* Every x before every y.
Before(s, x, y) == \A i, j \in DOMAIN s : s[i] = y /\ s[j] = x => j < i

LEMMA RowOrdered ==
    ASSUME NEW A, NEW s \in Seq(A), NEW a \in A, NEW b \in A, NEW c \in A, NEW x, NEW y, x # y,
           Before(s, x, y), x \notin {a, b, c} \/ (Never(s, y) /\ y \notin {a, b, c})
    PROVE  Before(s \o <<a, b, c>>, x, y)
  <1> DEFINE t == s \o <<a, b, c>>
             n == Len(s)
  <1>1. /\ DOMAIN s = 1 .. n /\ n \in Nat
        /\ DOMAIN t = DOMAIN s \cup {n + 1, n + 2, n + 3}
        /\ \A i \in DOMAIN s : t[i] = s[i]
        /\ t[n + 1] = a /\ t[n + 2] = b /\ t[n + 3] = c
    BY RowBehind
  <1> HIDE DEF t, n
  <1> SUFFICES ASSUME NEW i \in DOMAIN t, NEW j \in DOMAIN t, t[i] = y, t[j] = x
               PROVE  j < i
    BY DEF Before, t
  <1>2. CASE x \notin {a, b, c}
    <2>1. j \in DOMAIN s /\ s[j] = x BY <1>1, <1>2, Zenon
    <2>2. CASE i \in DOMAIN s BY <1>1, <2>1, <2>2 DEF Before
    <2>3. CASE i \in {n + 1, n + 2, n + 3} BY <1>1, <2>1, <2>3
    <2> QED BY <1>1, <2>2, <2>3
  <1>3. CASE Never(s, y) /\ y \notin {a, b, c} BY <1>1, <1>3, Zenon DEF Never
  <1> QED BY <1>2, <1>3

\* What is written and what is still to be written.
Put == IF pc = "write" THEN out \o todo ELSE out

\* r is s followed by t.
Joins(r, s, t) ==
    /\ Len(r) = Len(s) + Len(t)
    /\ \A i \in 1 .. Len(s) + Len(t) : r[i] = IF i <= Len(s) THEN s[i] ELSE t[i - Len(s)]

LEMMA ConcatJoins ==
    ASSUME NEW A, NEW s \in Seq(A), NEW t \in Seq(A)
    PROVE  s \o t \in Seq(A) /\ Joins(s \o t, s, t)
  <1>1. /\ s \o t \in Seq(A) /\ Len(s \o t) = Len(s) + Len(t)
        /\ \A i \in 1 .. Len(s) + Len(t) : (s \o t)[i] = IF i <= Len(s) THEN s[i] ELSE t[i - Len(s)]
    BY ConcatProperties, Zenon
  <1> QED BY <1>1, Zenon DEF Joins

LEMMA JoinsAgree ==
    ASSUME NEW A, NEW s \in Seq(A), NEW t \in Seq(A), NEW u \in Seq(A),
           NEW st \in Seq(A), NEW tu \in Seq(A), NEW l \in Seq(A), NEW r \in Seq(A),
           Joins(st, s, t), Joins(tu, t, u), Joins(l, st, u), Joins(r, s, tu)
    PROVE  l = r
  <1>1. Len(s) \in Nat /\ Len(t) \in Nat /\ Len(u) \in Nat BY LenProperties
  <1>2. Len(l) = Len(s) + Len(t) + Len(u) /\ Len(r) = Len(l) BY <1>1 DEF Joins
  <1>3. ASSUME NEW i \in 1 .. Len(l) PROVE l[i] = r[i]
    <2>1. CASE i <= Len(s)
      <3>1. l[i] = st[i] /\ st[i] = s[i] BY <1>1, <1>2, <1>3, <2>1 DEF Joins
      <3>2. r[i] = s[i] BY <1>1, <1>2, <1>3, <2>1 DEF Joins
      <3> QED BY <3>1, <3>2
    <2>2. CASE i > Len(s) /\ i <= Len(s) + Len(t)
      <3>1. l[i] = st[i] /\ st[i] = t[i - Len(s)] BY <1>1, <1>2, <1>3, <2>2 DEF Joins
      <3>2. i - Len(s) \in 1 .. Len(t) BY <1>1, <1>2, <1>3, <2>2
      <3>3. r[i] = tu[i - Len(s)] BY <1>1, <1>2, <1>3, <2>2 DEF Joins
      <3>4. tu[i - Len(s)] = t[i - Len(s)] BY <1>1, <3>2 DEF Joins
      <3> QED BY <3>1, <3>3, <3>4
    <2>3. CASE i > Len(s) + Len(t)
      <3>1. l[i] = u[i - (Len(s) + Len(t))] BY <1>1, <1>2, <1>3, <2>3 DEF Joins
      <3>2. i - Len(s) \in 1 .. Len(t) + Len(u) /\ ~(i - Len(s) <= Len(t))
            /\ (i - Len(s)) - Len(t) = i - (Len(s) + Len(t))
         BY <1>1, <1>2, <1>3, <2>3
      <3>3. r[i] = tu[i - Len(s)] BY <1>1, <1>2, <1>3, <2>3 DEF Joins
      <3>4. tu[i - Len(s)] = u[(i - Len(s)) - Len(t)] BY <1>1, <3>2 DEF Joins
      <3> QED BY <3>1, <3>2, <3>3, <3>4
    <2> QED BY <1>1, <1>2, <1>3, <2>1, <2>2, <2>3
  <1> QED BY <1>2, <1>3, SeqEqual

\* Moving the first n texts of t behind o.
LEMMA Regroup ==
    ASSUME NEW A, NEW o \in Seq(A), NEW t \in Seq(A), NEW n \in 1 .. Len(t)
    PROVE  /\ o \o SubSeq(t, 1, n) \in Seq(A) /\ SubSeq(t, n + 1, Len(t)) \in Seq(A)
           /\ (o \o SubSeq(t, 1, n)) \o SubSeq(t, n + 1, Len(t)) = o \o t
           /\ n = Len(t) => o \o SubSeq(t, 1, n) = o \o t
  <1> DEFINE a == SubSeq(t, 1, n)
             b == SubSeq(t, n + 1, Len(t))
  <1>1. Len(t) \in Nat /\ \A i \in 1 .. Len(t) : t[i] \in A BY LenProperties, ElementOfSeq
  <1>2. a \in Seq(A)
    <2>1. 1 \in Int /\ n \in Int /\ \A i \in 1 .. n : t[i] \in A BY <1>1
    <2> QED BY <2>1, SubSeqProperties
  <1>3. b \in Seq(A)
    <2>1. n + 1 \in Int /\ Len(t) \in Int /\ \A i \in n + 1 .. Len(t) : t[i] \in A BY <1>1
    <2> QED BY <2>1, SubSeqProperties
  <1>4. a \o b = t
    <2>1. 1 \in 1 .. Len(t) + 1 /\ n \in 1 - 1 .. Len(t) /\ Len(t) \in n .. Len(t) BY <1>1
    <2>2. a \o b = SubSeq(t, 1, Len(t)) BY <2>1, ConcatAdjacentSubSeq
    <2> QED BY <2>2, SubSeqFull
  <1>5. n = Len(t) => a = t BY SubSeqFull
  <1> HIDE DEF a, b
  <1>6. (o \o a) \o b = o \o t
    <2> DEFINE oa == o \o a
               l  == oa \o b
               r  == o \o t
    <2>1. oa \in Seq(A) /\ Joins(oa, o, a) BY <1>2, ConcatJoins
    <2>2. Joins(t, a, b)
      <3>1. Joins(a \o b, a, b) BY <1>2, <1>3, ConcatJoins
      <3> QED BY <3>1, <1>4
    <2> HIDE DEF oa
    <2>3. l \in Seq(A) /\ Joins(l, oa, b) BY <1>3, <2>1, ConcatJoins
    <2>4. r \in Seq(A) /\ Joins(r, o, t) BY ConcatJoins
    <2> HIDE DEF l, r
    <2>5. l = r BY <1>2, <1>3, <2>1, <2>2, <2>3, <2>4, JoinsAgree
    <2> QED BY <2>5 DEF l, r, oa
  <1>7. o \o a \in Seq(A) BY <1>2, ConcatProperties
  <1>9. n = Len(t) => o \o a = o \o t BY <1>5, Zenon
  <1> QED BY <1>3, <1>6, <1>7, <1>9 DEF a, b

LEMMA TransferKeeps ==
    ASSUME NEW A, out \in Seq(A), todo \in Seq(A), WriteSome, job.id # "cp", after # "write"
    PROVE  Put' = Put /\ out' \in Seq(A) /\ todo' \in Seq(A) /\ pc' \in {"write", after}
  <1>1. PICK n \in 1 .. Len(todo) :
           /\ todo' = SubSeq(todo, n + 1, Len(todo))
           /\ pc' = IF n = Len(todo) THEN after ELSE "write"
           /\ out' = out \o SubSeq(todo, 1, n)
    BY DEF WriteSome, Wrote
  <1>2. Put = out \o todo BY DEF WriteSome, Put
  <1>3. /\ out \o SubSeq(todo, 1, n) \in Seq(A) /\ SubSeq(todo, n + 1, Len(todo)) \in Seq(A)
        /\ (out \o SubSeq(todo, 1, n)) \o SubSeq(todo, n + 1, Len(todo)) = out \o todo
        /\ n = Len(todo) => out \o SubSeq(todo, 1, n) = out \o todo
    BY Regroup
  <1>4. out' \in Seq(A) /\ todo' \in Seq(A) BY <1>1, <1>3, Zenon
  <1>5. out' \o todo' = out \o todo /\ (n = Len(todo) => out' = out \o todo) BY <1>1, <1>3, Zenon
  <1>6. CASE n = Len(todo)
    <2>1. pc' = after BY <1>1, <1>6, Zenon
    <2>2. Put' = out' BY <2>1 DEF Put
    <2> QED BY <2>1, <2>2, <1>2, <1>4, <1>5, <1>6, Zenon
  <1>7. CASE n # Len(todo)
    <2>1. pc' = "write" BY <1>1, <1>7, Zenon
    <2>2. Put' = out' \o todo' BY <2>1 DEF Put
    <2> QED BY <2>1, <2>2, <1>2, <1>4, <1>5, Zenon
  <1> QED BY <1>6, <1>7

\* The texts of a listing that are not names.
DirMark  == "<DIR>"
SizeMark == "size"
EndMark  == "\r"
NoName   == "none"

LEMMA MarksDiffer ==
    /\ DirMark # SizeMark /\ DirMark # EndMark /\ SizeMark # EndMark
    /\ NoEntry.name = NoName
  BY DEF DirMark, SizeMark, EndMark, NoName, NoEntry

LEMMA TwoAndOne ==
    ASSUME NEW a, NEW b, NEW c
    PROVE  <<a, b>> \o <<c>> = <<a, b, c>>
  <1> DEFINE A == {a, b, c}
             s == <<a, b>>
             t == <<c>>
             u == <<a, b, c>>
  <1>1. /\ s \in Seq(A) /\ t \in Seq(A) /\ u \in Seq(A) /\ Len(s) = 2 /\ Len(t) = 1 /\ Len(u) = 3
        /\ s[1] = a /\ s[2] = b /\ t[1] = c /\ u[1] = a /\ u[2] = b /\ u[3] = c
    OBVIOUS
  <1> HIDE DEF A, s, t, u
  <1>2. s \o t \in Seq(A) /\ Joins(s \o t, s, t) BY <1>1, ConcatJoins
  <1>3. Len(s \o t) = 3 /\ \A i \in 1 .. 3 : (s \o t)[i] = IF i <= 2 THEN s[i] ELSE t[i - 2]
    BY <1>1, <1>2 DEF Joins
  <1>4. \A i \in 1 .. 3 : i = 1 \/ i = 2 \/ i = 3 OBVIOUS
  <1>5. \A i \in 1 .. 3 : (s \o t)[i] = u[i] BY <1>1, <1>3, <1>4
  <1>6. s \o t = u BY <1>1, <1>2, <1>3, <1>5, SeqEqual
  <1> QED BY <1>6 DEF s, t, u

LEMMA RowIsThree ==
    ASSUME NEW e
    PROVE  LsRow(e) = <<e.name, IF e.dir THEN DirMark ELSE SizeMark, EndMark>>
  <1> DEFINE m == IF e.dir THEN DirMark ELSE SizeMark
  <1>1. LsRow(e) = <<e.name, m>> \o <<EndMark>> BY Zenon DEF LsRow, CR, DirMark, SizeMark, EndMark
  <1> HIDE DEF m
  <1>2. <<e.name, m>> \o <<EndMark>> = <<e.name, m, EndMark>> BY TwoAndOne
  <1> QED BY <1>1, <1>2, Zenon DEF m

\* Entries have names that are no marks, and are directories or files.
Fits(e) == e = NoEntry \/ (e.dir \in BOOLEAN /\ e.name \notin {DirMark, SizeMark, EndMark, NoName})

LsEntries == Entries \cup {NoEntry} \cup {Listing[k] : k \in Slots}

\* What ls can find: places 1 .. n, and different names at different places.
ListingFits ==
    /\ Slots \subseteq Nat \ {0}
    /\ Listing \in [Slots -> LsEntries]
    /\ \A e \in LsEntries : Fits(e)
    /\ \A k, l \in Slots : k # l /\ Listing[k] # NoEntry => Listing[k].name # Listing[l].name

LsText == {e.name : e \in LsEntries} \cup {DirMark, SizeMark, EndMark}

\* Where ls is.
LsCourse ==
    /\ job.id = "ls" /\ pc \in {"start", "opendir", "readdir", "write", "done"}
    /\ pc = "write" => after = "readdir"
    /\ pass \in {"dirs", "files"} /\ pos \in Nat
    /\ pc = "done" /\ status = "OK" => pass = "files"
    /\ out \in Seq(LsText) /\ todo \in Seq(LsText)
    /\ listing \in [Slots -> LsEntries]

\* The entries that a row has been put out for.
Listed(k) ==
    IF listing[k].dir
    THEN pass = "files" \/ (pc \in {"readdir", "write"} /\ k <= pos)
    ELSE pass = "files" /\ (pc = "done" \/ (pc \in {"readdir", "write"} /\ k <= pos))

\* An entry that nobody touches has its row exactly then, and no other entry has
\* its name; directories come before files.
Rows ==
    \A k \in Slots \cap stable : listing[k] # NoEntry =>
        /\ Listed(k) => Once(Put, listing[k].name)
        /\ ~Listed(k) => Never(Put, listing[k].name)
        /\ \A l \in Slots : l # k => listing[l].name # listing[k].name
Columns == (pass = "dirs" => Never(Put, SizeMark)) /\ Before(Put, DirMark, SizeMark)

LsInv == job.id = "ls" => LsCourse /\ ((pc = "done" => status = "OK") => Rows /\ Columns)

LEMMA InitLs == Init /\ ListingFits => LsInv
  <1> SUFFICES ASSUME Init, ListingFits, job.id = "ls" PROVE LsInv
    BY DEF LsInv
  <1>1. pc = "start" /\ out = << >> /\ todo = << >> /\ pass = "dirs" /\ pos = 0 /\ listing = Listing
    BY DEF Init
  <1>2. << >> \in Seq(LsText) /\ DOMAIN << >> = {} OBVIOUS
  <1>3. LsCourse BY <1>1, <1>2 DEF LsCourse, ListingFits
  <1>4. Put = << >> BY <1>1 DEF Put
  <1>5. \A x : Never(Put, x) BY <1>2, <1>4, Zenon DEF Never
  <1>6. \A k \in Slots : ~Listed(k) BY <1>1 DEF Listed
  <1>7. \A k, l \in Slots : k # l /\ listing[k] # NoEntry => listing[k].name # listing[l].name
    BY <1>1, Zenon DEF ListingFits
  <1>8. Rows BY <1>5, <1>6, <1>7, Zenon DEF Rows
  <1>9. Before(Put, DirMark, SizeMark) BY <1>2, <1>4, Zenon DEF Before
  <1>10. Columns BY <1>5, <1>9, Zenon DEF Columns
  <1> QED BY <1>3, <1>8, <1>10 DEF LsInv

\* The steps that ls can take.
LEMMA LsSteps ==
    ASSUME LsCourse, [Next]_vars
    PROVE  \/ RejectUsage \/ WriteSome \/ WriteFails \/ LsStart \/ OpenDir \/ ReadDir \/ CloseDir
           \/ ReadDirFails \/ OtherEntry \/ UNCHANGED vars
  <1>1. /\ ~Echo /\ ~Pwd /\ ~Kill /\ ~Rm /\ ~Rmdir /\ ~Mkdir /\ ~Mv /\ ~CatStdin /\ ~OpenSource
        /\ ~SamePath /\ ~CreateDestination /\ ~ReadSome /\ ~ReadFails /\ ~ReadEnd
        /\ ~PsStart /\ ~PsInfo /\ ~PsInfoFails /\ ~PsEnd /\ ~OtherProcess
    BY DEF LsCourse, Begins, Echo, Pwd, Kill, Rm, Rmdir, Mkdir, Mv, PathOperation, CatStdin, OpenSource,
       SamePath, CreateDestination, ReadSome, ReadFails, ReadEnd, PsStart, PsInfo, PsInfoFails, PsEnd,
       OtherProcess
  <1> QED BY <1>1 DEF Next, AppletStep

\* A failure ends the listing, whatever there is of it.
LEMMA LsFails ==
    ASSUME LsCourse, [Next]_vars, RejectUsage \/ WriteFails \/ ReadDirFails
    PROVE  LsInv'
  <1>1. job' = job BY JobStays
  <1>2. \A call : \A st \in Fails(call) : st # "OK" BY DEF Fails, Errors
  <1>3. pc' = "done" /\ status' # "OK" /\ UNCHANGED <<out, todo, pass, pos, listing>>
    BY <1>2 DEF RejectUsage, WriteFails, ReadDirFails, End, idle, world
  <1> QED BY <1>1, <1>3 DEF LsInv, LsCourse

\* A step that puts nothing out and lists nothing.
LEMMA LsFrame ==
    ASSUME Rows, Columns, listing' = listing, Put' = Put, stable' = stable,
           \A k \in Slots \cap stable : listing[k] # NoEntry => (Listed(k)' <=> Listed(k)),
           pass' = "dirs" => pass = "dirs"
    PROVE  Rows' /\ Columns'
  <1>1. Rows' BY DEF Rows
  <1>2. Columns' BY DEF Columns
  <1> QED BY <1>1, <1>2

LEMMA LsWrites ==
    ASSUME LsCourse, Rows, Columns, [Next]_vars, WriteSome
    PROVE  LsInv'
  <1>1. job' = job BY JobStays
  <1>2. UNCHANGED <<pass, pos, listing, stable, after>> /\ pc = "write" BY DEF WriteSome
  <1>3. after = "readdir" /\ job.id # "cp" /\ out \in Seq(LsText) /\ todo \in Seq(LsText) BY <1>2 DEF LsCourse
  <1>4. Put' = Put /\ out' \in Seq(LsText) /\ todo' \in Seq(LsText) /\ pc' \in {"write", "readdir"}
    BY <1>3, TransferKeeps
  <1>5. LsCourse' BY <1>1, <1>2, <1>3, <1>4 DEF LsCourse
  <1>6. \A k : Listed(k)' <=> Listed(k) BY <1>2, <1>4 DEF Listed
  <1>7. Rows' /\ Columns' BY <1>2, <1>4, <1>6, LsFrame
  <1> QED BY <1>5, <1>7 DEF LsInv

\* A place of the directory, and what it may hold.
LEMMA LsEntry ==
    ASSUME ListingFits, LsCourse, NEW k \in Slots
    PROVE  /\ k \in Nat /\ k > 0 /\ listing[k].dir \in BOOLEAN /\ listing[k].name \in LsText
           /\ listing[k] # NoEntry => listing[k].name \notin {DirMark, SizeMark, EndMark, NoName}
  <1>1. listing[k] \in LsEntries BY DEF LsCourse
  <1>2. Fits(listing[k]) /\ k \in Nat \ {0} BY <1>1 DEF ListingFits
  <1>3. NoEntry.dir \in BOOLEAN BY DEF NoEntry
  <1>4. listing[k].name \in LsText BY <1>1 DEF LsText
  <1> QED BY <1>2, <1>3, <1>4 DEF Fits

LEMMA LsOpens ==
    ASSUME ListingFits, LsCourse, Rows, Columns, [Next]_vars, LsStart \/ OpenDir
    PROVE  LsInv'
  <1>1. job' = job BY JobStays
  <1>2. UNCHANGED <<out, todo, after, pass, listing, stable>> BY DEF LsStart, OpenDir, idle, world
  <1>3. CASE pc' = "done" /\ status' # "OK"
    <2>1. pos' = pos BY <1>3 DEF LsStart, OpenDir, idle
    <2> QED BY <1>1, <1>2, <1>3, <2>1 DEF LsCourse, LsInv
  <1>4. CASE /\ pc \in {"start", "opendir"} /\ pc' \in {"opendir", "readdir"}
             /\ pos' \in Nat /\ (pc' = "readdir" => pos' = 0)
    <2>1. LsCourse' BY <1>1, <1>2, <1>4 DEF LsCourse
    <2>2. Put' = Put BY <1>2, <1>4 DEF Put
    <2>3. ASSUME NEW k \in Slots PROVE Listed(k)' <=> Listed(k)
      <3>1. k \in Nat /\ k > 0 BY <2>3, LsEntry
      <3> QED BY <3>1, <1>2, <1>4 DEF Listed
    <2>4. Rows' /\ Columns' BY <1>2, <2>2, <2>3, LsFrame
    <2> QED BY <2>1, <2>4 DEF LsInv
  <1>5. \A st \in Fails("opendir") : st # "OK" BY DEF Fails, Errors
  <1>6. \/ pc' = "done" /\ status' # "OK"
        \/ /\ pc \in {"start", "opendir"} /\ pc' \in {"opendir", "readdir"}
           /\ pos' \in Nat /\ (pc' = "readdir" => pos' = 0)
    BY <1>5 DEF LsStart, OpenDir, Begins, End, idle, LsCourse
  <1> QED BY <1>3, <1>4, <1>6

LEMMA LsCloses ==
    ASSUME ListingFits, LsCourse, Rows, Columns, [Next]_vars, CloseDir
    PROVE  LsInv'
  <1>1. job' = job BY JobStays
  <1>2. UNCHANGED <<out, todo, after, pos, listing, stable>> /\ pc = "readdir" /\ Ahead = {}
    BY DEF CloseDir, world
  <1>3. \A st \in Fails("close") : st # "OK" BY DEF Fails, Errors
  <1>4. \/ pc' = "done" /\ status' # "OK" /\ pass' = pass
        \/ pass' = "files" /\ pc' = IF pass = "dirs" THEN "opendir" ELSE "done"
    BY <1>3 DEF CloseDir, End
  <1>5. CASE pc' = "done" /\ status' # "OK" /\ pass' = pass BY <1>1, <1>2, <1>5 DEF LsCourse, LsInv
  <1>6. CASE pass' = "files" /\ pc' = IF pass = "dirs" THEN "opendir" ELSE "done"
    <2>1. LsCourse' BY <1>1, <1>2, <1>6 DEF LsCourse
    <2>2. Put' = Put BY <1>2, <1>6 DEF Put
    <2>3. ASSUME NEW k \in Slots, listing[k] # NoEntry PROVE Listed(k)' <=> Listed(k)
      <3>1. k \in Nat /\ k > 0 /\ listing[k].dir \in BOOLEAN /\ pos \in Nat BY <2>3, LsEntry DEF LsCourse
      <3>2. k <= pos BY <3>1, <2>3, <1>2 DEF Ahead
      <3> QED BY <3>1, <3>2, <1>2, <1>6 DEF Listed, LsCourse
    <2>4. Rows' /\ Columns' BY <1>2, <1>6, <2>2, <2>3, LsFrame
    <2> QED BY <2>1, <2>4 DEF LsInv
  <1> QED BY <1>4, <1>5, <1>6

\* Another process writes into a place: it is no longer one that stays as it is.
LEMMA LsChanges ==
    ASSUME ListingFits, LsCourse, Rows, Columns, [Next]_vars, OtherEntry
    PROVE  LsInv'
  <1>1. job' = job BY JobStays
  <1>2. UNCHANGED <<pc, status, out, todo, after, pass, pos>> BY DEF OtherEntry, idle
  <1>3. PICK k \in Slots, e \in Entries \cup {NoEntry} :
           /\ e = NoEntry \/ \A l \in Slots : listing[l].name # e.name
           /\ listing' = [listing EXCEPT ![k] = e] /\ stable' = stable \ {k}
    BY DEF OtherEntry
  <1>4. e \in LsEntries BY <1>3 DEF LsEntries
  <1>5. listing' \in [Slots -> LsEntries] BY <1>3, <1>4 DEF LsCourse
  <1>6. LsCourse' BY <1>1, <1>2, <1>5 DEF LsCourse
  <1>7. Put' = Put BY <1>2 DEF Put
  <1>8. listing'[k] = e /\ \A l \in Slots \ {k} : listing'[l] = listing[l] BY <1>3 DEF LsCourse
  <1>9. ASSUME NEW l \in Slots \cap stable', listing'[l] # NoEntry
        PROVE  /\ Listed(l)' => Once(Put, listing'[l].name)
               /\ ~Listed(l)' => Never(Put, listing'[l].name)
               /\ \A m \in Slots : m # l => listing'[m].name # listing'[l].name
    <2>1. l \in Slots \cap stable /\ l # k /\ listing'[l] = listing[l] BY <1>3, <1>8, <1>9
    <2>2. listing[l] # NoEntry BY <2>1, <1>9
    <2>3. Listed(l)' <=> Listed(l) BY <2>1, <1>2 DEF Listed
    <2>4. \A m \in Slots : m # l => listing[m].name # listing[l].name BY <2>1, <2>2 DEF Rows
    <2>5. e.name # listing[l].name
      <3>1. listing[l].name # NoName BY <2>1, <2>2, LsEntry
      <3>2. NoEntry.name = NoName BY MarksDiffer
      <3> QED BY <3>1, <3>2, <2>1, <1>3
    <2>6. \A m \in Slots : m # l => listing'[m].name # listing'[l].name BY <2>1, <2>4, <2>5, <1>8
    <2> QED BY <2>1, <2>2, <2>3, <2>6 DEF Rows
  <1>10. Rows' BY <1>7, <1>9 DEF Rows
  <1>11. Columns' BY <1>2, <1>7 DEF Columns
  <1> QED BY <1>6, <1>10, <1>11 DEF LsInv

\* The next place that holds something is at k; what is before it has been read.
NextPlace(k) ==
    /\ k \in Slots /\ k > pos /\ listing[k] # NoEntry
    /\ \A l \in Slots : listing[l] # NoEntry /\ l # k => (l <= k <=> l <= pos)

LEMMA NextIsNext ==
    ASSUME ListingFits, LsCourse, NEW k \in Ahead, \A l \in Ahead : k <= l
    PROVE  NextPlace(k)
  <1>1. k \in Slots /\ k > pos /\ listing[k] # NoEntry BY DEF Ahead
  <1>2. ASSUME NEW l \in Slots, listing[l] # NoEntry, l # k PROVE l <= k <=> l <= pos
    <2>1. l \in Nat /\ k \in Nat /\ pos \in Nat BY <1>1, <1>2, LsEntry DEF LsCourse
    <2>2. l > pos => k <= l BY <1>2 DEF Ahead
    <2> QED BY <1>1, <1>2, <2>1, <2>2
  <1> QED BY <1>1, <1>2 DEF NextPlace

\* A row for another pass.
LEMMA LsSkips ==
    ASSUME ListingFits, LsCourse, Rows, Columns, [Next]_vars, NEW k, NextPlace(k), pc = "readdir",
           listing[k].dir # (pass = "dirs"), pos' = k, UNCHANGED <<pc, status, out, todo, after, pass, listing, stable>>
    PROVE  LsInv'
  <1>1. job' = job BY JobStays
  <1>2. k \in Nat /\ listing[k].dir \in BOOLEAN /\ pos \in Nat BY LsEntry DEF NextPlace, LsCourse
  <1>3. LsCourse' BY <1>1, <1>2 DEF LsCourse
  <1>4. Put' = Put BY DEF Put
  <1>5. ASSUME NEW l \in Slots, listing[l] # NoEntry PROVE Listed(l)' <=> Listed(l)
    <2>1. CASE l = k BY <2>1, <1>2 DEF Listed, LsCourse
    <2>2. CASE l # k BY <2>2, <1>5 DEF Listed, NextPlace
    <2> QED BY <2>1, <2>2
  <1>6. Rows' /\ Columns' BY <1>4, <1>5, LsFrame
  <1> QED BY <1>3, <1>6 DEF LsInv

\* A row for this one.
LEMMA LsRows ==
    ASSUME ListingFits, LsCourse, Rows, Columns, [Next]_vars, NEW k, NextPlace(k), pc = "readdir",
           listing[k].dir = (pass = "dirs"), pos' = k, UNCHANGED <<status, out, pass, listing, stable>>,
           Emit(LsRow(listing[k]), "readdir")
    PROVE  LsInv'
  <1> DEFINE n == listing[k].name
             m == IF listing[k].dir THEN DirMark ELSE SizeMark
             s == out
             r == <<n, m, EndMark>>
  <1>1. job' = job BY JobStays
  <1>2. /\ k \in Nat /\ k \in Slots /\ k > pos /\ listing[k].dir \in BOOLEAN /\ pos \in Nat
        /\ n \in LsText /\ n \notin {DirMark, SizeMark, EndMark, NoName} /\ s \in Seq(LsText)
    BY LsEntry DEF NextPlace, LsCourse
  <1>3. m \in {DirMark, SizeMark} /\ (m = DirMark <=> pass = "dirs") /\ (m = SizeMark <=> pass = "files")
    BY <1>2, MarksDiffer DEF LsCourse
  <1>4. {DirMark, SizeMark, EndMark} \subseteq LsText BY DEF LsText
  <1>5. todo' = r /\ after' = "readdir" /\ pc' = "write"
    <2>1. LsRow(listing[k]) = r BY RowIsThree
    <2> QED BY <2>1, Zenon DEF Emit
  <1>6. m \in LsText /\ EndMark \in LsText BY <1>3, <1>4
  <1>7. r \in Seq(LsText) BY <1>2, <1>6
  <1>8. LsCourse' BY <1>1, <1>2, <1>5, <1>7 DEF LsCourse
  <1>9. Put = s BY DEF Put
  <1>10. Put' = s \o r BY <1>5, Zenon DEF Put
  <1>11. ASSUME NEW l \in Slots \cap stable, listing[l] # NoEntry
         PROVE  /\ Listed(l)' => Once(Put', listing[l].name)
                /\ ~Listed(l)' => Never(Put', listing[l].name)
    <2>1. CASE l = k
      <3>0. (listing[k].dir <=> pass = "dirs") /\ (~listing[k].dir <=> pass = "files")
        BY <1>2 DEF LsCourse
      <3>1. ~Listed(k)
        <4>1. ~(k <= pos) BY <1>2
        <4>2. pass # "files" \/ pc # "done" OBVIOUS
        <4>3. listing[k].dir => pass # "files" BY <3>0
        <4> QED BY <4>1, <4>2, <4>3 DEF Listed
      <3>2. Listed(k)'
        <4>1. pc' = "write" /\ k <= pos' BY <1>5, <1>2
        <4>2. ~listing[k].dir => pass = "files" BY <3>0
        <4> QED BY <4>1, <4>2 DEF Listed
      <3>3. Never(s, n) BY <3>1, <2>1, <1>9, <1>11 DEF Rows
      <3>4. n \notin {m, EndMark} BY <1>2, <1>3
      <3> HIDE DEF n, m, s
      <3>5. Once(s \o r, n) BY <1>2, <1>6, <3>3, <3>4, RowAdds
      <3> QED BY <3>2, <3>5, <2>1, <1>10, Zenon DEF n
    <2>2. CASE l # k
      <3> DEFINE x == listing[l].name
      <3>1. Listed(l)' <=> Listed(l) BY <2>2, <1>5, <1>11 DEF Listed, NextPlace
      <3>2. (Listed(l) => Once(s, x)) /\ (~Listed(l) => Never(s, x)) BY <1>9, <1>11 DEF Rows
      <3>3. x # n BY <1>11, <1>2, <2>2 DEF Rows
      <3>4. x \notin {DirMark, SizeMark, EndMark} BY <1>11, LsEntry
      <3>5. x \notin {n, m, EndMark} BY <3>3, <3>4, <1>3
      <3> HIDE DEF x, n, m, s
      <3>6. (Once(s, x) => Once(s \o r, x)) /\ (Never(s, x) => Never(s \o r, x))
        BY <1>2, <1>6, <3>5, RowKeeps
      <3> QED BY <3>1, <3>2, <3>6, <1>10, Zenon DEF x
    <2> QED BY <2>1, <2>2
  <1>12. Rows' BY <1>11 DEF Rows
  <1>13. pass = "dirs" => Never(s \o r, SizeMark)
    <2>1. ASSUME pass = "dirs" PROVE Never(s, SizeMark) /\ SizeMark \notin {n, m, EndMark}
      BY <2>1, <1>2, <1>3, <1>9, MarksDiffer DEF Columns
    <2> HIDE DEF n, m, s
    <2>2. SizeMark \notin {n, m, EndMark} /\ Never(s, SizeMark) => Never(s \o r, SizeMark)
      <3>1. ASSUME SizeMark \notin {n, m, EndMark}, Never(s, SizeMark) PROVE Never(s \o r, SizeMark)
        BY <3>1, <1>2, <1>6, RowKeeps
      <3> QED BY <3>1
    <2> QED BY <2>1, <2>2
  <1>14. Before(s \o r, DirMark, SizeMark)
    <2>1. Before(s, DirMark, SizeMark) /\ DirMark # SizeMark BY <1>9, MarksDiffer DEF Columns
    <2>2. DirMark \notin {n, m, EndMark} \/ (Never(s, SizeMark) /\ SizeMark \notin {n, m, EndMark})
      BY <1>2, <1>3, <1>9, MarksDiffer DEF Columns, LsCourse
    <2> HIDE DEF n, m, s
    <2> QED BY <2>1, <2>2, <1>2, <1>6, RowOrdered
  <1>15. Columns' BY <1>10, <1>13, <1>14, Zenon DEF Columns
  <1> QED BY <1>8, <1>12, <1>15 DEF LsInv

LEMMA NextLs ==
    ASSUME ListingFits, LsInv, [Next]_vars
    PROVE  LsInv'
  <1>1. job' = job BY JobStays
  <1> SUFFICES ASSUME job.id = "ls" PROVE LsInv'
    BY <1>1 DEF LsInv
  <1>2. LsCourse BY DEF LsInv
  <1>3. CASE UNCHANGED vars
    <2>1. LsInv' = LsInv BY <1>3 DEF vars, LsInv, LsCourse, Rows, Columns, Listed, Put
    <2> QED BY <2>1
  <1>4. CASE ~UNCHANGED vars
    <2>1. \/ RejectUsage \/ WriteSome \/ WriteFails \/ LsStart \/ OpenDir \/ ReadDir \/ CloseDir
          \/ ReadDirFails \/ OtherEntry
      BY <1>2, <1>4, LsSteps
    <2>2. pc # "done"
      BY <2>1 DEF RejectUsage, WriteSome, WriteFails, LsStart, Begins, OpenDir, ReadDir, CloseDir,
         ReadDirFails, OtherEntry
    <2>3. Rows /\ Columns BY <2>2 DEF LsInv
    <2>4. CASE ReadDir
      <3>1. PICK k \in Ahead :
               /\ \A l \in Ahead : k <= l
               /\ pos' = k
               /\ IF listing[k].dir = (pass = "dirs") THEN Emit(LsRow(listing[k]), "readdir")
                  ELSE UNCHANGED <<todo, after, pc>>
        BY <2>4 DEF ReadDir
      <3>2. pc = "readdir" /\ UNCHANGED <<status, out, pass, listing, stable>> BY <2>4 DEF ReadDir, world
      <3>3. NextPlace(k) BY <3>1, <1>2, NextIsNext
      <3>4. CASE listing[k].dir = (pass = "dirs") BY <3>1, <3>2, <3>3, <3>4, <1>2, <2>3, LsRows
      <3>5. CASE listing[k].dir # (pass = "dirs") BY <3>1, <3>2, <3>3, <3>5, <1>2, <2>3, LsSkips
      <3> QED BY <3>4, <3>5
    <2>5. CASE WriteSome BY <2>5, <1>2, <2>3, LsWrites
    <2>6. CASE LsStart \/ OpenDir BY <2>6, <1>2, <2>3, LsOpens
    <2>7. CASE CloseDir BY <2>7, <1>2, <2>3, LsCloses
    <2>8. CASE OtherEntry BY <2>8, <1>2, <2>3, LsChanges
    <2>9. CASE RejectUsage \/ WriteFails \/ ReadDirFails BY <2>9, <1>2, LsFails
    <2> QED BY <2>1, <2>4, <2>5, <2>6, <2>7, <2>8, <2>9
  <1> QED BY <1>3, <1>4

\* While others change the directory, an entry that nobody touches has exactly
\* one row in what ls puts out, and the directories come before the files.
THEOREM ListingsAreStable == Spec /\ ListingFits => []ListsStable
  <1>1. Init /\ ListingFits => LsInv BY InitLs
  <1>2. ListingFits /\ LsInv /\ [Next]_vars => LsInv' BY NextLs
  <1>3. ASSUME LsInv, ListingFits PROVE ListsStable
    <2> SUFFICES ASSUME job.id = "ls", pc = "done", status = "OK"
                 PROVE  /\ \A k \in Slots \cap stable : listing[k] # NoEntry => Occurrences(listing[k].name) = 1
                        /\ \A i, j \in DOMAIN out : out[i] = "size" /\ out[j] = "<DIR>" => j < i
      BY DEF ListsStable
    <2>1. LsCourse /\ Rows /\ Columns /\ pass = "files" BY <1>3 DEF LsInv, LsCourse
    <2>2. Put = out BY DEF Put
    <2>3. ASSUME NEW k \in Slots \cap stable, listing[k] # NoEntry PROVE Occurrences(listing[k].name) = 1
      <3>1. Listed(k) BY <2>1 DEF Listed
      <3>2. Once(out, listing[k].name) BY <3>1, <2>1, <2>2, <2>3 DEF Rows
      <3> QED BY <3>2, OnceIsOne DEF Occurrences
    <2>4. Before(out, DirMark, SizeMark) BY <2>1, <2>2 DEF Columns
    <2>5. \A i, j \in DOMAIN out : out[i] = "size" /\ out[j] = "<DIR>" => j < i
      BY <2>4, Zenon DEF Before, DirMark, SizeMark
    <2> QED BY <2>3, <2>5
  <1>4. ListingFits /\ [Next]_vars => ListingFits' BY DEF ListingFits
  <1> QED BY <1>1, <1>2, <1>3, <1>4, PTL DEF Spec

----------------------------------------------------------------------------
(***************************************************************************)
(* The table of ps.  What ps has put out is whole lines.  A line ends with *)
(* the only end mark in it, and has the text of a state at its fifth place *)
(* and nowhere else: so a row that is behind other lines cannot be read    *)
(* together with them, or from its middle, and a process has a row from    *)
(* the step that passes its pid, and not before.                           *)
(***************************************************************************)
\* Where the text s reads as the row q.
Match(s, q, i) == i + Len(q) - 1 <= Len(s) /\ \A j \in 1 .. Len(q) : s[i + j - 1] = q[j]
Found(s, q)    == {i \in DOMAIN s : Match(s, q, i)}

\* Lines: the end mark is at their end only, and a text of M at their fifth place only.
Line(r, M) ==
    /\ Len(r) \in Nat /\ Len(r) > 5 /\ r[Len(r)] = EndMark
    /\ \A i \in 1 .. Len(r) : (r[i] = EndMark => i = Len(r)) /\ (r[i] \in M <=> i = 5)

\* A text of whole lines.
Whole(s) == Len(s) = 0 \/ s[Len(s)] = EndMark

LEMMA MatchIsRowAt ==
    ASSUME NEW A, out \in Seq(A), NEW r \in Seq(A), Len(r) > 0, NEW i \in DOMAIN out
    PROVE  RowAt(r, i) <=> Match(out, r, i)
  <1> DEFINE n == i + Len(r) - 1
             u == SubSeq(out, i, n)
  <1>1. Len(r) \in Nat /\ Len(out) \in Nat /\ i \in 1 .. Len(out) /\ DOMAIN out = 1 .. Len(out)
    BY LenProperties
  <1>2. RowAt(r, i) <=> n <= Len(out) /\ u = r BY Zenon DEF RowAt
  <1>3. ASSUME n <= Len(out) PROVE u = r <=> \A j \in 1 .. Len(r) : out[i + j - 1] = r[j]
    <2>1. i \in Int /\ n \in Int /\ i <= n + 1 /\ n - i + 1 = Len(r) BY <1>1
    <2>2. \A k \in i .. n : out[k] \in A
      <3>1. \A k \in i .. n : k \in 1 .. Len(out) BY <1>1, <1>3
      <3> QED BY <3>1, ElementOfSeq
    <2>3. /\ u \in Seq(A) /\ Len(u) = Len(r)
          /\ \A j \in 1 .. Len(r) : u[j] = out[i + j - 1]
      <3> HIDE DEF n
      <3>1. /\ u \in Seq(A)
            /\ Len(u) = IF i <= n THEN n - i + 1 ELSE 0
            /\ \A j \in 1 .. n - i + 1 : u[j] = out[i + j - 1]
        BY <2>1, <2>2, SubSeqProperties
      <3> QED BY <3>1, <2>1, <1>1
    <2> HIDE DEF u
    <2>4. u = r <=> \A j \in 1 .. Len(r) : u[j] = r[j] BY <2>3, SeqEqual
    <2> QED BY <2>3, <2>4
  <1> DEFINE P == \A j \in 1 .. Len(r) : out[i + j - 1] = r[j]
             fits == n <= Len(out)
  <1>4. Match(out, r, i) <=> fits /\ P BY Zenon DEF Match
  <1>5. fits => (u = r <=> P) BY <1>3
  <1>6. RowAt(r, i) <=> fits /\ u = r BY <1>2
  <1> HIDE DEF u, P, fits
  <1> QED BY <1>4, <1>5, <1>6

\* What a row behind a text of whole lines changes: nothing before it, and only
\* the row itself is there.
LEMMA MatchBehind ==
    ASSUME NEW A, NEW s \in Seq(A), NEW r \in Seq(A), NEW q \in Seq(A), NEW M,
           Whole(s), Line(r, M), Line(q, M), NEW i \in Nat, i > 0
    PROVE  Match(s \o r, q, i) <=> Match(s, q, i) \/ (i = Len(s) + 1 /\ q = r)
  <1> DEFINE t == s \o r
  <1>1. Joins(t, s, r) BY ConcatJoins
  <1>2. Len(s) \in Nat /\ Len(r) \in Nat /\ Len(q) \in Nat /\ Len(q) > 5 /\ Len(r) > 5
    BY LenProperties DEF Line
  <1> HIDE DEF t
  <1>3. Len(t) = Len(s) + Len(r) BY <1>1 DEF Joins
  <1>4. \A k \in 1 .. Len(s) : t[k] = s[k]
    <2>1. \A k \in 1 .. Len(s) : k \in 1 .. Len(s) + Len(r) /\ k <= Len(s) BY <1>2
    <2> QED BY <2>1, <1>1 DEF Joins
  <1>5. \A k \in 1 .. Len(r) : t[Len(s) + k] = r[k]
    <2>1. \A k \in 1 .. Len(r) :
            Len(s) + k \in 1 .. Len(s) + Len(r) /\ ~(Len(s) + k <= Len(s)) /\ (Len(s) + k) - Len(s) = k
      BY <1>2
    <2> QED BY <2>1, <1>1 DEF Joins
  <1>6. ASSUME Match(s, q, i) PROVE Match(t, q, i)
    <2>1. i + Len(q) - 1 <= Len(s) BY <1>6 DEF Match
    <2>2. \A j \in 1 .. Len(q) : i + j - 1 \in 1 .. Len(s) BY <2>1, <1>2
    <2>3. \A j \in 1 .. Len(q) : t[i + j - 1] = q[j] BY <2>2, <1>4, <1>6 DEF Match
    <2>4. i + Len(q) - 1 <= Len(t) BY <2>1, <1>2, <1>3
    <2> QED BY <2>3, <2>4 DEF Match
  <1>7. ASSUME i = Len(s) + 1, q = r PROVE Match(t, q, i)
    <2>1. \A j \in 1 .. Len(q) : i + j - 1 = Len(s) + j BY <1>2, <1>7
    <2>2. i + Len(q) - 1 <= Len(t) BY <1>2, <1>3, <1>7
    <2> QED BY <2>1, <2>2, <1>5, <1>7 DEF Match
  <1>8. ASSUME Match(t, q, i), i + Len(q) - 1 <= Len(s) PROVE Match(s, q, i)
    <2>2. \A j \in 1 .. Len(q) : i + j - 1 \in 1 .. Len(s) BY <1>8, <1>2
    <2>3. \A j \in 1 .. Len(q) : s[i + j - 1] = q[j] BY <2>2, <1>4, <1>8 DEF Match
    <2> QED BY <2>3, <1>8 DEF Match
  <1>9. ASSUME Match(t, q, i), i + Len(q) - 1 > Len(s) PROVE i = Len(s) + 1 /\ q = r
    <2>1. i > Len(s)
      <3> SUFFICES ASSUME i <= Len(s) PROVE FALSE BY <1>2
      <3>1. s[Len(s)] = EndMark BY <1>2 DEF Whole
      <3> DEFINE j == Len(s) - i + 1
      <3>2. j \in 1 .. Len(q) /\ i + j - 1 = Len(s) /\ j # Len(q) /\ Len(s) \in 1 .. Len(s) BY <1>2, <1>9
      <3> HIDE DEF j
      <3>3. t[i + j - 1] = q[j] BY <3>2, <1>9 DEF Match
      <3>4. q[j] = EndMark BY <3>1, <3>2, <3>3, <1>4
      <3> QED BY <3>2, <3>4 DEF Line
    <2> DEFINE d == i - Len(s) - 1
    <2>2. d \in Nat /\ i = Len(s) + d + 1 BY <2>1, <1>2
    <2> HIDE DEF d
    <2>3. d + Len(q) <= Len(r) BY <2>2, <1>2, <1>3, <1>9 DEF Match
    <2>4. \A j \in 1 .. Len(q) : d + j \in 1 .. Len(r) /\ i + j - 1 = Len(s) + (d + j) BY <2>2, <2>3, <1>2
    <2>5. \A j \in 1 .. Len(q) : r[d + j] = q[j]
      <3> TAKE j \in 1 .. Len(q)
      <3>1. t[i + j - 1] = q[j] BY <1>9 DEF Match
      <3>2. t[Len(s) + (d + j)] = r[d + j] BY <2>4, <1>5
      <3> QED BY <3>1, <3>2, <2>4
    <2>6. d = 0
      <3>1. 5 \in 1 .. Len(q) BY <1>2
      <3>2. q[5] \in M BY <3>1 DEF Line
      <3>3. d + 5 \in 1 .. Len(r) /\ r[d + 5] \in M BY <3>1, <3>2, <2>4, <2>5
      <3>4. d + 5 = 5 BY <3>3 DEF Line
      <3> QED BY <3>4, <2>2
    <2>7. Len(q) = Len(r)
      <3>1. Len(q) \in 1 .. Len(q) /\ q[Len(q)] = EndMark BY <1>2 DEF Line
      <3>2. d + Len(q) = Len(q) BY <2>6, <1>2
      <3>3. Len(q) \in 1 .. Len(r) /\ r[Len(q)] = EndMark BY <3>1, <3>2, <2>4, <2>5
      <3> QED BY <3>3 DEF Line
    <2>8. \A j \in 1 .. Len(q) : r[j] = q[j]
      <3>1. \A j \in 1 .. Len(q) : d + j = j BY <2>6
      <3> QED BY <3>1, <2>5
    <2>9. q = r BY <2>7, <2>8, SeqEqual
    <2> QED BY <2>2, <2>6, <2>9, <1>2
  <1>10. Match(t, q, i) => i + Len(q) - 1 <= Len(s) \/ i + Len(q) - 1 > Len(s) BY <1>2
  <1>11. Match(t, q, i) <=> Match(s, q, i) \/ (i = Len(s) + 1 /\ q = r)
    BY <1>6, <1>7, <1>8, <1>9, <1>10
  <1> QED BY <1>11 DEF t

\* A row behind whole lines: whole lines again, and one more match of the row.
LEMMA FoundBehind ==
    ASSUME NEW A, NEW s \in Seq(A), NEW r \in Seq(A), NEW q \in Seq(A), NEW M,
           Whole(s), Line(r, M), Line(q, M)
    PROVE  Found(s \o r, q) = IF q = r THEN Found(s, q) \cup {Len(s) + 1} ELSE Found(s, q)
  <1> DEFINE t == s \o r
  <1>1. t \in Seq(A) /\ Joins(t, s, r) BY ConcatJoins
  <1>2. Len(s) \in Nat /\ Len(r) \in Nat /\ Len(q) \in Nat /\ Len(q) > 5 /\ Len(r) > 5
        /\ DOMAIN s = 1 .. Len(s)
    BY LenProperties DEF Line
  <1>3. \A i \in Nat : i > 0 => (Match(t, q, i) <=> Match(s, q, i) \/ (i = Len(s) + 1 /\ q = r))
    BY MatchBehind
  <1> HIDE DEF t
  <1>4. Len(t) = Len(s) + Len(r) /\ DOMAIN t = 1 .. Len(t) BY <1>1, LenProperties DEF Joins
  <1>5. \A i : i \in DOMAIN t <=> i \in Nat /\ i > 0 /\ i <= Len(s) + Len(r) BY <1>2, <1>4
  <1>6. \A i : i \in DOMAIN s <=> i \in Nat /\ i > 0 /\ i <= Len(s) BY <1>2
  <1>7. \A i \in Nat : i > 0 /\ Match(s, q, i) => i <= Len(s) BY <1>2 DEF Match
  <1>8. Len(s) + 1 \in Nat /\ Len(s) + 1 > 0 /\ Len(s) + 1 <= Len(s) + Len(r) /\ Len(s) <= Len(s) + Len(r) BY <1>2
  <1>9. \A i : i \in Found(t, q) <=> i \in Found(s, q) \/ (i = Len(s) + 1 /\ q = r)
    <2> TAKE i
    <2>1. i \in Found(t, q) <=> i \in Nat /\ i > 0 /\ i <= Len(s) + Len(r) /\ Match(t, q, i)
      BY <1>5, Zenon DEF Found
    <2>2. i \in Found(s, q) <=> i \in Nat /\ i > 0 /\ i <= Len(s) /\ Match(s, q, i) BY <1>6, Zenon DEF Found
    <2>3. i \in Nat /\ i <= Len(s) => i <= Len(s) + Len(r) BY <1>2
    <2> QED BY <2>1, <2>2, <2>3, <1>3, <1>7, <1>8
  <1>10. q = r => Found(t, q) = Found(s, q) \cup {Len(s) + 1} BY <1>9
  <1>11. q # r => Found(t, q) = Found(s, q) BY <1>9
  <1> QED BY <1>10, <1>11 DEF t

LEMMA WholeBehind ==
    ASSUME NEW A, NEW s \in Seq(A), NEW r \in Seq(A), Len(r) > 0, r[Len(r)] = EndMark
    PROVE  Whole(s \o r)
  <1>1. Joins(s \o r, s, r) BY ConcatJoins
  <1>2. Len(s) \in Nat /\ Len(r) \in Nat BY LenProperties
  <1>3. Len(s) + Len(r) \in 1 .. Len(s) + Len(r) /\ ~(Len(s) + Len(r) <= Len(s))
        /\ (Len(s) + Len(r)) - Len(s) = Len(r)
    BY <1>2
  <1> QED BY <1>1, <1>3 DEF Joins, Whole

\* The texts of a row: the states, what is neither a state nor an end, the end.
StateTexts  == {"EMP", "NEW", "RDY", "RUN", "BLK", "STP", "ZOM"}
WaitTexts   == {"----", "CON ", "DEV ", "PIPR", "TIMR", "PROC", "LOCK", "PIPW", "RP  ", "????"}
ObjectTexts == {"---", "FIO", "PRC", "???", " "}
HexTexts    == {HexDigits[k] : k \in 1 .. 16}
QuietTexts  == WaitTexts \cup ObjectTexts \cup HexTexts
Loud        == StateTexts \cup {EndMark}
HeaderText  == "PID PPID ST  WAIT OBJ SIG"
PsTexts     == QuietTexts \cup Loud \cup {HeaderText}
Quiet(t)    == t \in Seq(PsTexts) /\ \A i \in 1 .. Len(t) : t[i] \notin Loud

KnownStates == {"EMPTY", "NEW", "READY", "RUNNING", "BLOCKED", "STOPPED", "ZOMBIE"}

HexLetters == <<"A", "B", "C", "D", "E", "F">>

LEMMA HexParts ==
    /\ \A k \in 1 .. 10 : HexDigits[k] = Digits[k]
    /\ \A k \in 11 .. 16 : HexDigits[k] = HexLetters[k - 10]
  <1> DEFINE A == {Digits[i] : i \in 1 .. 10} \cup {HexLetters[i] : i \in 1 .. 6}
  <1>1. Digits \in Seq(A) /\ Len(Digits) = 10
    <2>1. Len(Digits) = 10 /\ Digits \in Seq({Digits[i] : i \in 1 .. 10}) BY DEF Digits
    <2> QED BY <2>1
  <1>2. HexLetters \in Seq(A) /\ Len(HexLetters) = 6
    <2>1. Len(HexLetters) = 6 /\ HexLetters \in Seq({HexLetters[i] : i \in 1 .. 6}) BY DEF HexLetters
    <2> QED BY <2>1
  <1> HIDE DEF A
  <1>3. HexDigits = Digits \o HexLetters BY Zenon DEF HexDigits, HexLetters
  <1>4. Joins(HexDigits, Digits, HexLetters) BY <1>1, <1>2, <1>3, ConcatJoins, Zenon
  <1>5. \A k \in 1 .. 16 : HexDigits[k] = IF k <= 10 THEN Digits[k] ELSE HexLetters[k - 10]
    BY <1>1, <1>2, <1>4 DEF Joins
  <1> QED BY <1>5

LEMMA HexDiffer == \A k, l \in 1 .. 16 : HexDigits[k] = HexDigits[l] => k = l
  <1>1. \A k, l \in 1 .. 10 : Digits[k] = Digits[l] => k = l BY DEF Digits
  <1>2. \A k, l \in 1 .. 6 : HexLetters[k] = HexLetters[l] => k = l BY DEF HexLetters
  <1>3. \A k \in 1 .. 10 : Digits[k] \in {"0", "1", "2", "3", "4", "5", "6", "7", "8", "9"} BY DEF Digits
  <1>4. \A k \in 1 .. 6 : HexLetters[k] \in {"A", "B", "C", "D", "E", "F"} BY DEF HexLetters
  <1>5. \A k \in 1 .. 10, l \in 1 .. 6 : Digits[k] # HexLetters[l]
    <2>1. {"0", "1", "2", "3", "4", "5", "6", "7", "8", "9"} \cap {"A", "B", "C", "D", "E", "F"} = {} OBVIOUS
    <2> QED BY <2>1, <1>3, <1>4
  <1> SUFFICES ASSUME NEW k \in 1 .. 16, NEW l \in 1 .. 16, HexDigits[k] = HexDigits[l] PROVE k = l
    OBVIOUS
  <1>6. CASE k <= 10 /\ l <= 10
    <2>1. Digits[k] = Digits[l] BY <1>6, HexParts
    <2> QED BY <2>1, <1>1, <1>6
  <1>7. CASE k > 10 /\ l > 10
    <2>1. HexLetters[k - 10] = HexLetters[l - 10] BY <1>7, HexParts
    <2>2. k - 10 \in 1 .. 6 /\ l - 10 \in 1 .. 6 BY <1>7
    <2>3. k - 10 = l - 10 BY <2>1, <2>2, <1>2
    <2> QED BY <2>3
  <1>8. CASE k <= 10 /\ l > 10
    <2>1. Digits[k] = HexLetters[l - 10] BY <1>8, HexParts
    <2> QED BY <2>1, <1>5, <1>8
  <1>9. CASE k > 10 /\ l <= 10
    <2>1. HexLetters[k - 10] = Digits[l] BY <1>9, HexParts
    <2> QED BY <2>1, <1>5, <1>9
  <1> QED BY <1>6, <1>7, <1>8, <1>9

LEMMA HexQuiet == \A k \in 1 .. 16 : HexDigits[k] \notin Loud
  <1>1. \A k \in 1 .. 10 : Digits[k] \in {"0", "1", "2", "3", "4", "5", "6", "7", "8", "9"} BY DEF Digits
  <1>2. \A k \in 1 .. 6 : HexLetters[k] \in {"A", "B", "C", "D", "E", "F"} BY DEF HexLetters
  <1>3. \A x \in {"0", "1", "2", "3", "4", "5", "6", "7", "8", "9"} : x \notin Loud
    BY DEF Loud, StateTexts, EndMark
  <1>4. \A x \in {"A", "B", "C", "D", "E", "F"} : x \notin Loud
    BY DEF Loud, StateTexts, EndMark
  <1>5. \A k \in 1 .. 10 : HexDigits[k] \notin Loud BY <1>1, <1>3, HexParts
  <1>6. \A k \in 11 .. 16 : HexDigits[k] \notin Loud
    <2> TAKE k \in 11 .. 16
    <2>1. k - 10 \in 1 .. 6 OBVIOUS
    <2> QED BY <2>1, <1>2, <1>4, HexParts
  <1>7. \A k \in 1 .. 16 : k \in 1 .. 10 \/ k \in 11 .. 16 OBVIOUS
  <1> QED BY <1>5, <1>6, <1>7

LEMMA QuietTextsQuiet == \A x \in QuietTexts : x \in PsTexts \ Loud
  <1>1. \A x \in WaitTexts : x \notin Loud BY DEF WaitTexts, Loud, StateTexts, EndMark
  <1>2. \A x \in ObjectTexts : x \notin Loud BY DEF ObjectTexts, Loud, StateTexts, EndMark
  <1>3. \A x \in HexTexts : x \notin Loud BY HexQuiet DEF HexTexts
  <1> QED BY <1>1, <1>2, <1>3 DEF QuietTexts, PsTexts

LEMMA WaitQuiet == \A w : PsWaitText(w) \in QuietTexts
  <1>1. \A w : PsWaitText(w) \in WaitTexts BY DEF PsWaitText, WaitTexts
  <1> QED BY <1>1 DEF QuietTexts

LEMMA StateLoud == \A s \in KnownStates : PsStateText(s) \in StateTexts /\ PsStateText(s) # EndMark
  BY DEF PsStateText, KnownStates, StateTexts, EndMark

\* A byte in two digits.
LEMMA HexOfByte ==
    ASSUME NEW v \in 0 .. 255
    PROVE  /\ v \div 16 \in 0 .. 15 /\ v % 16 \in 0 .. 15 /\ v = 16 * (v \div 16) + (v % 16)
           /\ FormatHex8(v) = <<HexDigits[(v \div 16) + 1], HexDigits[(v % 16) + 1]>>
           /\ Quiet(FormatHex8(v)) /\ Len(FormatHex8(v)) = 2
  <1>1. v \div 16 \in 0 .. 15 /\ v % 16 \in 0 .. 15 /\ v = 16 * (v \div 16) + (v % 16) OBVIOUS
  <1> DEFINE a == HexDigits[(v \div 16) + 1]
             b == HexDigits[(v % 16) + 1]
  <1>2. FormatHex8(v) = <<a, b>> BY Zenon DEF FormatHex8
  <1>3. (v \div 16) + 1 \in 1 .. 16 /\ (v % 16) + 1 \in 1 .. 16 BY <1>1
  <1>4. a \in QuietTexts /\ b \in QuietTexts BY <1>3 DEF QuietTexts, HexTexts
  <1> HIDE DEF a, b
  <1>5. a \in PsTexts \ Loud /\ b \in PsTexts \ Loud BY <1>4, QuietTextsQuiet
  <1>6. <<a, b>> \in Seq(PsTexts) /\ Len(<<a, b>>) = 2 /\ <<a, b>>[1] = a /\ <<a, b>>[2] = b BY <1>5
  <1>7. \A i \in 1 .. 2 : i = 1 \/ i = 2 OBVIOUS
  <1>8. Quiet(<<a, b>>) BY <1>5, <1>6, <1>7 DEF Quiet
  <1> QED BY <1>1, <1>2, <1>6, <1>8 DEF a, b

LEMMA QuietOne ==
    ASSUME NEW x \in QuietTexts
    PROVE  Quiet(<<x>>)
  <1>1. x \in PsTexts /\ x \notin Loud BY QuietTextsQuiet
  <1>2. <<x>> \in Seq(PsTexts) /\ Len(<<x>>) = 1 /\ <<x>>[1] = x BY <1>1
  <1>3. \A i \in 1 .. 1 : i = 1 OBVIOUS
  <1> QED BY <1>1, <1>2, <1>3 DEF Quiet

LEMMA QuietTogether ==
    ASSUME NEW s, NEW t, Quiet(s), Quiet(t)
    PROVE  Quiet(s \o t)
  <1> DEFINE u == s \o t
  <1>1. s \in Seq(PsTexts) /\ t \in Seq(PsTexts) BY DEF Quiet
  <1>2. u \in Seq(PsTexts) /\ Joins(u, s, t) BY <1>1, ConcatJoins
  <1>3. Len(s) \in Nat /\ Len(t) \in Nat BY <1>1, LenProperties
  <1> HIDE DEF u
  <1>4. ASSUME NEW i \in 1 .. Len(u) PROVE u[i] \notin Loud
    <2>1. i \in 1 .. Len(s) + Len(t) BY <1>2, <1>4 DEF Joins
    <2>2. CASE i <= Len(s)
      <3>1. u[i] = s[i] /\ i \in 1 .. Len(s) BY <1>2, <1>3, <2>1, <2>2 DEF Joins
      <3> QED BY <3>1 DEF Quiet
    <2>3. CASE i > Len(s)
      <3>1. u[i] = t[i - Len(s)] /\ i - Len(s) \in 1 .. Len(t) BY <1>2, <1>3, <2>1, <2>3 DEF Joins
      <3> QED BY <3>1 DEF Quiet
    <2> QED BY <2>1, <2>2, <2>3, <1>3
  <1>5. Quiet(u) BY <1>2, <1>4 DEF Quiet
  <1> QED BY <1>5 DEF u

LEMMA EmptyQuiet == Quiet(<< >>)
  BY DEF Quiet

LEMMA ObjectQuiet ==
    ASSUME NEW w, NEW o \in 0 .. 255
    PROVE  Quiet(PsObjectText(w, o))
  <1>1. "---" \in QuietTexts /\ "FIO" \in QuietTexts /\ "PRC" \in QuietTexts
        /\ "???" \in QuietTexts /\ " " \in QuietTexts
    BY DEF QuietTexts, ObjectTexts
  <1>2. Quiet(<<"---">>) /\ Quiet(<<"FIO">>) /\ Quiet(<<"PRC">>) /\ Quiet(<<"???">>) /\ Quiet(<<" ">>)
    BY <1>1, QuietOne
  <1>3. Quiet(FormatHex8(o)) BY HexOfByte
  <1>4. Quiet(FormatHex8(o) \o <<" ">>) BY <1>2, <1>3, QuietTogether
  <1>5. o = 0 \/ o = 1 \/ o > 1 OBVIOUS
  <1> QED BY <1>2, <1>4, <1>5, Zenon DEF PsObjectText

LEMMA SignalQuiet ==
    ASSUME NEW n \in Nat
    PROVE  Quiet(PsSignalText(n))
  <1> DEFINE u == FormatU32(n)
  <1>1. u \in Seq(DigitSet) BY FormatIsExact DEF Formatted
  <1>2. DigitSet \subseteq QuietTexts
    <2>1. \A i \in 1 .. 10 : Digits[i] = HexDigits[i] /\ i \in 1 .. 16 BY HexParts
    <2> QED BY <2>1 DEF DigitSet, HexTexts, QuietTexts
  <1> HIDE DEF u
  <1>3. \A i \in 1 .. Len(u) : u[i] \in DigitSet BY <1>1, ElementOfSeq
  <1>4. DigitSet \subseteq PsTexts /\ \A x \in DigitSet : x \notin Loud BY <1>2, QuietTextsQuiet
  <1>5. u \in Seq(PsTexts) BY <1>1, <1>4
  <1>6. Quiet(u) BY <1>3, <1>4, <1>5 DEF Quiet
  <1>7. " " \in QuietTexts BY DEF QuietTexts, ObjectTexts
  <1>8. Quiet(<<" ">>) BY <1>7, QuietOne
  <1> DEFINE b == IF Len(u) < 2 THEN <<" ">> ELSE << >>
  <1>9. Quiet(b) BY <1>8, EmptyQuiet
  <1> HIDE DEF b
  <1>10. Quiet(b \o u) BY <1>6, <1>9, QuietTogether
  <1>11. PsSignalText(n) = b \o u BY Zenon DEF PsSignalText, b, u
  <1> QED BY <1>10, <1>11

\* A row that begins with p and a state, and goes on in quiet texts.
Opened(b, p) ==
    /\ b \in Seq(PsTexts) /\ Len(b) > 5
    /\ b[1] = HexDigits[(p \div 16) + 1] /\ b[2] = HexDigits[(p % 16) + 1]
    /\ \A i \in 1 .. Len(b) : b[i] # EndMark /\ (b[i] \in StateTexts <=> i = 5)

LEMMA OpenedGoesOn ==
    ASSUME NEW b, NEW p, NEW t, Opened(b, p), Quiet(t)
    PROVE  Opened(b \o t, p)
  <1> DEFINE u == b \o t
  <1>1. b \in Seq(PsTexts) /\ t \in Seq(PsTexts) BY DEF Quiet, Opened
  <1>2. u \in Seq(PsTexts) /\ Joins(u, b, t) BY <1>1, ConcatJoins
  <1>3. Len(b) \in Nat /\ Len(t) \in Nat /\ Len(b) > 5 BY <1>1, LenProperties DEF Opened
  <1> HIDE DEF u
  <1>4. ASSUME NEW i \in 1 .. Len(u) PROVE u[i] # EndMark /\ (u[i] \in StateTexts <=> i = 5)
    <2>1. i \in 1 .. Len(b) + Len(t) BY <1>2, <1>4 DEF Joins
    <2>2. CASE i <= Len(b)
      <3>1. u[i] = b[i] /\ i \in 1 .. Len(b) BY <1>2, <1>3, <2>1, <2>2 DEF Joins
      <3> QED BY <3>1 DEF Opened
    <2>3. CASE i > Len(b)
      <3>1. u[i] = t[i - Len(b)] /\ i - Len(b) \in 1 .. Len(t) BY <1>2, <1>3, <2>1, <2>3 DEF Joins
      <3>2. u[i] \notin StateTexts /\ u[i] # EndMark BY <3>1 DEF Quiet, Loud
      <3>3. i # 5 BY <2>3, <1>3
      <3> QED BY <3>2, <3>3
    <2> QED BY <2>1, <2>2, <2>3, <1>3
  <1>5. Len(u) > 5 /\ u[1] = b[1] /\ u[2] = b[2]
    <2>1. 1 \in 1 .. Len(b) + Len(t) /\ 2 \in 1 .. Len(b) + Len(t) /\ 1 <= Len(b) /\ 2 <= Len(b) BY <1>3
    <2> QED BY <1>2, <1>3, <2>1 DEF Joins
  <1>6. Opened(u, p) BY <1>2, <1>4, <1>5 DEF Opened
  <1> QED BY <1>6 DEF u

\* The row closed.
LEMMA LineCloses ==
    ASSUME NEW b, NEW p, Opened(b, p)
    PROVE  LET r == b \o <<EndMark>> IN
           /\ r \in Seq(PsTexts) /\ Line(r, StateTexts)
           /\ r[1] = HexDigits[(p \div 16) + 1] /\ r[2] = HexDigits[(p % 16) + 1]
  <1> DEFINE e == <<EndMark>>
             r == b \o e
  <1>0. EndMark \in PsTexts /\ EndMark \notin StateTexts BY DEF EndMark, StateTexts, PsTexts, Loud
  <1>1. b \in Seq(PsTexts) /\ e \in Seq(PsTexts) /\ Len(e) = 1 /\ e[1] = EndMark BY <1>0 DEF Opened
  <1> HIDE DEF e
  <1>2. r \in Seq(PsTexts) /\ Joins(r, b, e) BY <1>1, ConcatJoins
  <1>3. Len(b) \in Nat /\ Len(b) > 5 BY <1>1, LenProperties DEF Opened
  <1> HIDE DEF r
  <1>4. Len(r) = Len(b) + 1 BY <1>1, <1>2 DEF Joins
  <1>5. \A i \in 1 .. Len(b) : r[i] = b[i]
    <2>1. \A i \in 1 .. Len(b) : i \in 1 .. Len(b) + Len(e) /\ i <= Len(b) BY <1>1, <1>3
    <2> QED BY <2>1, <1>2 DEF Joins
  <1>6. r[Len(b) + 1] = EndMark
    <2>1. Len(b) + 1 \in 1 .. Len(b) + Len(e) /\ ~(Len(b) + 1 <= Len(b)) /\ (Len(b) + 1) - Len(b) = 1
      BY <1>1, <1>3
    <2> QED BY <2>1, <1>1, <1>2 DEF Joins
  <1>7. ASSUME NEW i \in 1 .. Len(r)
        PROVE  (r[i] = EndMark => i = Len(r)) /\ (r[i] \in StateTexts <=> i = 5)
    <2>1. CASE i = Len(b) + 1 BY <2>1, <1>0, <1>3, <1>4, <1>6
    <2>2. CASE i \in 1 .. Len(b) BY <2>2, <1>5 DEF Opened
    <2> QED BY <2>1, <2>2, <1>3, <1>4
  <1>8. Line(r, StateTexts) BY <1>3, <1>4, <1>6, <1>7 DEF Line
  <1>9. r[1] = b[1] /\ r[2] = b[2]
    <2>1. 1 \in 1 .. Len(b) /\ 2 \in 1 .. Len(b) BY <1>3
    <2> QED BY <2>1, <1>5
  <1> QED BY <1>2, <1>8, <1>9 DEF Opened, r, e

\* What get_process_info can tell: a state the kernel has, and bytes.
InfoFits(i) ==
    i.state \in KnownStates /\ i.parent \in 0 .. 255 /\ i.object \in 0 .. 255 /\ i.signal \in 0 .. 255

LEMMA RowOpens ==
    ASSUME NEW p \in 0 .. 255, NEW q \in 0 .. 255, NEW s \in StateTexts, s # EndMark, NEW w \in QuietTexts
    PROVE  Opened(FormatHex8(p) \o FormatHex8(q) \o <<s, w>>, p)
  <1> DEFINE x == FormatHex8(p)
             y == FormatHex8(q)
             z == <<s, w>>
             a == x \o y
             b == a \o z
  <1>0. p \in 0 .. 255 /\ q \in 0 .. 255 OBVIOUS
  <1>1. x = <<HexDigits[(p \div 16) + 1], HexDigits[(p % 16) + 1]>> /\ Quiet(x) /\ Len(x) = 2
    BY <1>0, HexOfByte, Zenon
  <1>2. Quiet(y) /\ Len(y) = 2 BY <1>0, HexOfByte, Zenon
  <1>3. s \in PsTexts /\ w \in PsTexts /\ w \notin Loud
    BY QuietTextsQuiet DEF PsTexts, Loud
  <1>4. z \in Seq(PsTexts) /\ Len(z) = 2 /\ z[1] = s /\ z[2] = w BY <1>3
  <1>5. x[1] = HexDigits[(p \div 16) + 1] /\ x[2] = HexDigits[(p % 16) + 1] BY <1>1
  <1> HIDE DEF x, y, z
  <1>6. x \in Seq(PsTexts) /\ y \in Seq(PsTexts) BY <1>1, <1>2 DEF Quiet
  <1>7. a \in Seq(PsTexts) /\ Joins(a, x, y) BY <1>6, ConcatJoins
  <1>8. Quiet(a) BY <1>1, <1>2, QuietTogether
  <1> HIDE DEF a
  <1>9. Len(a) = 4 BY <1>1, <1>2, <1>7 DEF Joins
  <1>10. a[1] = x[1] /\ a[2] = x[2] BY <1>1, <1>2, <1>7 DEF Joins
  <1>11. b \in Seq(PsTexts) /\ Joins(b, a, z) BY <1>4, <1>7, ConcatJoins
  <1> HIDE DEF b
  <1>12. Len(b) = 6 /\ \A i \in 1 .. 6 : b[i] = IF i <= 4 THEN a[i] ELSE z[i - 4]
    BY <1>4, <1>9, <1>11 DEF Joins
  <1>13. b[5] = s /\ b[6] = w /\ \A i \in 1 .. 4 : b[i] = a[i] BY <1>4, <1>12
  <1>14. \A i \in 1 .. 4 : a[i] \notin Loud BY <1>8, <1>9 DEF Quiet
  <1>15. \A i \in 1 .. 6 : i = 5 \/ i = 6 \/ i \in 1 .. 4 OBVIOUS
  <1>16. \A i \in 1 .. 6 : b[i] # EndMark /\ (b[i] \in StateTexts <=> i = 5)
    <2> TAKE i \in 1 .. 6
    <2>1. CASE i = 5 BY <2>1, <1>13
    <2>2. CASE i = 6 BY <2>2, <1>3, <1>13 DEF Loud
    <2>3. CASE i \in 1 .. 4
      <3>1. b[i] \notin Loud BY <2>3, <1>13, <1>14
      <3>2. i # 5 BY <2>3
      <3> QED BY <3>1, <3>2 DEF Loud
    <2> QED BY <2>1, <2>2, <2>3, <1>15
  <1>17. b[1] = x[1] /\ b[2] = x[2] BY <1>10, <1>13
  <1>18. Opened(b, p) BY <1>5, <1>11, <1>12, <1>16, <1>17 DEF Opened
  <1> QED BY <1>18, Zenon DEF b, a, x, y, z

\* A row of ps is a line, and begins with its pid.
LEMMA RowIsLine ==
    ASSUME NEW p \in 0 .. 255, NEW i, InfoFits(i)
    PROVE  /\ PsRow(p, i) \in Seq(PsTexts) /\ Line(PsRow(p, i), StateTexts)
           /\ PsRow(p, i)[1] = HexDigits[(p \div 16) + 1] /\ PsRow(p, i)[2] = HexDigits[(p % 16) + 1]
  <1> DEFINE st == PsStateText(i.state)
             wt == PsWaitText(i.wait)
             ob == PsObjectText(i.wait, i.object)
             sg == PsSignalText(i.signal)
             b  == FormatHex8(p) \o FormatHex8(i.parent) \o <<st, wt>>
             c  == b \o ob
             d  == c \o sg
             e  == d \o <<EndMark>>
  <1>1. st \in StateTexts /\ st # EndMark BY StateLoud DEF InfoFits
  <1>2. wt \in QuietTexts BY WaitQuiet
  <1>3. Quiet(ob) BY ObjectQuiet DEF InfoFits
  <1>4. Quiet(sg)
    <2>1. i.signal \in Nat BY DEF InfoFits
    <2> QED BY <2>1, SignalQuiet
  <1>5. PsRow(p, i) = e BY Zenon DEF PsRow, CR, EndMark
  <1>6. i.parent \in 0 .. 255 BY DEF InfoFits
  <1> HIDE DEF st, wt, ob, sg
  <1>7. Opened(b, p) BY <1>1, <1>2, <1>6, RowOpens
  <1> HIDE DEF b
  <1>8. Opened(c, p) BY <1>3, <1>7, OpenedGoesOn
  <1> HIDE DEF c
  <1>9. Opened(d, p) BY <1>4, <1>8, OpenedGoesOn
  <1> HIDE DEF d
  <1>10. /\ e \in Seq(PsTexts) /\ Line(e, StateTexts)
         /\ e[1] = HexDigits[(p \div 16) + 1] /\ e[2] = HexDigits[(p % 16) + 1]
    BY <1>9, LineCloses
  <1> HIDE DEF e
  <1> QED BY <1>5, <1>10

LEMMA RowsDiffer ==
    ASSUME NEW p \in 0 .. 255, NEW q \in 0 .. 255, p # q, NEW i, NEW j, InfoFits(i), InfoFits(j)
    PROVE  PsRow(p, i) # PsRow(q, j)
  <1> SUFFICES ASSUME PsRow(p, i) = PsRow(q, j) PROVE FALSE OBVIOUS
  <1> DEFINE a == (p \div 16) + 1
             b == (p % 16) + 1
             c == (q \div 16) + 1
             d == (q % 16) + 1
  <1>1. HexDigits[a] = HexDigits[c] /\ HexDigits[b] = HexDigits[d]
    <2>1. PsRow(p, i)[1] = HexDigits[a] /\ PsRow(p, i)[2] = HexDigits[b] BY RowIsLine, Zenon
    <2>2. PsRow(q, j)[1] = HexDigits[c] /\ PsRow(q, j)[2] = HexDigits[d] BY RowIsLine, Zenon
    <2> HIDE DEF a, b, c, d
    <2> QED BY <2>1, <2>2
  <1>2. /\ a \in 1 .. 16 /\ b \in 1 .. 16 /\ p = 16 * (a - 1) + (b - 1)
        /\ c \in 1 .. 16 /\ d \in 1 .. 16 /\ q = 16 * (c - 1) + (d - 1)
    OBVIOUS
  <1> HIDE DEF a, b, c, d
  <1>3. a = c /\ b = d BY <1>1, <1>2, HexDiffer
  <1> QED BY <1>2, <1>3

PsInfos == Infos \cup {Processes[p] : p \in Pids}

\* What ps can find: pids 0 .. n of a byte, and infos that differ look different.
TableFits ==
    /\ \E n \in 0 .. 255 : Pids = 0 .. n
    /\ Processes \in [Pids -> PsInfos]
    /\ \A i \in PsInfos : InfoFits(i)
    /\ \A p \in Pids : \A i, j \in PsInfos : PsRow(p, i) = PsRow(p, j) => i = j

\* Where ps is.
PsCourse ==
    /\ job.id = "ps" /\ pc \in {"start", "info", "write", "done"}
    /\ pc = "write" => after = "info"
    /\ pc = "start" => out = << >> /\ pos = 0
    /\ pos \in Nat /\ (pc = "done" /\ status = "OK" => pos \notin Pids)
    /\ out \in Seq(PsTexts) /\ todo \in Seq(PsTexts)
    /\ table \in [Pids -> PsInfos]

\* A process that nobody touches has its row exactly when its pid has been
\* passed, and a row with another info never.
Reports ==
    \A p \in Pids \cap stable : table[p].state # "EMPTY" =>
        /\ p < pos => \E k : Found(Put, PsRow(p, table[p])) = {k}
        /\ ~(p < pos) => Found(Put, PsRow(p, table[p])) = {}
        /\ \A i \in Infos \ {table[p]} : Found(Put, PsRow(p, i)) = {}

PsInv == job.id = "ps" => PsCourse /\ ((pc = "done" => status = "OK") => Whole(Put) /\ Reports)

LEMMA NothingFound ==
    ASSUME NEW A, NEW s \in Seq(A), NEW q, NEW M, Line(q, M), Len(s) < 6
    PROVE  Found(s, q) = {}
  <1>1. Len(s) \in Nat /\ DOMAIN s = 1 .. Len(s) /\ Len(q) \in Nat /\ Len(q) > 5 BY LenProperties DEF Line
  <1>2. \A i \in DOMAIN s : ~(i + Len(q) - 1 <= Len(s)) BY <1>1
  <1> QED BY <1>2, Zenon DEF Found, Match

\* A process, and what ps may find it to be.
LEMMA PsEntry ==
    ASSUME TableFits, PsCourse, NEW p \in Pids
    PROVE  /\ p \in 0 .. 255 /\ table[p] \in PsInfos
           /\ \A i \in PsInfos : InfoFits(i) /\ PsRow(p, i) \in Seq(PsTexts) /\ Line(PsRow(p, i), StateTexts)
  <1>1. p \in 0 .. 255 BY DEF TableFits
  <1>2. \A i \in PsInfos : InfoFits(i) BY DEF TableFits
  <1>3. \A i \in PsInfos : PsRow(p, i) \in Seq(PsTexts) /\ Line(PsRow(p, i), StateTexts)
    BY <1>1, <1>2, RowIsLine
  <1> QED BY <1>1, <1>2, <1>3 DEF PsCourse

LEMMA NothingReported ==
    ASSUME TableFits, PsCourse, Put \in Seq(PsTexts), Len(Put) < 6, pos = 0
    PROVE  Reports
  <1>1. ASSUME NEW p \in Pids, NEW i \in PsInfos PROVE Found(Put, PsRow(p, i)) = {}
    <2>1. Line(PsRow(p, i), StateTexts) BY <1>1, PsEntry
    <2> QED BY <2>1, NothingFound
  <1>2. \A p \in Pids : ~(p < pos) /\ table[p] \in PsInfos
    <2> TAKE p \in Pids
    <2>1. p \in 0 .. 255 /\ table[p] \in PsInfos BY PsEntry
    <2> QED BY <2>1
  <1>3. Infos \subseteq PsInfos BY DEF PsInfos
  <1> QED BY <1>1, <1>2, <1>3 DEF Reports

LEMMA InitPs == Init /\ TableFits => PsInv
  <1> SUFFICES ASSUME Init, TableFits, job.id = "ps" PROVE PsInv
    BY DEF PsInv
  <1>1. pc = "start" /\ out = << >> /\ todo = << >> /\ pos = 0 /\ table = Processes BY DEF Init
  <1>2. << >> \in Seq(PsTexts) /\ Len(<< >>) = 0 OBVIOUS
  <1>3. PsCourse BY <1>1, <1>2 DEF PsCourse, TableFits
  <1>4. Put = << >> BY <1>1 DEF Put
  <1>5. Put \in Seq(PsTexts) /\ Len(Put) = 0 /\ Len(Put) < 6 BY <1>2, <1>4
  <1>6. Whole(Put) BY <1>5 DEF Whole
  <1>7. Reports BY <1>1, <1>3, <1>5, NothingReported
  <1> QED BY <1>3, <1>6, <1>7 DEF PsInv

\* The steps that ps can take.
LEMMA PsSteps ==
    ASSUME PsCourse, [Next]_vars
    PROVE  \/ RejectUsage \/ WriteSome \/ WriteFails \/ PsStart \/ PsInfo \/ PsInfoFails \/ PsEnd
           \/ OtherProcess \/ UNCHANGED vars
  <1>1. /\ ~Echo /\ ~Pwd /\ ~Kill /\ ~Rm /\ ~Rmdir /\ ~Mkdir /\ ~Mv /\ ~CatStdin /\ ~OpenSource
        /\ ~SamePath /\ ~CreateDestination /\ ~ReadSome /\ ~ReadFails /\ ~ReadEnd
        /\ ~LsStart /\ ~OpenDir /\ ~ReadDir /\ ~CloseDir /\ ~ReadDirFails /\ ~OtherEntry
    BY DEF PsCourse, Begins, Echo, Pwd, Kill, Rm, Rmdir, Mkdir, Mv, PathOperation, CatStdin, OpenSource,
       SamePath, CreateDestination, ReadSome, ReadFails, ReadEnd, LsStart, OpenDir, ReadDir, CloseDir,
       ReadDirFails, OtherEntry
  <1> QED BY <1>1 DEF Next, AppletStep

\* A failure ends the report, whatever there is of it.
LEMMA PsFails ==
    ASSUME PsCourse, [Next]_vars, RejectUsage \/ WriteFails \/ PsInfoFails
    PROVE  PsInv'
  <1>1. job' = job BY JobStays
  <1>2. \A call : \A st \in Fails(call) : st # "OK" BY DEF Fails, Errors
  <1>3. pc' = "done" /\ status' # "OK" /\ UNCHANGED <<out, todo, pos, table>>
    BY <1>2 DEF RejectUsage, WriteFails, PsInfoFails, End, idle, world
  <1> QED BY <1>1, <1>3 DEF PsInv, PsCourse

LEMMA PsEnds ==
    ASSUME PsCourse, Whole(Put), Reports, [Next]_vars, PsEnd
    PROVE  PsInv'
  <1>1. job' = job BY JobStays
  <1>2. pc = "info" /\ pos \notin Pids /\ pc' = "done" /\ UNCHANGED <<out, todo, pos, table, stable>>
    BY DEF PsEnd, End, idle, world
  <1>3. Put' = Put BY <1>2 DEF Put
  <1>4. PsCourse' BY <1>1, <1>2 DEF PsCourse
  <1>5. Reports' BY <1>2, <1>3 DEF Reports
  <1>6. Whole(Put') BY <1>3
  <1> QED BY <1>4, <1>5, <1>6 DEF PsInv

LEMMA PsWrites ==
    ASSUME PsCourse, Whole(Put), Reports, [Next]_vars, WriteSome
    PROVE  PsInv'
  <1>1. job' = job BY JobStays
  <1>2. UNCHANGED <<pos, table, stable, after>> /\ pc = "write" BY DEF WriteSome
  <1>3. after = "info" /\ job.id # "cp" /\ out \in Seq(PsTexts) /\ todo \in Seq(PsTexts) BY <1>2 DEF PsCourse
  <1>4. Put' = Put /\ out' \in Seq(PsTexts) /\ todo' \in Seq(PsTexts) /\ pc' \in {"write", "info"}
    BY <1>3, TransferKeeps
  <1>5. PsCourse' BY <1>1, <1>2, <1>3, <1>4 DEF PsCourse
  <1>6. Reports' BY <1>2, <1>4 DEF Reports
  <1>7. Whole(Put') BY <1>4
  <1> QED BY <1>5, <1>6, <1>7 DEF PsInv

LEMMA PsStarts ==
    ASSUME TableFits, PsCourse, [Next]_vars, PsStart
    PROVE  PsInv'
  <1> DEFINE h == <<HeaderText>>
             e == <<EndMark>>
             r == h \o e
  <1>1. job' = job BY JobStays
  <1>2. pc = "start" /\ UNCHANGED <<out, pos, table>> BY DEF PsStart, Begins, world
  <1>3. todo' = r /\ after' = "info" /\ pc' = "write" BY Zenon DEF PsStart, Emit, CR, HeaderText, EndMark
  <1>4. HeaderText \in PsTexts /\ EndMark \in PsTexts BY DEF PsTexts, Loud
  <1>5. h \in Seq(PsTexts) /\ Len(h) = 1 /\ e \in Seq(PsTexts) /\ Len(e) = 1 /\ e[1] = EndMark BY <1>4
  <1> HIDE DEF h, e
  <1>6. r \in Seq(PsTexts) /\ Joins(r, h, e) BY <1>5, ConcatJoins
  <1> HIDE DEF r
  <1>7. Len(r) = 2 /\ r[2] = EndMark BY <1>5, <1>6 DEF Joins
  <1>8. PsCourse' BY <1>1, <1>2, <1>3, <1>6 DEF PsCourse
  <1>9. out = << >> /\ out \in Seq(PsTexts) /\ pos = 0 BY <1>2 DEF PsCourse
  <1> DEFINE u == out \o r
  <1>10. u \in Seq(PsTexts) /\ Joins(u, out, r) BY <1>6, <1>9, ConcatJoins
  <1>11. Put' = u BY <1>2, <1>3 DEF Put
  <1>12. Len(out) = 0 BY <1>9
  <1> HIDE DEF u
  <1>13. Len(Put') = 2 /\ Put'[2] = EndMark /\ Put' \in Seq(PsTexts)
    <2>1. Len(u) = 2 /\ \A i \in 1 .. 2 : u[i] = IF i <= 0 THEN out[i] ELSE r[i - 0]
      BY <1>7, <1>10, <1>12 DEF Joins
    <2>2. u[2] = EndMark BY <2>1, <1>7
    <2> QED BY <2>1, <2>2, <1>10, <1>11
  <1>14. Whole(Put') BY <1>13 DEF Whole
  <1>15. pos' = 0 /\ Len(Put') < 6 BY <1>2, <1>9, <1>13
  <1>16. Reports'
    <2>1. ASSUME NEW p \in Pids, NEW i \in PsInfos PROVE Found(Put', PsRow(p, i)) = {}
      <3>1. Line(PsRow(p, i), StateTexts) BY <2>1, PsEntry
      <3> QED BY <3>1, <1>13, <1>15, NothingFound
    <2>2. \A p \in Pids : ~(p < pos') /\ table'[p] \in PsInfos
      <3> TAKE p \in Pids
      <3>1. p \in 0 .. 255 /\ table[p] \in PsInfos BY PsEntry
      <3> QED BY <3>1, <1>2, <1>15
    <2>3. Infos \subseteq PsInfos BY DEF PsInfos
    <2> QED BY <2>1, <2>2, <2>3 DEF Reports
  <1> QED BY <1>8, <1>14, <1>16 DEF PsInv

\* Another process takes a slot or leaves it: it is no longer one that stays.
LEMMA PsChanges ==
    ASSUME PsCourse, Whole(Put), Reports, [Next]_vars, OtherProcess
    PROVE  PsInv'
  <1>1. job' = job BY JobStays
  <1>2. UNCHANGED <<pc, status, out, todo, after, pos>> BY DEF OtherProcess, idle
  <1>3. PICK q \in Pids, i \in Infos : table' = [table EXCEPT ![q] = i] /\ stable' = stable \ {q}
    BY DEF OtherProcess
  <1>4. i \in PsInfos BY <1>3 DEF PsInfos
  <1>5. table' \in [Pids -> PsInfos] BY <1>3, <1>4 DEF PsCourse
  <1>6. PsCourse' BY <1>1, <1>2, <1>5 DEF PsCourse
  <1>7. Put' = Put BY <1>2 DEF Put
  <1>8. \A p \in Pids \cap stable' : p \in Pids \cap stable /\ table'[p] = table[p] BY <1>3 DEF PsCourse
  <1>9. Reports' BY <1>2, <1>7, <1>8 DEF Reports
  <1>10. Whole(Put') BY <1>7
  <1> QED BY <1>6, <1>9, <1>10 DEF PsInv

LEMMA PsSkips ==
    ASSUME TableFits, PsCourse, Whole(Put), Reports, [Next]_vars, PsInfo, table[pos].state = "EMPTY"
    PROVE  PsInv'
  <1>1. job' = job BY JobStays
  <1>2. pc = "info" /\ pos' = pos + 1 /\ UNCHANGED <<pc, out, todo, after, status, table, stable>> BY DEF PsInfo, world
  <1>3. Put' = Put BY <1>2 DEF Put
  <1>4. PsCourse' BY <1>1, <1>2 DEF PsCourse
  <1>5. \A p \in Pids \cap stable : table[p].state # "EMPTY" => (p < pos' <=> p < pos)
    <2> SUFFICES ASSUME NEW p \in Pids, table[p].state # "EMPTY" PROVE p < pos' <=> p < pos
      OBVIOUS
    <2>1. p \in 0 .. 255 /\ p # pos BY PsEntry
    <2>2. pos \in Nat BY DEF PsCourse
    <2> QED BY <2>1, <2>2, <1>2
  <1>6. Reports' BY <1>2, <1>3, <1>5 DEF Reports
  <1>7. Whole(Put') BY <1>3
  <1> QED BY <1>4, <1>6, <1>7 DEF PsInv

LEMMA PsReports ==
    ASSUME TableFits, PsCourse, Whole(Put), Reports, [Next]_vars, PsInfo, table[pos].state # "EMPTY"
    PROVE  PsInv'
  <1> DEFINE r == PsRow(pos, table[pos])
             s == out
  <1>1. job' = job BY JobStays
  <1>2. pc = "info" /\ pos \in Pids /\ pos' = pos + 1 /\ UNCHANGED <<out, status, table, stable>> BY DEF PsInfo, world
  <1>3. todo' = r /\ after' = "info" /\ pc' = "write" BY Zenon DEF PsInfo, Emit
  <1>4. /\ pos \in 0 .. 255 /\ table[pos] \in PsInfos
        /\ InfoFits(table[pos]) /\ r \in Seq(PsTexts) /\ Line(r, StateTexts)
    BY <1>2, PsEntry
  <1>5. PsCourse' BY <1>1, <1>2, <1>3, <1>4 DEF PsCourse
  <1>6. Put = s /\ s \in Seq(PsTexts) /\ Whole(s) BY <1>2 DEF Put, PsCourse
  <1>7. Put' = s \o r BY <1>2, <1>3, Zenon DEF Put
  <1> HIDE DEF r, s
  <1>8. Whole(Put')
    <2>1. Len(r) > 0 /\ r[Len(r)] = EndMark BY <1>4 DEF Line
    <2> QED BY <2>1, <1>4, <1>6, <1>7, WholeBehind
  <1>9. ASSUME NEW q, NEW p \in Pids, NEW i \in PsInfos, q = PsRow(p, i)
        PROVE  Found(s \o r, q) = IF q = r THEN Found(s, q) \cup {Len(s) + 1} ELSE Found(s, q)
    <2>1. q \in Seq(PsTexts) /\ Line(q, StateTexts) BY <1>9, PsEntry
    <2> QED BY <2>1, <1>4, <1>6, FoundBehind
  <1>10. Infos \subseteq PsInfos BY DEF PsInfos
  <1>11. ASSUME NEW p \in Pids \cap stable, table[p].state # "EMPTY"
         PROVE  /\ p < pos' => \E k : Found(Put', PsRow(p, table[p])) = {k}
                /\ ~(p < pos') => Found(Put', PsRow(p, table[p])) = {}
                /\ \A i \in Infos \ {table[p]} : Found(Put', PsRow(p, i)) = {}
    <2>1. p \in 0 .. 255 /\ table[p] \in PsInfos /\ \A i \in PsInfos : InfoFits(i) BY PsEntry
    <2>2. /\ p < pos => \E k : Found(s, PsRow(p, table[p])) = {k}
          /\ ~(p < pos) => Found(s, PsRow(p, table[p])) = {}
          /\ \A i \in Infos \ {table[p]} : Found(s, PsRow(p, i)) = {}
      BY <1>6, <1>11 DEF Reports
    <2>3. CASE p = pos
      <3>1. PsRow(p, table[p]) = r BY <2>3 DEF r
      <3>2. ~(p < pos) /\ p < pos' BY <2>3, <1>2, <1>4
      <3>3. Found(Put', PsRow(p, table[p])) = {Len(s) + 1}
        <4>1. Found(s \o r, r) = Found(s, r) \cup {Len(s) + 1} BY <3>1, <2>1, <1>9
        <4>2. Found(s, r) = {} BY <3>1, <3>2, <2>2
        <4>3. Found(s \o r, r) = {Len(s) + 1} BY <4>1, <4>2
        <4> QED BY <4>3, <3>1, <1>7
      <3>4. ASSUME NEW i \in Infos \ {table[p]} PROVE Found(Put', PsRow(p, i)) = {}
        <4>1. PsRow(p, i) # r BY <3>1, <3>4, <2>1, <1>10 DEF TableFits
        <4>2. Found(s \o r, PsRow(p, i)) = Found(s, PsRow(p, i)) BY <4>1, <3>4, <1>9, <1>10
        <4> QED BY <4>2, <3>4, <2>2, <1>7
      <3> QED BY <3>2, <3>3, <3>4
    <2>4. CASE p # pos
      <3>1. \A i \in PsInfos : PsRow(p, i) # r BY <2>1, <2>4, <1>4, RowsDiffer DEF r
      <3>2. \A i \in PsInfos : Found(Put', PsRow(p, i)) = Found(s, PsRow(p, i)) BY <3>1, <1>7, <1>9
      <3>3. p < pos' <=> p < pos
        <4>1. p \in 0 .. 255 /\ pos \in 0 .. 255 /\ pos' = pos + 1 BY <2>1, <1>2, <1>4
        <4> QED BY <4>1, <2>4
      <3> QED BY <3>2, <3>3, <2>1, <2>2, <1>10
    <2> QED BY <2>3, <2>4
  <1>12. Reports' BY <1>2, <1>11 DEF Reports
  <1> QED BY <1>5, <1>8, <1>12 DEF PsInv

LEMMA NextPs ==
    ASSUME TableFits, PsInv, [Next]_vars
    PROVE  PsInv'
  <1>1. job' = job BY JobStays
  <1> SUFFICES ASSUME job.id = "ps" PROVE PsInv'
    BY <1>1 DEF PsInv
  <1>2. PsCourse BY DEF PsInv
  <1>3. CASE UNCHANGED vars
    <2>1. PsInv' = PsInv BY <1>3 DEF vars, PsInv, PsCourse, Reports, Put
    <2> QED BY <2>1
  <1>4. CASE ~UNCHANGED vars
    <2>1. \/ RejectUsage \/ WriteSome \/ WriteFails \/ PsStart \/ PsInfo \/ PsInfoFails \/ PsEnd
          \/ OtherProcess
      BY <1>2, <1>4, PsSteps
    <2>2. pc # "done"
      BY <2>1 DEF RejectUsage, WriteSome, WriteFails, PsStart, Begins, PsInfo, PsInfoFails, PsEnd, OtherProcess
    <2>3. Whole(Put) /\ Reports BY <2>2 DEF PsInv
    <2>4. CASE PsInfo
      <3>1. CASE table[pos].state = "EMPTY" BY <2>4, <3>1, <1>2, <2>3, PsSkips
      <3>2. CASE table[pos].state # "EMPTY" BY <2>4, <3>2, <1>2, <2>3, PsReports
      <3> QED BY <3>1, <3>2
    <2>5. CASE WriteSome BY <2>5, <1>2, <2>3, PsWrites
    <2>6. CASE PsStart BY <2>6, <1>2, PsStarts
    <2>7. CASE PsEnd BY <2>7, <1>2, <2>3, PsEnds
    <2>8. CASE OtherProcess BY <2>8, <1>2, <2>3, PsChanges
    <2>9. CASE RejectUsage \/ WriteFails \/ PsInfoFails BY <2>9, <1>2, PsFails
    <2> QED BY <2>1, <2>4, <2>5, <2>6, <2>7, <2>8, <2>9
  <1> QED BY <1>3, <1>4

\* neox_applet_ps reads the table slot by slot while processes come and go: a
\* process that nobody touches has exactly one row in what ps puts out, and no
\* row of that process tells anything else.
THEOREM ReportsAreStable == Spec /\ TableFits => []ReportsStable
  <1>1. Init /\ TableFits => PsInv BY InitPs
  <1>2. TableFits /\ PsInv /\ [Next]_vars => PsInv' BY NextPs
  <1>3. ASSUME PsInv, TableFits PROVE ReportsStable
    <2> SUFFICES ASSUME job.id = "ps", pc = "done", status = "OK",
                        NEW p \in Pids \cap stable, table[p].state # "EMPTY"
                 PROVE  /\ Cardinality({i \in DOMAIN out : RowAt(PsRow(p, table[p]), i)}) = 1
                        /\ \A i \in Infos \ {table[p]} : \A k \in DOMAIN out : ~RowAt(PsRow(p, i), k)
      BY DEF ReportsStable
    <2>1. PsCourse /\ Reports /\ pos \notin Pids BY <1>3 DEF PsInv, PsCourse
    <2>2. Put = out /\ out \in Seq(PsTexts) BY <2>1 DEF Put, PsCourse
    <2>3. p < pos
      <3>1. PICK n \in 0 .. 255 : Pids = 0 .. n BY <1>3 DEF TableFits
      <3> QED BY <3>1, <2>1 DEF PsCourse
    <2>4. table[p] \in PsInfos /\ Infos \subseteq PsInfos BY <1>3, <2>1, PsEntry DEF PsInfos
    <2>5. ASSUME NEW i \in PsInfos PROVE {k \in DOMAIN out : RowAt(PsRow(p, i), k)} = Found(out, PsRow(p, i))
      <3>1. PsRow(p, i) \in Seq(PsTexts) /\ Len(PsRow(p, i)) > 0 BY <1>3, <2>1, <2>5, PsEntry DEF Line
      <3>2. \A k \in DOMAIN out : RowAt(PsRow(p, i), k) <=> Match(out, PsRow(p, i), k)
        BY <2>2, <3>1, MatchIsRowAt
      <3> QED BY <3>2, Zenon DEF Found
    <2>6. PICK k : Found(out, PsRow(p, table[p])) = {k} BY <2>1, <2>2, <2>3 DEF Reports
    <2>7. {i \in DOMAIN out : RowAt(PsRow(p, table[p]), i)} = {k} BY <2>4, <2>5, <2>6
    <2>8. Cardinality({i \in DOMAIN out : RowAt(PsRow(p, table[p]), i)}) = 1 BY <2>7, FS_Singleton, Zenon
    <2>9. ASSUME NEW i \in Infos \ {table[p]} PROVE \A j \in DOMAIN out : ~RowAt(PsRow(p, i), j)
      <3>1. Found(out, PsRow(p, i)) = {} BY <2>1, <2>2, <2>9 DEF Reports
      <3>2. {j \in DOMAIN out : RowAt(PsRow(p, i), j)} = {} BY <3>1, <2>4, <2>5, <2>9
      <3> QED BY <3>2
    <2> QED BY <2>8, <2>9
  <1>4. TableFits => TableFits' BY Zenon DEF TableFits
  <1> QED BY <1>1, <1>2, <1>3, <1>4, PTL DEF Spec

=============================================================================
