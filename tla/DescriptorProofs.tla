-------------------------- MODULE DescriptorProofs --------------------------
(***************************************************************************)
(* What the routines of fd.asm and pipe.asm do to tables that are in       *)
(* order, for any numbers of processes, descriptors, objects and pipes and *)
(* any contents.                                                           *)
(***************************************************************************)
EXTENDS Descriptors, FiniteSetTheorems, SequenceTheorems, WellFoundedInduction, TLAPS

(***************************************************************************)
(* The least-number principle, from the well-foundedness of < on sets of   *)
(* naturals.  The inductions below are about the set of counterexamples.   *)
(***************************************************************************)
LEMMA LeastNumber ==
    ASSUME NEW S \in SUBSET Nat, S # {}
    PROVE  \E n \in S : \A m \in S : n <= m
<1> DEFINE R == OpToRel(<, Nat)
<1>1. IsWellFoundedOn(R, Nat)
  BY NatLessThanWellFounded
<1>2. PICK x \in S : \A y \in S : ~ (<<y, x>> \in R)
  <2> HIDE DEF R
  <2> QED BY <1>1, WFMin
<1>3. \A y \in S : ~(y < x)
  BY <1>2 DEF OpToRel
<1> QED BY <1>3

LEMMA MinIsMember ==
    ASSUME NEW S \in SUBSET Nat, S # {}
    PROVE  Min(S) \in S /\ \A m \in S : Min(S) <= m
  BY LeastNumber DEF Min

\* The sizes of the tables.
LEMMA Sizes ==
    /\ MaxFds \in Nat /\ OpenMax \in Nat /\ MaxPipes \in Nat \ {0}
    /\ PipeBufSize \in Nat \ {0}
    /\ Task \subseteq Nat /\ Fd \subseteq Nat /\ Obj \subseteq Nat /\ Pipe \subseteq Nat
    /\ None \notin Fd /\ None \notin Obj /\ None \notin Pipe
    /\ 0 \in Fd /\ 0 \in Pipe /\ 0 \in Index
<1>1. PipeBufSize \in Nat \ {0}
  BY DescriptorsAssumption
<1>2. QED
  BY <1>1, DescriptorsAssumption, MaxProcsAssumption DEF Task, Fd, Obj, Pipe, None, Index

(***************************************************************************)
(* Tables in order.                                                        *)
(***************************************************************************)

\* The descriptors that refer to o.
RefsTo(T, o) == {d \in Task \X Fd : T.fd[d[1]][d[2]].obj = o}

Counted(T) == \A o \in Obj : T.obj[o].refs = Cardinality(RefsTo(T, o))

\* An endpoint object stands for an open end of a pipe, and no other does.
Endpoints(T) ==
    \A o \in Obj :
       IF T.obj[o].type = "PIPE"
       THEN T.obj[o].pipe # None /\ T.obj[o].end \in T.pipe[T.obj[o].pipe].ends
       ELSE T.obj[o].pipe = None /\ T.obj[o].end = "-"

EndsApart(T) ==
    \A o, q \in Obj :
       T.obj[o].type = "PIPE" /\ q # o => T.obj[q].pipe # T.obj[o].pipe \/ T.obj[q].end # T.obj[o].end

\* An open descriptor refers to an object in use and permits its direction.
SlotsInUse(T) ==
    \A p \in Task, f \in Fd : IsOpen(T, p, f) =>
       /\ T.obj[T.fd[p][f].obj].type # "NONE"
       /\ T.obj[T.fd[p][f].obj].type = "PIPE" => T.fd[p][f].flags = {T.obj[T.fd[p][f].obj].end}

\* A ring's head is count places after its tail; a free pipe is empty.
Rings(T) ==
    \A k \in Pipe : /\ T.pipe[k].head = Advance(T.pipe[k].tail, T.pipe[k].count)
                    /\ T.pipe[k].ends = {} => T.pipe[k].count = 0

InOrder(T) == T \in Tables /\ Counted(T) /\ Endpoints(T) /\ EndsApart(T) /\ SlotsInUse(T) /\ Rings(T)

(***************************************************************************)
(* The effect of the primitive routines, field by field.                   *)
(***************************************************************************)
LEMMA FieldTypes ==
    ASSUME NEW T \in Tables
    PROVE  /\ T.fd \in [Task -> [Fd -> Slot]] /\ T.obj \in [Obj -> Object]
           /\ T.pipe \in [Pipe -> Ring] /\ T.wakes \in SUBSET WakeReq
           /\ T = [fd |-> T.fd, obj |-> T.obj, pipe |-> T.pipe, wakes |-> T.wakes]
  BY DEF Tables

LEMMA TablesFrom ==
    ASSUME NEW a \in [Task -> [Fd -> Slot]], NEW b \in [Obj -> Object],
           NEW c \in [Pipe -> Ring], NEW w \in SUBSET WakeReq
    PROVE  [fd |-> a, obj |-> b, pipe |-> c, wakes |-> w] \in Tables
  BY DEF Tables

LEMMA AttachEffect ==
    ASSUME NEW T \in Tables, NEW p \in Task, NEW f \in Fd, NEW o \in Obj, NEW fl \in SUBSET End
    PROVE  LET U == Attach(T, p, f, o, fl) IN
           /\ U \in Tables /\ U.pipe = T.pipe /\ U.wakes = T.wakes
           /\ \A q \in Task, h \in Fd :
                 U.fd[q][h] = IF q = p /\ h = f THEN [obj |-> o, flags |-> fl] ELSE T.fd[q][h]
           /\ \A x \in Obj : U.obj[x] = IF x = o THEN [T.obj[o] EXCEPT !.refs = @ + 1] ELSE T.obj[x]
<1> DEFINE U == Attach(T, p, f, o, fl)
           s == [obj |-> o, flags |-> fl]
           a == [T.fd EXCEPT ![p] = [T.fd[p] EXCEPT ![f] = s]]
           b == [T.obj EXCEPT ![o] = [T.obj[o] EXCEPT !.refs = @ + 1]]
<1>1. s \in Slot
  BY DEF Slot
<1>2. a \in [Task -> [Fd -> Slot]] /\ \A q \in Task, h \in Fd : a[q][h] = IF q = p /\ h = f THEN s ELSE T.fd[q][h]
  <2> HIDE DEF s
  <2> QED BY <1>1, FieldTypes
<1>3. [T.obj[o] EXCEPT !.refs = @ + 1] \in Object
  BY FieldTypes DEF Object
<1>4. b \in [Obj -> Object] /\ \A x \in Obj : b[x] = IF x = o THEN [T.obj[o] EXCEPT !.refs = @ + 1] ELSE T.obj[x]
  BY <1>3, FieldTypes
<1>5. U = [fd |-> a, obj |-> b, pipe |-> T.pipe, wakes |-> T.wakes]
  <2>1. U = [T EXCEPT !.fd[p][f] = s, !.obj[o].refs = @ + 1]
    BY DEF Attach
  <2> HIDE DEF U, s
  <2> QED BY <2>1, FieldTypes DEF Tables
<1> HIDE DEF U, a, b
<1>6. U \in Tables
  BY <1>2, <1>4, <1>5, FieldTypes, TablesFrom
<1>7. U.fd = a /\ U.obj = b /\ U.pipe = T.pipe /\ U.wakes = T.wakes
  BY <1>5
<1> QED
  BY <1>2, <1>4, <1>6, <1>7 DEF U, s

\* One descriptor less.
LEMMA DetachEffect ==
    ASSUME NEW T \in Tables, NEW p \in Task, NEW f \in Fd, NEW o \in Obj, T.fd[p][f].obj = o
    PROVE  LET U == Detach(T, p, f) IN
           /\ U \in Tables /\ U.pipe = T.pipe /\ U.wakes = T.wakes
           /\ \A q \in Task, h \in Fd : U.fd[q][h] = IF q = p /\ h = f THEN NoSlot ELSE T.fd[q][h]
           /\ \A x \in Obj \ {o} : U.obj[x] = T.obj[x]
           /\ U.obj[o].type = T.obj[o].type /\ U.obj[o].pipe = T.obj[o].pipe /\ U.obj[o].end = T.obj[o].end
           /\ U.obj[o].refs = IF T.obj[o].refs = 0 THEN 0 ELSE T.obj[o].refs - 1
<1> DEFINE U == Detach(T, p, f)
           r == IF T.obj[o].refs = 0 THEN 0 ELSE T.obj[o].refs - 1
           x0 == [T.obj[o] EXCEPT !.refs = r]
           a == [T.fd EXCEPT ![p] = [T.fd[p] EXCEPT ![f] = NoSlot]]
           b == [T.obj EXCEPT ![o] = x0]
<1>0. o # None /\ T.obj[o] \in Object
  BY Sizes, FieldTypes
<1>1. NoSlot \in Slot
  BY DEF Slot, NoSlot
<1>2. a \in [Task -> [Fd -> Slot]] /\ \A q \in Task, h \in Fd : a[q][h] = IF q = p /\ h = f THEN NoSlot ELSE T.fd[q][h]
  BY <1>1, FieldTypes
<1>3. /\ x0 \in Object /\ x0.refs = r
      /\ x0.type = T.obj[o].type /\ x0.pipe = T.obj[o].pipe /\ x0.end = T.obj[o].end
  <2>1. r \in Nat
    BY <1>0 DEF Object
  <2> HIDE DEF r
  <2> QED BY <1>0, <2>1 DEF Object
<1>4. b \in [Obj -> Object] /\ \A x \in Obj : b[x] = IF x = o THEN x0 ELSE T.obj[x]
  <2> HIDE DEF x0
  <2> QED BY <1>3, FieldTypes
<1>5. U = [fd |-> a, obj |-> b, pipe |-> T.pipe, wakes |-> T.wakes]
  <2>1. U = [T EXCEPT !.fd[p][f] = NoSlot, !.obj[o].refs = r]
    BY <1>0 DEF Detach
  <2> HIDE DEF U, r
  <2> QED BY <2>1, FieldTypes DEF Tables
<1> HIDE DEF U, a, b
<1>6. U \in Tables
  BY <1>2, <1>4, <1>5, FieldTypes, TablesFrom
<1>7. U.fd = a /\ U.obj = b /\ U.pipe = T.pipe /\ U.wakes = T.wakes
  BY <1>5
<1> HIDE DEF x0
<1> QED
  BY <1>2, <1>3, <1>4, <1>6, <1>7 DEF U

LEMMA SameObject ==
    ASSUME NEW x \in Object, NEW y \in Object,
           x.type = y.type, x.refs = y.refs, x.pipe = y.pipe, x.end = y.end
    PROVE  x = y
  BY DEF Object

LEMMA FreeOpenEffect ==
    ASSUME NEW T \in Tables, NEW o \in Obj
    PROVE  LET U == FreeOpen(T, o) IN
           /\ U \in Tables /\ U.fd = T.fd /\ U.pipe = T.pipe /\ U.wakes = T.wakes
           /\ \A x \in Obj :
                 U.obj[x] = IF x = o THEN [T.obj[o] EXCEPT !.type = "NONE", !.refs = 0] ELSE T.obj[x]
<1> DEFINE U == FreeOpen(T, o)
           x0 == [T.obj[o] EXCEPT !.type = "NONE", !.refs = 0]
           b == [T.obj EXCEPT ![o] = x0]
<1>1. x0 \in Object
  <2>1. T.obj[o] \in Object
    BY FieldTypes
  <2> QED BY <2>1 DEF Object
<1>2. U = [fd |-> T.fd, obj |-> b, pipe |-> T.pipe, wakes |-> T.wakes]
  <2>1. U = [T EXCEPT !.obj[o].type = "NONE", !.obj[o].refs = 0]
    BY DEF FreeOpen
  <2> HIDE DEF U
  <2> QED BY <2>1, FieldTypes DEF Tables
<1>3. b \in [Obj -> Object] /\ \A x \in Obj : b[x] = IF x = o THEN x0 ELSE T.obj[x]
  <2> HIDE DEF x0
  <2> QED BY <1>1, FieldTypes
<1> HIDE DEF U, b
<1>4. U \in Tables
  BY <1>2, <1>3, FieldTypes, TablesFrom
<1>5. U.fd = T.fd /\ U.obj = b /\ U.pipe = T.pipe /\ U.wakes = T.wakes
  BY <1>2
<1> QED
  BY <1>3, <1>4, <1>5 DEF U

\* The ring of a pipe that keeps the ends in left.
Reduced(r, left) ==
    IF left = {} THEN [r EXCEPT !.ends = {}, !.head = 0, !.tail = 0, !.count = 0]
    ELSE [r EXCEPT !.ends = left]

LEMMA ReducedType ==
    ASSUME NEW r \in Ring, NEW left \in SUBSET End
    PROVE  /\ Reduced(r, left) \in Ring /\ Reduced(r, left).ends = left
           /\ Reduced(r, left).buf = r.buf
           /\ left = {} => Reduced(r, left).head = 0 /\ Reduced(r, left).tail = 0 /\ Reduced(r, left).count = 0
           /\ left # {} => /\ Reduced(r, left).head = r.head /\ Reduced(r, left).tail = r.tail
                           /\ Reduced(r, left).count = r.count
<1>1. 0 \in Index /\ 0 \in 0 .. PipeBufSize
  BY Sizes DEF Index
<1> QED
  BY <1>1 DEF Reduced, Ring

LEMMA CloseEndEffect ==
    ASSUME NEW T \in Tables, NEW o \in Obj, T.obj[o].pipe # None
    PROVE  LET U == CloseEnd(T, o)
               k == T.obj[o].pipe IN
           /\ k \in Pipe
           /\ U \in Tables /\ U.fd = T.fd
           /\ \A x \in Obj :
                 U.obj[x] = IF x = o THEN [T.obj[o] EXCEPT !.pipe = None, !.end = "-"] ELSE T.obj[x]
           /\ \A j \in Pipe :
                 U.pipe[j] = IF j = k THEN Reduced(T.pipe[k], T.pipe[k].ends \ {T.obj[o].end}) ELSE T.pipe[j]
<1> DEFINE U == CloseEnd(T, o)
           k == T.obj[o].pipe
           e == T.obj[o].end
           left == T.pipe[k].ends \ {e}
           wake == [reason |-> IF e = "R" THEN "PIPE_WRITE" ELSE "PIPE_READ", pipe |-> k, all |-> TRUE]
           x0 == [T.obj[o] EXCEPT !.pipe = None, !.end = "-"]
           b == [T.obj EXCEPT ![o] = x0]
           c == [T.pipe EXCEPT ![k] = Reduced(T.pipe[k], left)]
           w == T.wakes \cup (IF e \in T.pipe[k].ends THEN {wake} ELSE {})
<1>0. k \in Pipe
  BY FieldTypes DEF Object
<1>1. x0 \in Object
  <2>1. T.obj[o] \in Object
    BY FieldTypes
  <2> QED BY <2>1 DEF Object
<1>2. T.pipe[k] \in Ring /\ left \in SUBSET End
  BY <1>0, FieldTypes DEF Ring
<1>3. w \in SUBSET WakeReq
  <2> DEFINE r == IF e = "R" THEN "PIPE_WRITE" ELSE "PIPE_READ"
  <2>1. r \in {"PIPE_READ", "PIPE_WRITE"} /\ wake = [reason |-> r, pipe |-> k, all |-> TRUE]
    OBVIOUS
  <2> HIDE DEF r, k
  <2>2. wake \in WakeReq
    BY <1>0, <2>1 DEF WakeReq
  <2> HIDE DEF wake
  <2> QED BY <2>2, FieldTypes
<1>4. c \in [Pipe -> Ring] /\ \A j \in Pipe : c[j] = IF j = k THEN Reduced(T.pipe[k], left) ELSE T.pipe[j]
  <2> HIDE DEF left, k
  <2>1. Reduced(T.pipe[k], left) \in Ring
    BY <1>2, ReducedType
  <2> QED BY <1>0, <2>1, FieldTypes
<1>5. b \in [Obj -> Object] /\ \A x \in Obj : b[x] = IF x = o THEN x0 ELSE T.obj[x]
  <2> HIDE DEF x0
  <2> QED BY <1>1, FieldTypes
<1>6. U = [fd |-> T.fd, obj |-> b, pipe |-> c, wakes |-> w]
  <2>1. U = [T EXCEPT !.obj[o].pipe = None, !.obj[o].end = "-",
                      !.pipe[k] = Reduced(T.pipe[k], left), !.wakes = w]
    BY DEF CloseEnd, Reduced
  <2> HIDE DEF U, w, left, k
  <2> QED BY <2>1, FieldTypes DEF Tables
<1> HIDE DEF U, b, c, w
<1>7. U \in Tables
  BY <1>3, <1>4, <1>5, <1>6, FieldTypes, TablesFrom
<1>8. U.fd = T.fd /\ U.obj = b /\ U.pipe = c
  BY <1>6
<1> QED
  BY <1>0, <1>4, <1>5, <1>7, <1>8 DEF U

\* An endpoint whose end is closed and which is then freed.
LEMMA DisposeEffect ==
    ASSUME NEW T \in Tables, NEW o \in Obj, T.obj[o].pipe # None
    PROVE  LET U == FreeOpen(CloseEnd(T, o), o)
               k == T.obj[o].pipe IN
           /\ k \in Pipe
           /\ U \in Tables /\ U.fd = T.fd
           /\ \A x \in Obj : U.obj[x] = IF x = o THEN NoObj ELSE T.obj[x]
           /\ \A j \in Pipe :
                 U.pipe[j] = IF j = k THEN Reduced(T.pipe[k], T.pipe[k].ends \ {T.obj[o].end}) ELSE T.pipe[j]
<1> DEFINE V == CloseEnd(T, o)
           U == FreeOpen(V, o)
           k == T.obj[o].pipe
<1>1. /\ k \in Pipe /\ V \in Tables /\ V.fd = T.fd
      /\ \A x \in Obj :
            V.obj[x] = IF x = o THEN [T.obj[o] EXCEPT !.pipe = None, !.end = "-"] ELSE T.obj[x]
      /\ \A j \in Pipe :
            V.pipe[j] = IF j = k THEN Reduced(T.pipe[k], T.pipe[k].ends \ {T.obj[o].end}) ELSE T.pipe[j]
  BY CloseEndEffect
<1> HIDE DEF V
<1>2. /\ U \in Tables /\ U.fd = V.fd /\ U.pipe = V.pipe
      /\ \A x \in Obj :
            U.obj[x] = IF x = o THEN [V.obj[o] EXCEPT !.type = "NONE", !.refs = 0] ELSE V.obj[x]
  BY <1>1, FreeOpenEffect
<1>3. T.obj[o] \in Object
  BY FieldTypes
<1>4. U.obj[o] = NoObj
  <2>1. V.obj[o] = [T.obj[o] EXCEPT !.pipe = None, !.end = "-"] /\ V.obj[o] \in Object
    BY <1>1, FieldTypes
  <2>2. V.obj[o].pipe = None /\ V.obj[o].end = "-"
    BY <1>3, <2>1 DEF Object
  <2>3. U.obj[o] = [V.obj[o] EXCEPT !.type = "NONE", !.refs = 0] /\ U.obj[o] \in Object
    BY <1>2, FieldTypes
  <2> HIDE DEF U
  <2>4. U.obj[o].type = "NONE" /\ U.obj[o].refs = 0 /\ U.obj[o].pipe = None /\ U.obj[o].end = "-"
    BY <2>1, <2>2, <2>3 DEF Object
  <2>5. NoObj \in Object
    BY DEF NoObj, Object
  <2> QED BY <2>3, <2>4, <2>5, SameObject DEF NoObj
<1> QED
  BY <1>1, <1>2, <1>4 DEF V

(***************************************************************************)
(* Reference counts are cardinalities.                                     *)
(***************************************************************************)
LEMMA RefsFinite ==
    ASSUME NEW T, NEW o
    PROVE  IsFiniteSet(RefsTo(T, o)) /\ Cardinality(RefsTo(T, o)) \in Nat
<1>1. IsFiniteSet(Task) /\ IsFiniteSet(Fd)
  BY FS_Interval, MaxProcsAssumption, DescriptorsAssumption DEF Task, Fd
<1>2. IsFiniteSet(Task \X Fd)
  BY <1>1, FS_Product
<1>3. RefsTo(T, o) \subseteq Task \X Fd
  BY DEF RefsTo
<1> QED
  BY <1>2, <1>3, FS_Subset, FS_CardinalityType

\* From T to U only descriptor f of p changes, and comes to refer to o.
Gains(T, U, p, f, o) ==
    /\ T.fd[p][f].obj # o /\ U.fd[p][f].obj = o
    /\ \A q \in Task, h \in Fd : q # p \/ h # f => U.fd[q][h] = T.fd[q][h]

LEMMA OneMore ==
    ASSUME NEW T, NEW U, NEW p \in Task, NEW f \in Fd, NEW o, Gains(T, U, p, f, o)
    PROVE  Cardinality(RefsTo(U, o)) = Cardinality(RefsTo(T, o)) + 1
<1>1. <<p, f>> \notin RefsTo(T, o)
  BY DEF RefsTo, Gains
<1>2. RefsTo(U, o) = RefsTo(T, o) \cup {<<p, f>>}
  BY DEF RefsTo, Gains
<1> DEFINE S == RefsTo(T, o)
           d == <<p, f>>
<1>3. IsFiniteSet(S) /\ d \notin S
  BY <1>1, RefsFinite
<1>4. Cardinality(S \cup {d}) = Cardinality(S) + 1
  <2> HIDE DEF S, d
  <2> QED BY <1>3, FS_AddElement
<1> QED
  BY <1>2, <1>4

LEMMA AsMany ==
    ASSUME NEW T, NEW U, NEW o,
           \A q \in Task, h \in Fd : (U.fd[q][h].obj = o) <=> (T.fd[q][h].obj = o)
    PROVE  RefsTo(U, o) = RefsTo(T, o)
  BY DEF RefsTo

LEMMA NoneLeft ==
    ASSUME NEW T, NEW o, Cardinality(RefsTo(T, o)) = 0, NEW p \in Task, NEW f \in Fd
    PROVE  T.fd[p][f].obj # o
<1>1. RefsTo(T, o) = {}
  BY RefsFinite, FS_EmptySet
<1>2. ASSUME T.fd[p][f].obj = o PROVE <<p, f>> \in RefsTo(T, o)
  BY <1>2 DEF RefsTo
<1> QED
  BY <1>1, <1>2

(***************************************************************************)
(* What a step on the descriptors of x leaves alone: the descriptors of    *)
(* everybody else and what they stand for.                                 *)
(***************************************************************************)
SameEnd(T, U, o) ==
    U.obj[o].type = T.obj[o].type /\ U.obj[o].pipe = T.obj[o].pipe /\ U.obj[o].end = T.obj[o].end

Spares(T, U, x) ==
    \A q \in Task \ {x}, f \in Fd :
       U.fd[q][f] = T.fd[q][f] /\ (IsOpen(T, q, f) => SameEnd(T, U, T.fd[q][f].obj))

\* Pipes lose ends, and their contents only with the last end.
Shrinks(T, U) ==
    \A k \in Pipe :
       /\ U.pipe[k].ends \subseteq T.pipe[k].ends
       /\ U.pipe[k].ends # {} => /\ U.pipe[k].tail = T.pipe[k].tail
                                 /\ U.pipe[k].count = T.pipe[k].count
                                 /\ U.pipe[k].buf = T.pipe[k].buf

LEMMA SparesTransitive ==
    ASSUME NEW T, NEW U, NEW V, NEW x, Spares(T, U, x), Spares(U, V, x)
    PROVE  Spares(T, V, x)
<1> SUFFICES ASSUME NEW q \in Task \ {x}, NEW f \in Fd
             PROVE  V.fd[q][f] = T.fd[q][f] /\ (T.fd[q][f].obj # None => SameEnd(T, V, T.fd[q][f].obj))
  BY DEF Spares, IsOpen
<1>1. U.fd[q][f] = T.fd[q][f] /\ V.fd[q][f] = U.fd[q][f]
  BY DEF Spares
<1>2. ASSUME T.fd[q][f].obj # None
      PROVE  SameEnd(T, U, T.fd[q][f].obj) /\ SameEnd(U, V, T.fd[q][f].obj)
  BY <1>1, <1>2 DEF Spares, IsOpen
<1> QED
  BY <1>1, <1>2 DEF SameEnd

LEMMA ShrinksTransitive ==
    ASSUME NEW T, NEW U, NEW V, Shrinks(T, U), Shrinks(U, V)
    PROVE  Shrinks(T, V)
<1> SUFFICES ASSUME NEW k \in Pipe
             PROVE  /\ V.pipe[k].ends \subseteq T.pipe[k].ends
                    /\ V.pipe[k].ends # {} => /\ V.pipe[k].tail = T.pipe[k].tail
                                              /\ V.pipe[k].count = T.pipe[k].count
                                              /\ V.pipe[k].buf = T.pipe[k].buf
  BY DEF Shrinks
<1>1. V.pipe[k].ends # {} => U.pipe[k].ends # {}
  BY DEF Shrinks
<1> QED
  BY <1>1 DEF Shrinks

\* A descriptor with flags fl may refer to o.
Fits(T, o, fl) ==
    /\ fl \in SUBSET End
    /\ T.obj[o].type # "NONE" /\ (T.obj[o].type = "PIPE" => fl = {T.obj[o].end})

LEMMA AttachKeeps ==
    ASSUME NEW T, InOrder(T), NEW p \in Task, NEW f \in Fd, NEW o \in Obj, NEW fl,
           ~IsOpen(T, p, f), Fits(T, o, fl)
    PROVE  LET U == Attach(T, p, f, o, fl) IN
           /\ InOrder(U) /\ U.pipe = T.pipe /\ Spares(T, U, p)
           /\ \A x \in Obj : SameEnd(T, U, x)
           /\ U.fd[p][f].obj = o /\ U.fd[p][f].flags = fl
           /\ \A q \in Task, h \in Fd : q # p \/ h # f => U.fd[q][h] = T.fd[q][h]
<1> DEFINE U == Attach(T, p, f, o, fl)
<1>0. T \in Tables
  BY DEF InOrder
<1>1. /\ U \in Tables /\ U.pipe = T.pipe /\ U.wakes = T.wakes
      /\ \A q \in Task, h \in Fd :
            U.fd[q][h] = IF q = p /\ h = f THEN [obj |-> o, flags |-> fl] ELSE T.fd[q][h]
      /\ \A x \in Obj : U.obj[x] = IF x = o THEN [T.obj[o] EXCEPT !.refs = @ + 1] ELSE T.obj[x]
  BY <1>0, AttachEffect DEF Fits
<1> HIDE DEF U
<1>2. T.obj \in [Obj -> Object] /\ T.fd \in [Task -> [Fd -> Slot]]
  BY <1>0, FieldTypes
<1>3. /\ \A x \in Obj : SameEnd(T, U, x)
      /\ U.obj[o].refs = T.obj[o].refs + 1 /\ \A x \in Obj \ {o} : U.obj[x].refs = T.obj[x].refs
  BY <1>1, <1>2 DEF SameEnd, Object
<1>4. U.fd[p][f].obj = o /\ U.fd[p][f].flags = fl
  BY <1>1
<1>5. \A q \in Task, h \in Fd : q # p \/ h # f => U.fd[q][h] = T.fd[q][h]
  BY <1>1
<1>6. T.fd[p][f].obj = None /\ None \notin Obj
  BY Sizes DEF IsOpen
<1>7. Counted(U)
  <2>1. U.obj[o].refs = Cardinality(RefsTo(U, o))
    <3>1. Cardinality(RefsTo(U, o)) = Cardinality(RefsTo(T, o)) + 1
      <4>1. Gains(T, U, p, f, o)
        BY <1>4, <1>5, <1>6 DEF Gains
      <4> QED BY <4>1, OneMore
    <3> QED BY <1>3, <3>1 DEF InOrder, Counted
  <2>2. ASSUME NEW x \in Obj, x # o PROVE U.obj[x].refs = Cardinality(RefsTo(U, x))
    <3>1. RefsTo(U, x) = RefsTo(T, x)
      BY <1>4, <1>5, <1>6, <2>2, AsMany
    <3> QED BY <1>3, <2>2, <3>1 DEF InOrder, Counted
  <2> QED BY <2>1, <2>2 DEF Counted
<1>8. Endpoints(U) /\ EndsApart(U) /\ Rings(U)
  BY <1>1, <1>3 DEF InOrder, Endpoints, EndsApart, Rings, SameEnd
<1>9. SlotsInUse(U)
  <2> SUFFICES ASSUME NEW q \in Task, NEW h \in Fd, U.fd[q][h].obj # None
               PROVE  /\ U.obj[U.fd[q][h].obj].type # "NONE"
                      /\ U.obj[U.fd[q][h].obj].type = "PIPE" =>
                            U.fd[q][h].flags = {U.obj[U.fd[q][h].obj].end}
    BY DEF SlotsInUse, IsOpen
  <2>1. CASE q = p /\ h = f
    BY <1>3, <1>4, <2>1 DEF SameEnd, Fits
  <2>2. CASE q # p \/ h # f
    <3>1. U.fd[q][h] = T.fd[q][h] /\ T.fd[q][h].obj \in Obj
      BY <1>2, <1>5, <2>2 DEF Slot
    <3> QED BY <1>3, <3>1 DEF SameEnd, InOrder, SlotsInUse, IsOpen
  <2> QED BY <2>1, <2>2
<1>10. Spares(T, U, p)
  <2> SUFFICES ASSUME NEW q \in Task \ {p}, NEW h \in Fd
               PROVE  U.fd[q][h] = T.fd[q][h] /\ (T.fd[q][h].obj # None => SameEnd(T, U, T.fd[q][h].obj))
    BY DEF Spares, IsOpen
  <2>1. T.fd[q][h].obj \in Obj \cup {None}
    BY <1>2 DEF Slot
  <2> QED BY <1>3, <1>5, <2>1
<1> QED
  BY <1>1, <1>3, <1>4, <1>5, <1>7, <1>8, <1>9, <1>10 DEF InOrder, U

LEMMA DetachKeeps ==
    ASSUME NEW T, InOrder(T), NEW p \in Task, NEW f \in Fd, NEW o \in Obj, T.fd[p][f].obj = o
    PROVE  LET U == Detach(T, p, f) IN
           /\ InOrder(U) /\ U.pipe = T.pipe /\ Spares(T, U, p)
           /\ \A x \in Obj : SameEnd(T, U, x)
           /\ U.obj[o].refs = T.obj[o].refs - 1
           /\ \A q \in Task, h \in Fd : U.fd[q][h] = IF q = p /\ h = f THEN NoSlot ELSE T.fd[q][h]
<1> DEFINE U == Detach(T, p, f)
<1>0. T \in Tables
  BY DEF InOrder
<1>1. /\ U \in Tables /\ U.pipe = T.pipe /\ U.wakes = T.wakes
      /\ \A q \in Task, h \in Fd : U.fd[q][h] = IF q = p /\ h = f THEN NoSlot ELSE T.fd[q][h]
      /\ \A x \in Obj \ {o} : U.obj[x] = T.obj[x]
      /\ U.obj[o].type = T.obj[o].type /\ U.obj[o].pipe = T.obj[o].pipe /\ U.obj[o].end = T.obj[o].end
      /\ U.obj[o].refs = IF T.obj[o].refs = 0 THEN 0 ELSE T.obj[o].refs - 1
  BY <1>0, DetachEffect
<1>2. T.obj \in [Obj -> Object] /\ T.fd \in [Task -> [Fd -> Slot]]
  BY <1>0, FieldTypes
<1> HIDE DEF U
<1>4. /\ \A x \in Obj : SameEnd(T, U, x)
      /\ U.obj[o].refs = IF T.obj[o].refs = 0 THEN 0 ELSE T.obj[o].refs - 1
      /\ \A x \in Obj \ {o} : U.obj[x].refs = T.obj[x].refs
  BY <1>1 DEF SameEnd
<1>5. U.fd[p][f] = NoSlot /\ U.fd[p][f].obj = None /\ None \notin Obj
  <2>1. U.fd[p][f] = NoSlot
    BY <1>1
  <2>2. NoSlot.obj = None
    BY DEF NoSlot
  <2> QED BY <2>1, <2>2, Sizes
<1>6. \A q \in Task, h \in Fd : q # p \/ h # f => U.fd[q][h] = T.fd[q][h]
  BY <1>1
<1>7. T.obj[o].refs = Cardinality(RefsTo(U, o)) + 1
  <2>1. Gains(U, T, p, f, o)
    BY <1>5, <1>6 DEF Gains
  <2>2. Cardinality(RefsTo(T, o)) = Cardinality(RefsTo(U, o)) + 1
    BY <2>1, OneMore
  <2> QED BY <2>2 DEF InOrder, Counted
<1>8. U.obj[o].refs = Cardinality(RefsTo(U, o)) /\ U.obj[o].refs = T.obj[o].refs - 1
  <2>1. Cardinality(RefsTo(U, o)) \in Nat
    BY RefsFinite
  <2> QED BY <1>4, <1>7, <2>1
<1>9. Counted(U)
  <2>1. ASSUME NEW x \in Obj, x # o PROVE U.obj[x].refs = Cardinality(RefsTo(U, x))
    <3>1. RefsTo(U, x) = RefsTo(T, x)
      BY <1>5, <1>6, <2>1, AsMany
    <3> QED BY <1>4, <2>1, <3>1 DEF InOrder, Counted
  <2> QED BY <1>8, <2>1 DEF Counted
<1>10. Endpoints(U) /\ EndsApart(U) /\ Rings(U)
  BY <1>1, <1>4 DEF InOrder, Endpoints, EndsApart, Rings, SameEnd
<1>11. SlotsInUse(U) /\ Spares(T, U, p)
  <2>1. ASSUME NEW q \in Task, NEW h \in Fd
        PROVE  T.fd[q][h].obj \in Obj \cup {None}
    BY <1>2 DEF Slot
  <2>2. SlotsInUse(U)
    <3> SUFFICES ASSUME NEW q \in Task, NEW h \in Fd, U.fd[q][h].obj # None
                 PROVE  /\ U.obj[U.fd[q][h].obj].type # "NONE"
                        /\ U.obj[U.fd[q][h].obj].type = "PIPE" =>
                              U.fd[q][h].flags = {U.obj[U.fd[q][h].obj].end}
      BY DEF SlotsInUse, IsOpen
    <3>1. U.fd[q][h] = T.fd[q][h] /\ T.fd[q][h].obj \in Obj
      BY <1>5, <1>6, <2>1
    <3> QED BY <1>4, <3>1 DEF SameEnd, InOrder, SlotsInUse, IsOpen
  <2>3. Spares(T, U, p)
    BY <1>4, <1>6, <2>1 DEF Spares, IsOpen
  <2> QED BY <2>2, <2>3
<1> QED
  BY <1>1, <1>4, <1>8, <1>9, <1>10, <1>11 DEF InOrder, U

LEMMA Wraps ==
    ASSUME NEW a \in Index, NEW m \in 0 .. PipeBufSize
    PROVE  /\ Advance(a, m) \in Index
           /\ Advance(a, m) = IF a + m < PipeBufSize THEN a + m ELSE a + m - PipeBufSize
  BY Sizes, SMTT(60) DEF Advance, Index

\* Closing the end of an endpoint nobody refers to, and freeing it.
LEMMA DisposeKeeps ==
    ASSUME NEW T, InOrder(T), NEW o \in Obj, T.obj[o].type = "PIPE", T.obj[o].refs = 0
    PROVE  LET U == FreeOpen(CloseEnd(T, o), o) IN
           /\ InOrder(U) /\ U.fd = T.fd /\ Shrinks(T, U) /\ (\A x \in Task : Spares(T, U, x))
           /\ U.pipe[T.obj[o].pipe].ends = T.pipe[T.obj[o].pipe].ends \ {T.obj[o].end}
           /\ \A j \in Pipe : j # T.obj[o].pipe => U.pipe[j] = T.pipe[j]
           /\ \A x \in Obj : x # o => U.obj[x] = T.obj[x]
<1> DEFINE U == FreeOpen(CloseEnd(T, o), o)
           k == T.obj[o].pipe
           e == T.obj[o].end
           left == T.pipe[k].ends \ {e}
<1>0. T \in Tables /\ k # None /\ e \in T.pipe[k].ends
  BY DEF InOrder, Endpoints
<1>1. /\ k \in Pipe /\ U \in Tables /\ U.fd = T.fd
      /\ \A x \in Obj : U.obj[x] = IF x = o THEN NoObj ELSE T.obj[x]
      /\ \A j \in Pipe : U.pipe[j] = IF j = k THEN Reduced(T.pipe[k], left) ELSE T.pipe[j]
  BY <1>0, DisposeEffect
<1>2. /\ T.obj \in [Obj -> Object] /\ T.fd \in [Task -> [Fd -> Slot]] /\ T.pipe \in [Pipe -> Ring]
      /\ T.pipe[k] \in Ring /\ left \in SUBSET End
  BY <1>0, <1>1, FieldTypes DEF Ring
<1> HIDE DEF U
<1>3. /\ U.pipe[k].ends = left /\ U.pipe[k].buf = T.pipe[k].buf
      /\ left = {} => U.pipe[k].head = 0 /\ U.pipe[k].tail = 0 /\ U.pipe[k].count = 0
      /\ left # {} => /\ U.pipe[k].head = T.pipe[k].head /\ U.pipe[k].tail = T.pipe[k].tail
                      /\ U.pipe[k].count = T.pipe[k].count
  <2> HIDE DEF left, k
  <2> QED BY <1>1, <1>2, ReducedType
<1>4. \A q \in Task, h \in Fd : T.fd[q][h].obj # o
  BY NoneLeft DEF InOrder, Counted
<1>5. /\ \A x \in Obj \ {o} : U.obj[x] = T.obj[x]
      /\ U.obj[o].type = "NONE" /\ U.obj[o].refs = 0 /\ U.obj[o].pipe = None /\ U.obj[o].end = "-"
  BY <1>1 DEF NoObj
<1>6. Counted(U)
  <2>1. ASSUME NEW x \in Obj PROVE RefsTo(U, x) = RefsTo(T, x)
    BY <1>1 DEF RefsTo
  <2> QED BY <1>5, <2>1 DEF InOrder, Counted
<1>7. \A j \in Pipe \ {k} : U.pipe[j] = T.pipe[j]
  BY <1>1
<1>8. Endpoints(U) /\ EndsApart(U)
  <2>1. ASSUME NEW x \in Obj, x # o, T.obj[x].type = "PIPE"
        PROVE  U.obj[x].pipe # None /\ U.obj[x].end \in U.pipe[U.obj[x].pipe].ends
    <3>1. T.obj[x].pipe # k \/ T.obj[x].end # e
      BY <2>1 DEF InOrder, EndsApart
    <3>2. T.obj[x].pipe \in Pipe /\ T.obj[x].pipe # None /\ T.obj[x].end \in T.pipe[T.obj[x].pipe].ends
      BY <1>2, <2>1 DEF Object, InOrder, Endpoints
    <3>3. CASE T.obj[x].pipe = k
      BY <1>3, <1>5, <2>1, <3>1, <3>2, <3>3
    <3>4. CASE T.obj[x].pipe # k
      BY <1>5, <1>7, <2>1, <3>2, <3>4
    <3> QED BY <3>3, <3>4
  <2>2. Endpoints(U)
    BY <1>5, <2>1 DEF InOrder, Endpoints
  <2>3. EndsApart(U)
    <3> SUFFICES ASSUME NEW x \in Obj, NEW q \in Obj, U.obj[x].type = "PIPE", q # x
                 PROVE  U.obj[q].pipe # U.obj[x].pipe \/ U.obj[q].end # U.obj[x].end
      BY DEF EndsApart
    <3>1. x # o /\ U.obj[x] = T.obj[x]
      BY <1>5
    <3>2. CASE q = o
      BY <1>5, <2>1, <3>1, <3>2
    <3>3. CASE q # o
      BY <1>5, <3>1, <3>3 DEF InOrder, EndsApart
    <3> QED BY <3>2, <3>3
  <2> QED BY <2>2, <2>3
<1>9. SlotsInUse(U)
  <2> SUFFICES ASSUME NEW q \in Task, NEW h \in Fd, T.fd[q][h].obj # None
               PROVE  /\ U.obj[T.fd[q][h].obj].type # "NONE"
                      /\ U.obj[T.fd[q][h].obj].type = "PIPE" =>
                            T.fd[q][h].flags = {U.obj[T.fd[q][h].obj].end}
    BY <1>1 DEF SlotsInUse, IsOpen
  <2>1. T.fd[q][h].obj \in Obj \ {o}
    BY <1>2, <1>4 DEF Slot
  <2>2. U.obj[T.fd[q][h].obj] = T.obj[T.fd[q][h].obj]
    BY <1>5, <2>1
  <2> QED BY <2>2 DEF InOrder, SlotsInUse, IsOpen
<1>10. Rings(U)
  <2>1. ASSUME NEW j \in Pipe, j # k
        PROVE  U.pipe[j].head = Advance(U.pipe[j].tail, U.pipe[j].count) /\ (U.pipe[j].ends = {} => U.pipe[j].count = 0)
    BY <1>7, <2>1 DEF InOrder, Rings
  <2>2. U.pipe[k].head = Advance(U.pipe[k].tail, U.pipe[k].count) /\ (U.pipe[k].ends = {} => U.pipe[k].count = 0)
    <3>1. CASE left = {}
      <4>1. Advance(0, 0) = 0
        BY Sizes, Wraps DEF Index
      <4> QED BY <1>3, <3>1, <4>1
    <3>2. CASE left # {}
      BY <1>1, <1>3, <3>2 DEF InOrder, Rings
    <3> QED BY <3>1, <3>2
  <2> QED BY <2>1, <2>2 DEF Rings
<1>11. Shrinks(T, U)
  BY <1>1, <1>3, <1>7 DEF Shrinks
<1>12. ASSUME NEW x \in Task PROVE Spares(T, U, x)
  <2>1. ASSUME NEW q \in Task, NEW h \in Fd
        PROVE  T.fd[q][h].obj # None => T.fd[q][h].obj \in Obj \ {o}
    BY <1>2, <1>4 DEF Slot
  <2> QED BY <1>1, <1>5, <2>1 DEF Spares, SameEnd, IsOpen
<1> QED
  BY <1>1, <1>3, <1>5, <1>6, <1>7, <1>8, <1>9, <1>10, <1>11, <1>12 DEF InOrder, U

\* Freeing an object that is no endpoint and to which nobody refers.
LEMMA FreeKeeps ==
    ASSUME NEW T, InOrder(T), NEW o \in Obj, T.obj[o].type # "PIPE", T.obj[o].refs = 0
    PROVE  LET U == FreeOpen(T, o) IN
           InOrder(U) /\ U.fd = T.fd /\ U.pipe = T.pipe /\ \A x \in Task : Spares(T, U, x)
<1> DEFINE U == FreeOpen(T, o)
           x0 == [T.obj[o] EXCEPT !.type = "NONE", !.refs = 0]
<1>0. T \in Tables
  BY DEF InOrder
<1>1. /\ U \in Tables /\ U.fd = T.fd /\ U.pipe = T.pipe
      /\ \A x \in Obj : U.obj[x] = IF x = o THEN x0 ELSE T.obj[x]
  BY <1>0, FreeOpenEffect
<1>2. /\ T.obj \in [Obj -> Object] /\ T.fd \in [Task -> [Fd -> Slot]] /\ T.obj[o] \in Object
  BY <1>0, FieldTypes
<1>3. x0.type = "NONE" /\ x0.refs = 0 /\ x0.pipe = None /\ x0.end = "-"
  BY <1>2 DEF Object, InOrder, Endpoints
<1> HIDE DEF U, x0
<1>4. \A q \in Task, h \in Fd : T.fd[q][h].obj # o
  BY NoneLeft DEF InOrder, Counted
<1>5. /\ \A x \in Obj \ {o} : U.obj[x] = T.obj[x]
      /\ U.obj[o].type = "NONE" /\ U.obj[o].refs = 0 /\ U.obj[o].pipe = None /\ U.obj[o].end = "-"
  BY <1>1, <1>3
<1>6. Counted(U)
  <2>1. ASSUME NEW x \in Obj PROVE RefsTo(U, x) = RefsTo(T, x)
    BY <1>1 DEF RefsTo
  <2> QED BY <1>5, <2>1 DEF InOrder, Counted
<1>7. Endpoints(U) /\ Rings(U)
  BY <1>1, <1>5 DEF InOrder, Endpoints, Rings
<1>8. EndsApart(U)
  <2> SUFFICES ASSUME NEW x \in Obj, NEW q \in Obj, U.obj[x].type = "PIPE", q # x
               PROVE  U.obj[q].pipe # U.obj[x].pipe \/ U.obj[q].end # U.obj[x].end
    BY DEF EndsApart
  <2>1. x # o /\ U.obj[x] = T.obj[x]
    BY <1>5
  <2>2. CASE q = o
    BY <1>5, <1>7, <2>2 DEF Endpoints
  <2>3. CASE q # o
    BY <1>5, <2>1, <2>3 DEF InOrder, EndsApart
  <2> QED BY <2>2, <2>3
<1>9. ASSUME NEW q \in Task, NEW h \in Fd, T.fd[q][h].obj # None
      PROVE  U.obj[T.fd[q][h].obj] = T.obj[T.fd[q][h].obj]
  <2>1. T.fd[q][h].obj \in Obj \ {o}
    BY <1>2, <1>4, <1>9 DEF Slot
  <2> QED BY <1>5, <2>1
<1>10. SlotsInUse(U)
  BY <1>1, <1>9 DEF InOrder, SlotsInUse, IsOpen
<1>11. ASSUME NEW x \in Task PROVE Spares(T, U, x)
  BY <1>1, <1>9 DEF Spares, SameEnd, IsOpen
<1> QED
  BY <1>1, <1>6, <1>7, <1>8, <1>10, <1>11 DEF InOrder, U

LEMMA SamePipes ==
    ASSUME NEW T, NEW U, U.pipe = T.pipe PROVE Shrinks(T, U)
  BY DEF Shrinks

LEMMA ClosePidKeeps ==
    ASSUME NEW T, InOrder(T), NEW p \in Task, NEW f \in Fd
    PROVE  LET U == ClosePid(T, p, f) IN
           /\ InOrder(U) /\ Spares(T, U, p) /\ Shrinks(T, U)
           /\ ~IsOpen(U, p, f)
           /\ \A h \in Fd \ {f} : U.fd[p][h] = T.fd[p][h]
<1> DEFINE U == ClosePid(T, p, f)
           D == Detach(T, p, f)
           o == T.fd[p][f].obj
<1>1. T \in Tables /\ o \in Obj \cup {None}
  BY FieldTypes DEF InOrder, Slot
<1>2. CASE o = None
  <2>1. U = T
    BY <1>2 DEF ClosePid, Detach
  <2> QED BY <1>2, <2>1, SamePipes DEF Spares, SameEnd, IsOpen
<1>3. CASE o # None
  <2>1. o \in Obj
    BY <1>1, <1>3
  <2>2. PICK oo \in Obj : oo = T.fd[p][f].obj
    BY <2>1
  <2>3. /\ InOrder(D) /\ D.pipe = T.pipe /\ Spares(T, D, p)
        /\ \A x \in Obj : SameEnd(T, D, x)
        /\ D.obj[oo].refs = T.obj[oo].refs - 1
        /\ \A q \in Task, h \in Fd : D.fd[q][h] = IF q = p /\ h = f THEN NoSlot ELSE T.fd[q][h]
    BY <2>2, DetachKeeps
  <2>4. Shrinks(T, D)
    BY <2>3, SamePipes
  <2>5. D.fd[p][f].obj = None /\ \A h \in Fd \ {f} : D.fd[p][h] = T.fd[p][h]
    BY <2>3 DEF NoSlot
  <2>6. CASE T.obj[oo].refs # 1 \/ T.obj[oo].type = "DEVICE"
    <3>1. U = D
      BY <2>2, <2>6 DEF ClosePid
    <3> QED BY <2>3, <2>4, <2>5, <3>1 DEF IsOpen
  <2>7. CASE T.obj[oo].refs = 1 /\ T.obj[oo].type = "PIPE"
    <3>1. U = FreeOpen(CloseEnd(D, oo), oo)
      BY <1>3, <2>2, <2>7 DEF ClosePid
    <3>2. D.obj[oo].type = "PIPE" /\ D.obj[oo].refs = 0
      BY <2>3, <2>7 DEF SameEnd
    <3> HIDE DEF U, D
    <3>3. InOrder(U) /\ U.fd = D.fd /\ Shrinks(D, U) /\ Spares(D, U, p)
      BY <2>3, <3>1, <3>2, DisposeKeeps
    <3>4. Shrinks(T, U) /\ Spares(T, U, p)
      BY <2>3, <2>4, <3>3, ShrinksTransitive, SparesTransitive
    <3> QED BY <2>5, <3>3, <3>4 DEF IsOpen, U
  <2>8. CASE T.obj[oo].refs = 1 /\ T.obj[oo].type \notin {"PIPE", "DEVICE"}
    <3>1. U = FreeOpen(D, oo)
      BY <1>3, <2>2, <2>8 DEF ClosePid
    <3>2. D.obj[oo].type # "PIPE" /\ D.obj[oo].refs = 0
      BY <2>3, <2>8 DEF SameEnd
    <3> HIDE DEF U, D
    <3>3. InOrder(U) /\ U.fd = D.fd /\ U.pipe = D.pipe /\ Spares(D, U, p)
      BY <2>3, <3>1, <3>2, FreeKeeps
    <3>4. Shrinks(T, U) /\ Spares(T, U, p)
      BY <2>3, <3>3, SamePipes, SparesTransitive
    <3> QED BY <2>5, <3>3, <3>4 DEF IsOpen, U
  <2> QED BY <2>6, <2>7, <2>8
<1> QED
  BY <1>2, <1>3

(***************************************************************************)
(* fd_close_process: the loop over the descriptors.                        *)
(***************************************************************************)

\* g lists the tables of the first n rounds of the loop.
CloseRun(T, p, n, g) == g = [f \in 0 .. n |-> IF f = 0 THEN T ELSE ClosePid(g[f - 1], p, f - 1)]

LEMMA CloseRunExists ==
    ASSUME NEW T, NEW p
    PROVE  \A n \in Nat : \E g : CloseRun(T, p, n, g)
<1> DEFINE S == {n \in Nat : ~ \E g : CloseRun(T, p, n, g)}
<1> SUFFICES ASSUME S # {} PROVE FALSE
  OBVIOUS
<1>1. PICK n \in S : \A m \in S : n <= m
  <2>1. S \in SUBSET Nat
    OBVIOUS
  <2> HIDE DEF S
  <2> QED BY <2>1, LeastNumber
<1>2. CASE n = 0
  <2> DEFINE g == [f \in 0 .. 0 |-> T]
  <2>1. CloseRun(T, p, 0, g)
    BY DEF CloseRun
  <2> QED BY <1>2, <2>1
<1>3. CASE n # 0
  <2>1. n - 1 \in Nat /\ n - 1 \notin S
    BY <1>1, <1>3
  <2>2. PICK g : CloseRun(T, p, n - 1, g)
    BY <2>1
  <2> DEFINE h == [f \in 0 .. n |-> IF f = n THEN ClosePid(g[n - 1], p, n - 1) ELSE g[f]]
  <2>3. ASSUME NEW f \in 0 .. n
        PROVE  h[f] = IF f = 0 THEN T ELSE ClosePid(h[f - 1], p, f - 1)
    <3>1. CASE f = n
      BY <1>3, <3>1
    <3>2. CASE f # n
      <4>1. g[f] = IF f = 0 THEN T ELSE ClosePid(g[f - 1], p, f - 1)
        BY <2>2, <3>2 DEF CloseRun
      <4>2. h[f] = g[f] /\ (f # 0 => h[f - 1] = g[f - 1])
        BY <3>2
      <4> QED BY <4>1, <4>2
    <3> QED BY <3>1, <3>2
  <2>4. CloseRun(T, p, n, h)
    <3>1. h = [f \in 0 .. n |-> h[f]]
      OBVIOUS
    <3> HIDE DEF h
    <3> QED BY <2>3, <3>1 DEF CloseRun
  <2> QED BY <2>4
<1> QED
  BY <1>2, <1>3

LEMMA CloseProcessRuns ==
    ASSUME NEW T, NEW p
    PROVE  \E g : CloseRun(T, p, MaxFds, g) /\ CloseProcess(T, p) = g[MaxFds]
<1> DEFINE u == CHOOSE g : CloseRun(T, p, MaxFds, g)
<1>1. CloseRun(T, p, MaxFds, u)
  BY CloseRunExists, Sizes
<1>2. CloseProcess(T, p) = u[MaxFds]
  BY DEF CloseProcess, CloseRun
<1> QED
  BY <1>1, <1>2

\* Every descriptor of p is closed, and nobody else's.
LEMMA CloseProcessKeeps ==
    ASSUME NEW T, InOrder(T), NEW p \in Task
    PROVE  LET U == CloseProcess(T, p) IN
           InOrder(U) /\ Spares(T, U, p) /\ Shrinks(T, U) /\ \A f \in Fd : ~IsOpen(U, p, f)
<1>1. PICK g : CloseRun(T, p, MaxFds, g) /\ CloseProcess(T, p) = g[MaxFds]
  BY CloseProcessRuns
<1> DEFINE Done(n) == /\ InOrder(g[n]) /\ Spares(T, g[n], p) /\ Shrinks(T, g[n])
                      /\ \A f \in Fd : f < n => ~IsOpen(g[n], p, f)
           S == {n \in 0 .. MaxFds : ~Done(n)}
<1>2. ASSUME S # {} PROVE FALSE
  <2>1. PICK n \in S : \A m \in S : n <= m
    <3>1. S \in SUBSET Nat
      BY Sizes
    <3> HIDE DEF S
    <3> QED BY <1>2, <3>1, LeastNumber
  <2>2. g[0] = T /\ (n # 0 => g[n] = ClosePid(g[n - 1], p, n - 1))
    BY <1>1, Sizes DEF CloseRun
  <2>3. CASE n = 0
    <3>1. Spares(T, T, p) /\ Shrinks(T, T)
      BY SamePipes DEF Spares, SameEnd
    <3>2. \A f \in Fd : ~(f < 0)
      BY Sizes DEF Fd
    <3> QED BY <2>2, <2>3, <3>1, <3>2
  <2>4. CASE n # 0
    <3>1. n - 1 \in 0 .. MaxFds /\ n - 1 \in Fd /\ n - 1 \notin S
      BY <2>1, <2>4, Sizes DEF Fd
    <3>2. Done(n - 1)
      BY <3>1
    <3>3. /\ InOrder(g[n]) /\ Spares(g[n - 1], g[n], p) /\ Shrinks(g[n - 1], g[n])
          /\ ~IsOpen(g[n], p, n - 1)
          /\ \A h \in Fd \ {n - 1} : g[n].fd[p][h] = g[n - 1].fd[p][h]
      BY <2>2, <2>4, <3>1, <3>2, ClosePidKeeps
    <3>4. Spares(T, g[n], p) /\ Shrinks(T, g[n])
      BY <3>2, <3>3, SparesTransitive, ShrinksTransitive
    <3>5. ASSUME NEW f \in Fd, f < n PROVE ~IsOpen(g[n], p, f)
      <4>1. f = n - 1 \/ f < n - 1
        BY <3>1, <3>5, Sizes DEF Fd
      <4> QED BY <3>2, <3>3, <4>1 DEF IsOpen
    <3>6. Done(n)
      BY <3>3, <3>4, <3>5
    <3> QED BY <3>6
  <2> QED BY <2>3, <2>4
<1>3. Done(MaxFds)
  BY <1>2, Sizes
<1>4. \A f \in Fd : f < MaxFds
  BY Sizes DEF Fd
<1> QED
  BY <1>1, <1>3, <1>4

(***************************************************************************)
(* dup, dup2 and the clones of spawn.                                      *)
(***************************************************************************)
LEMMA OpenSlot ==
    ASSUME NEW T, InOrder(T), NEW p \in Task, NEW f \in Fd, IsOpen(T, p, f)
    PROVE  LET s == T.fd[p][f] IN
           s.obj \in Obj /\ Fits(T, s.obj, s.flags)
<1>1. T.fd[p][f] \in Slot /\ T.fd[p][f].obj # None
  BY FieldTypes DEF InOrder, IsOpen
<1> QED
  BY <1>1 DEF InOrder, SlotsInUse, IsOpen, Slot, Fits

LEMMA FreeSlot ==
    ASSUME NEW T, NEW p, FreeFds(T, p) # {}
    PROVE  Min(FreeFds(T, p)) \in Fd /\ ~IsOpen(T, p, Min(FreeFds(T, p)))
<1>1. FreeFds(T, p) \subseteq Nat
  BY Sizes DEF FreeFds
<1>2. Min(FreeFds(T, p)) \in FreeFds(T, p)
  BY <1>1, MinIsMember
<1> QED
  BY <1>2 DEF FreeFds, IsOpen

LEMMA DupKeeps ==
    ASSUME NEW T, InOrder(T), NEW p \in Task, NEW f \in Fd, IsOpen(T, p, f), FreeFds(T, p) # {}
    PROVE  LET U == Dup(T, p, f) IN InOrder(U) /\ Spares(T, U, p) /\ U.pipe = T.pipe
<1> DEFINE g == Min(FreeFds(T, p))
           o == T.fd[p][f].obj
           fl == T.fd[p][f].flags
<1>1. g \in Fd /\ ~IsOpen(T, p, g)
  BY FreeSlot
<1>2. o \in Obj /\ Fits(T, o, fl)
  BY OpenSlot
<1>3. Dup(T, p, f) = Attach(T, p, g, o, fl)
  BY DEF Dup
<1> HIDE DEF g, o, fl
<1> QED
  BY <1>1, <1>2, <1>3, AttachKeeps

LEMMA Dup2Keeps ==
    ASSUME NEW T, InOrder(T), NEW p \in Task, NEW f \in Fd, NEW g \in Fd, IsOpen(T, p, f)
    PROVE  LET U == Dup2(T, p, f, g) IN InOrder(U) /\ Spares(T, U, p) /\ U.pipe = T.pipe
<1> DEFINE o == T.fd[p][f].obj
           fl == T.fd[p][f].flags
           D == Detach(T, p, g)
           U == Attach(D, p, g, o, fl)
<1>1. Spares(T, T, p)
  BY DEF Spares, SameEnd
<1>2. CASE f = g
  BY <1>1, <1>2 DEF Dup2
<1>3. CASE f # g
  <2>1. o \in Obj /\ Fits(T, o, fl)
    BY OpenSlot
  <2>2. InOrder(D) /\ Spares(T, D, p) /\ D.pipe = T.pipe /\ ~IsOpen(D, p, g) /\ \A x \in Obj : SameEnd(T, D, x)
    <3>1. CASE IsOpen(T, p, g)
      <4>1. PICK x \in Obj : T.fd[p][g].obj = x
        BY <3>1, OpenSlot
      <4>2. /\ InOrder(D) /\ D.pipe = T.pipe /\ Spares(T, D, p) /\ \A y \in Obj : SameEnd(T, D, y)
            /\ \A q \in Task, h \in Fd : D.fd[q][h] = IF q = p /\ h = g THEN NoSlot ELSE T.fd[q][h]
        BY <4>1, DetachKeeps
      <4> HIDE DEF D
      <4>3. D.fd[p][g] = NoSlot
        BY <4>2
      <4> QED BY <4>2, <4>3 DEF IsOpen, NoSlot
    <3>2. CASE ~IsOpen(T, p, g)
      <4>1. D = T
        BY <3>2 DEF Detach, IsOpen
      <4> HIDE DEF D
      <4> QED BY <1>1, <3>2, <4>1 DEF SameEnd
    <3> QED BY <3>1, <3>2
  <2>3. Dup2(T, p, f, g) = U
    BY <1>3 DEF Dup2
  <2>4. Fits(D, o, fl)
    BY <2>1, <2>2 DEF SameEnd, Fits
  <2> HIDE DEF D, o, fl
  <2>5. InOrder(U) /\ U.pipe = D.pipe /\ Spares(D, U, p)
    BY <2>1, <2>2, <2>4, AttachKeeps
  <2>6. Spares(T, U, p)
    BY <2>2, <2>5, SparesTransitive
  <2> QED BY <2>2, <2>3, <2>5, <2>6
<1> QED
  BY <1>2, <1>3

LEMMA CloneKeeps ==
    ASSUME NEW T, InOrder(T), NEW p \in Task, NEW f \in Fd, NEW c \in Task, NEW g \in Fd,
           p # c, IsOpen(T, p, f)
    PROVE  LET U == Clone(T, p, f, c, g) IN InOrder(U) /\ Spares(T, U, c) /\ Shrinks(T, U)
<1> DEFINE o == T.fd[p][f].obj
           fl == T.fd[p][f].flags
           D == ClosePid(T, c, g)
           U == Attach(D, c, g, o, fl)
<1>1. InOrder(D) /\ Spares(T, D, c) /\ Shrinks(T, D) /\ ~IsOpen(D, c, g)
  BY ClosePidKeeps
<1>2. D.fd[p][f] = T.fd[p][f] /\ IsOpen(D, p, f)
  BY <1>1 DEF Spares, IsOpen
<1>3. o \in Obj /\ Fits(D, o, fl)
  <2> HIDE DEF D
  <2> QED BY <1>1, <1>2, OpenSlot
<1>4. Clone(T, p, f, c, g) = U
  BY DEF Clone
<1> HIDE DEF D, o, fl
<1>5. InOrder(U) /\ U.pipe = D.pipe /\ Spares(D, U, c)
  BY <1>1, <1>3, AttachKeeps
<1>6. Spares(T, U, c) /\ Shrinks(T, U)
  BY <1>1, <1>5, SparesTransitive, ShrinksTransitive, SamePipes
<1> QED
  BY <1>4, <1>5, <1>6

\* Clearing the slots of a process that has no descriptor open.
LEMMA ClearKeeps ==
    ASSUME NEW T, InOrder(T), NEW c \in Task, \A f \in Fd : ~IsOpen(T, c, f)
    PROVE  LET U == ClearSlots(T, c) IN InOrder(U) /\ Spares(T, U, c) /\ U.pipe = T.pipe
<1> DEFINE U == ClearSlots(T, c)
           n == [f \in Fd |-> NoSlot]
           a == [T.fd EXCEPT ![c] = n]
<1>1. T \in Tables /\ T.fd \in [Task -> [Fd -> Slot]]
  BY FieldTypes DEF InOrder
<1>2. n \in [Fd -> Slot]
  BY DEF Slot, NoSlot
<1>3. U = [T EXCEPT !.fd = a]
  BY DEF ClearSlots
<1>4. /\ U = [fd |-> a, obj |-> T.obj, pipe |-> T.pipe, wakes |-> T.wakes]
      /\ a \in [Task -> [Fd -> Slot]] /\ \A q \in Task : a[q] = IF q = c THEN n ELSE T.fd[q]
  <2> HIDE DEF n, U
  <2> QED BY <1>1, <1>2, <1>3 DEF Tables
<1>5. U.fd = a /\ U.obj = T.obj /\ U.pipe = T.pipe /\ U \in Tables
  <2> HIDE DEF a, U
  <2> QED BY <1>1, <1>4, FieldTypes, TablesFrom
<1> HIDE DEF U, a
<1>6. \A q \in Task, f \in Fd : U.fd[q][f] = IF q = c THEN NoSlot ELSE T.fd[q][f]
  BY <1>4, <1>5
<1>7. \A q \in Task, f \in Fd : U.fd[q][f].obj = T.fd[q][f].obj
  BY <1>6 DEF NoSlot, IsOpen
<1>8. Counted(U)
  <2>1. ASSUME NEW x \in Obj PROVE RefsTo(U, x) = RefsTo(T, x)
    BY <1>7, AsMany
  <2> QED BY <1>5, <2>1 DEF InOrder, Counted
<1>9. SlotsInUse(U)
  <2>1. ASSUME NEW q \in Task, NEW f \in Fd, U.fd[q][f].obj # None PROVE U.fd[q][f] = T.fd[q][f]
    BY <1>6, <2>1 DEF NoSlot
  <2> QED BY <1>5, <2>1 DEF InOrder, SlotsInUse, IsOpen
<1>10. Endpoints(U) /\ EndsApart(U) /\ Rings(U)
  BY <1>5 DEF InOrder, Endpoints, EndsApart, Rings
<1>11. Spares(T, U, c)
  BY <1>5, <1>6 DEF Spares, SameEnd
<1> QED
  BY <1>5, <1>8, <1>9, <1>10, <1>11 DEF InOrder, U

\* One round of the loop over the standard descriptors, and n rounds.
CloneStep(T, p, c, m, g, V) ==
    IF m[g - 1] = None THEN V
    ELSE IF \E h \in 0 .. (g - 1) : m[h] # None /\ ~IsOpen(T, p, m[h]) THEN V
    ELSE Clone(V, p, m[g - 1], c, g - 1)

CloneRun(T, p, c, m, n, r) ==
    r = [g \in 0 .. n |-> IF g = 0 THEN T ELSE CloneStep(T, p, c, m, g, r[g - 1])]

LEMMA CloneRunExists ==
    ASSUME NEW T, NEW p, NEW c, NEW m
    PROVE  \A n \in Nat : \E r : CloneRun(T, p, c, m, n, r)
<1> DEFINE S == {n \in Nat : ~ \E r : CloneRun(T, p, c, m, n, r)}
<1> SUFFICES ASSUME S # {} PROVE FALSE
  OBVIOUS
<1>1. PICK n \in S : \A i \in S : n <= i
  <2>1. S \in SUBSET Nat
    OBVIOUS
  <2> HIDE DEF S
  <2> QED BY <2>1, LeastNumber
<1>2. CASE n = 0
  <2> DEFINE r == [g \in 0 .. 0 |-> T]
  <2>1. CloneRun(T, p, c, m, 0, r)
    BY DEF CloneRun
  <2> QED BY <1>2, <2>1
<1>3. CASE n # 0
  <2>1. n - 1 \in Nat /\ n - 1 \notin S
    BY <1>1, <1>3
  <2>2. PICK r : CloneRun(T, p, c, m, n - 1, r)
    BY <2>1
  <2> DEFINE h == [g \in 0 .. n |-> IF g = n THEN CloneStep(T, p, c, m, n, r[n - 1]) ELSE r[g]]
  <2>3. ASSUME NEW g \in 0 .. n
        PROVE  h[g] = IF g = 0 THEN T ELSE CloneStep(T, p, c, m, g, h[g - 1])
    <3>1. CASE g = n
      BY <1>3, <3>1
    <3>2. CASE g # n
      <4>1. r[g] = IF g = 0 THEN T ELSE CloneStep(T, p, c, m, g, r[g - 1])
        BY <2>2, <3>2 DEF CloneRun
      <4>2. h[g] = r[g] /\ (g # 0 => h[g - 1] = r[g - 1])
        BY <3>2
      <4> QED BY <4>1, <4>2
    <3> QED BY <3>1, <3>2
  <2>4. CloneRun(T, p, c, m, n, h)
    <3>1. h = [g \in 0 .. n |-> h[g]]
      OBVIOUS
    <3> HIDE DEF h
    <3> QED BY <2>3, <3>1 DEF CloneRun
  <2> QED BY <2>4
<1> QED
  BY <1>2, <1>3

LEMMA CloneMappedRuns ==
    ASSUME NEW T, NEW p, NEW c, NEW m
    PROVE  \E r : CloneRun(T, p, c, m, Consoles, r) /\ CloneMapped(T, p, c, m) = r[Consoles]
<1> DEFINE u == CHOOSE r : CloneRun(T, p, c, m, Consoles, r)
<1>1. CloneRun(T, p, c, m, Consoles, u)
  <2>1. Consoles \in Nat
    BY DescriptorsAssumption
  <2>2. \E r : CloneRun(T, p, c, m, Consoles, r)
    BY <2>1, CloneRunExists
  <2> QED BY <2>2
<1>2. CloneMapped(T, p, c, m) = u[Consoles]
  BY DEF CloneMapped, CloneRun, CloneStep
<1> QED
  BY <1>1, <1>2

LEMMA CloneMappedKeeps ==
    ASSUME NEW T, InOrder(T), NEW p \in Task, NEW c \in Task, p # c,
           NEW m \in [0 .. (Consoles - 1) -> Fd \cup {None}]
    PROVE  LET U == CloneMapped(T, p, c, m) IN InOrder(U) /\ Spares(T, U, c) /\ Shrinks(T, U)
<1>1. PICK r : CloneRun(T, p, c, m, Consoles, r) /\ CloneMapped(T, p, c, m) = r[Consoles]
  BY CloneMappedRuns
<1> DEFINE Done(n) == InOrder(r[n]) /\ Spares(T, r[n], c) /\ Shrinks(T, r[n])
           S == {n \in 0 .. Consoles : ~Done(n)}
<1>2. ASSUME S # {} PROVE FALSE
  <2>1. PICK n \in S : \A i \in S : n <= i
    <3>1. S \in SUBSET Nat
      BY DescriptorsAssumption
    <3> HIDE DEF S
    <3> QED BY <1>2, <3>1, LeastNumber
  <2>2. r[0] = T /\ (n # 0 => r[n] = CloneStep(T, p, c, m, n, r[n - 1]))
    BY <1>1, DescriptorsAssumption DEF CloneRun
  <2>3. CASE n = 0
    <3>1. Spares(T, T, c) /\ Shrinks(T, T)
      BY SamePipes DEF Spares, SameEnd
    <3> QED BY <2>2, <2>3, <3>1
  <2>4. CASE n # 0
    <3>1. n - 1 \in 0 .. Consoles /\ n - 1 \in Fd /\ n - 1 \notin S /\ n - 1 \in 0 .. (Consoles - 1)
      BY <2>1, <2>4, DescriptorsAssumption DEF Fd
    <3>2. Done(n - 1)
      BY <3>1
    <3>3. CASE r[n] = r[n - 1]
      BY <3>2, <3>3
    <3>4. CASE /\ m[n - 1] # None /\ IsOpen(T, p, m[n - 1])
               /\ r[n] = Clone(r[n - 1], p, m[n - 1], c, n - 1)
      <4>1. m[n - 1] \in Fd
        BY <3>1, <3>4
      <4>2. IsOpen(r[n - 1], p, m[n - 1])
        BY <3>2, <3>4, <4>1 DEF Spares, IsOpen
      <4>3. InOrder(r[n]) /\ Spares(r[n - 1], r[n], c) /\ Shrinks(r[n - 1], r[n])
        BY <3>1, <3>2, <3>4, <4>1, <4>2, CloneKeeps
      <4>4. Done(n)
        BY <3>2, <4>3, SparesTransitive, ShrinksTransitive
      <4> QED BY <4>4
    <3>5. r[n] = r[n - 1] \/ (/\ m[n - 1] # None /\ IsOpen(T, p, m[n - 1])
                              /\ r[n] = Clone(r[n - 1], p, m[n - 1], c, n - 1))
      <4>1. n - 1 \in 0 .. (n - 1)
        BY <3>1
      <4> QED BY <2>2, <2>4, <4>1 DEF CloneStep
    <3> QED BY <3>3, <3>4, <3>5
  <2> QED BY <2>3, <2>4
<1>3. Done(Consoles)
  BY <1>2, DescriptorsAssumption
<1> QED
  BY <1>1, <1>3

(***************************************************************************)
(* pipe_create and open.                                                   *)
(***************************************************************************)
LEMMA PairIsFree ==
    ASSUME NEW T, PairFits(T)
    PROVE  FreeObjs(T) \ {PairRead(T)} # {} /\ FreePipes(T) # {}
<1>1. FreePipes(T) # {} /\ Cardinality(FreeObjs(T)) >= 2
  BY DEF PairFits
<1>2. FreeObjs(T) \subseteq Obj
  BY DEF FreeObjs
<1>3. IsFiniteSet(FreeObjs(T))
  <2>1. IsFiniteSet(Obj)
    BY FS_Interval, Sizes DEF Obj
  <2> QED BY <1>2, <2>1, FS_Subset
<1>4. ASSUME FreeObjs(T) \ {PairRead(T)} = {} PROVE FALSE
  <2> DEFINE S == FreeObjs(T)
             r == PairRead(T)
  <2>1. S = {} \/ S = {r}
    BY <1>4
  <2>2. Cardinality(S) = 0 \/ Cardinality(S) = 1
    <3> HIDE DEF S, r
    <3> QED BY <2>1, FS_EmptySet, FS_Singleton
  <2> QED BY <1>1, <2>2
<1> QED
  BY <1>1, <1>4

\* k, free in T, is a new pipe of A, and no descriptor refers to its
\* endpoints r and w yet.
Unused(T, A, r, w, k) ==
    /\ r \in Obj /\ w \in Obj /\ r # w /\ k \in FreePipes(T)
    /\ A.obj[r].type = "PIPE" /\ A.obj[r].refs = 0 /\ A.obj[r].pipe = k /\ A.obj[r].end = "R"
    /\ A.obj[w].type = "PIPE" /\ A.obj[w].refs = 0 /\ A.obj[w].pipe = k /\ A.obj[w].end = "W"
    /\ A.pipe[k].ends = End /\ A.pipe[k].head = 0 /\ A.pipe[k].tail = 0 /\ A.pipe[k].count = 0
    /\ \A j \in Pipe : j # k => A.pipe[j] = T.pipe[j]

Paired(T, A, r, w, k) ==
    /\ Unused(T, A, r, w, k)
    /\ A.fd = T.fd
    /\ T.obj[r].type = "NONE" /\ T.obj[w].type = "NONE" /\ T.obj[r].refs = 0 /\ T.obj[w].refs = 0
    /\ \A x \in Obj \ {r, w} : A.obj[x] = T.obj[x]

LEMMA AllocEffect ==
    ASSUME NEW T \in Tables, FreeObjs(T) \ {PairRead(T)} # {}, FreePipes(T) # {}
    PROVE  /\ AllocPair(T) \in Tables
           /\ Paired(T, AllocPair(T), PairRead(T), PairWrite(T), Min(FreePipes(T)))
<1> DEFINE r == PairRead(T)
           w == PairWrite(T)
           k == Min(FreePipes(T))
           ring == [T.pipe[k] EXCEPT !.ends = End, !.head = 0, !.tail = 0, !.count = 0]
           b == [T.obj EXCEPT ![r] = Endpoint(k, "R"), ![w] = Endpoint(k, "W")]
           c == [T.pipe EXCEPT ![k] = ring]
           A == AllocPair(T)
<1>1. r \in FreeObjs(T)
  BY MinIsMember, Sizes DEF PairRead, FreeObjs
<1>2. w \in FreeObjs(T) \ {r}
  BY MinIsMember, Sizes DEF PairWrite, FreeObjs
<1>3. k \in FreePipes(T)
  BY MinIsMember, Sizes DEF FreePipes
<1>4. r \in Obj /\ w \in Obj /\ k \in Pipe
  BY <1>1, <1>2, <1>3 DEF FreeObjs, FreePipes
<1>5. T.pipe[k] \in Ring /\ T.obj \in [Obj -> Object] /\ T.pipe \in [Pipe -> Ring]
  BY <1>4, FieldTypes
<1>6. A = [fd |-> T.fd, obj |-> b, pipe |-> c, wakes |-> T.wakes]
  <2>1. A = [T EXCEPT !.obj[r] = Endpoint(k, "R"), !.obj[w] = Endpoint(k, "W"), !.pipe[k] = ring]
    BY DEF AllocPair
  <2> HIDE DEF A, r, w, k, ring
  <2> QED BY <2>1, FieldTypes DEF Tables
<1> HIDE DEF r, w, k
<1>7. /\ ring \in Ring /\ ring.ends = End /\ ring.head = 0 /\ ring.tail = 0 /\ ring.count = 0
  <2>1. 0 \in Index /\ 0 \in 0 .. PipeBufSize
    BY Sizes
  <2> QED BY <1>5, <2>1 DEF Ring
<1>8. Endpoint(k, "R") \in Object /\ Endpoint(k, "W") \in Object
  BY <1>4 DEF Endpoint, Object, End
<1> HIDE DEF ring
<1>9. /\ b \in [Obj -> Object] /\ c \in [Pipe -> Ring]
      /\ b[r] = Endpoint(k, "R") /\ b[w] = Endpoint(k, "W") /\ \A x \in Obj \ {r, w} : b[x] = T.obj[x]
      /\ c[k] = ring /\ \A j \in Pipe : j # k => c[j] = T.pipe[j]
  BY <1>2, <1>4, <1>5, <1>7, <1>8
<1> HIDE DEF A, b, c
<1>10. A \in Tables
  BY <1>6, <1>9, FieldTypes, TablesFrom
<1>11. A.fd = T.fd /\ A.obj = b /\ A.pipe = c
  BY <1>6
<1>12. /\ T.obj[r].type = "NONE" /\ T.obj[w].type = "NONE" /\ T.obj[r].refs = 0 /\ T.obj[w].refs = 0
  BY <1>1, <1>2 DEF FreeObjs
<1>13. Paired(T, A, r, w, k)
  BY <1>2, <1>3, <1>4, <1>7, <1>9, <1>11, <1>12 DEF Paired, Unused, Endpoint
<1> QED
  BY <1>10, <1>13 DEF A, r, w, k

LEMMA PairedKeeps ==
    ASSUME NEW T, InOrder(T), NEW A \in Tables, NEW r, NEW w, NEW k, Paired(T, A, r, w, k)
    PROVE  InOrder(A) /\ \A x \in Task : Spares(T, A, x)
<1>1. T \in Tables
  BY DEF InOrder
<1>2. T.obj \in [Obj -> Object] /\ T.fd \in [Task -> [Fd -> Slot]] /\ k \in Pipe
  BY <1>1, FieldTypes DEF Paired, Unused, FreePipes
<1>3. \A q \in Task, h \in Fd : T.fd[q][h].obj # r /\ T.fd[q][h].obj # w
  BY NoneLeft DEF InOrder, Counted, Paired, Unused
<1>4. ASSUME NEW q \in Task, NEW h \in Fd, T.fd[q][h].obj # None
      PROVE  A.obj[T.fd[q][h].obj] = T.obj[T.fd[q][h].obj]
  <2>1. T.fd[q][h].obj \in Obj \ {r, w}
    BY <1>2, <1>3, <1>4 DEF Slot
  <2> QED BY <2>1 DEF Paired, Unused
<1>5. ASSUME NEW x \in Task PROVE Spares(T, A, x)
  BY <1>4 DEF Spares, SameEnd, IsOpen, Paired, Unused
<1>6. SlotsInUse(A)
  BY <1>4 DEF InOrder, SlotsInUse, IsOpen, Paired, Unused
<1>7. Counted(A)
  <2>1. ASSUME NEW x \in Obj PROVE RefsTo(A, x) = RefsTo(T, x) /\ A.obj[x].refs = T.obj[x].refs
    BY DEF RefsTo, Paired, Unused
  <2> QED BY <2>1 DEF InOrder, Counted
<1>8. ASSUME NEW x \in Obj, x \notin {r, w}, A.obj[x].type = "PIPE"
      PROVE  /\ A.obj[x] = T.obj[x] /\ A.obj[x].pipe # k /\ A.obj[x].pipe # None
             /\ A.obj[x].end \in A.pipe[A.obj[x].pipe].ends
  <2>1. A.obj[x] = T.obj[x]
    BY <1>8 DEF Paired, Unused
  <2>2. T.obj[x].pipe # None /\ T.obj[x].end \in T.pipe[T.obj[x].pipe].ends /\ T.obj[x].pipe \in Pipe
    BY <1>2, <1>8, <2>1 DEF InOrder, Endpoints, Object
  <2>3. T.obj[x].pipe # k
    BY <2>2 DEF Paired, Unused, FreePipes
  <2> QED BY <2>1, <2>2, <2>3 DEF Paired, Unused
<1>9. ASSUME NEW x \in Obj, A.obj[x].type # "PIPE" PROVE A.obj[x].pipe = None /\ A.obj[x].end = "-"
  <2>1. A.obj[x] = T.obj[x]
    BY <1>9 DEF Paired, Unused
  <2> QED BY <1>9, <2>1 DEF InOrder, Endpoints
<1>10. Rings(A)
  <2>1. Advance(0, 0) = 0
    BY Sizes, Wraps DEF Index
  <2> QED BY <2>1 DEF InOrder, Rings, Paired, Unused, End
<1>11. Endpoints(A)
  <2> SUFFICES ASSUME NEW x \in Obj, A.obj[x].type = "PIPE"
               PROVE  A.obj[x].pipe # None /\ A.obj[x].end \in A.pipe[A.obj[x].pipe].ends
    BY <1>9 DEF Endpoints
  <2>1. CASE x \in {r, w}
    BY <1>2, <2>1, Sizes DEF Paired, Unused, End
  <2>2. CASE x \notin {r, w}
    BY <1>8, <2>2
  <2> QED BY <2>1, <2>2
<1>12. EndsApart(A)
  <2> SUFFICES ASSUME NEW x \in Obj, NEW y \in Obj, A.obj[x].type = "PIPE", y # x
               PROVE  A.obj[y].pipe # A.obj[x].pipe \/ A.obj[y].end # A.obj[x].end
    BY DEF EndsApart
  <2>1. CASE x \in {r, w} /\ y \in {r, w}
    BY <2>1 DEF Paired, Unused
  <2>2. CASE x \notin {r, w} /\ y \in {r, w}
    BY <1>8, <2>2 DEF Paired, Unused
  <2>3. CASE x \in {r, w} /\ y \notin {r, w}
    <3>1. CASE A.obj[y].type = "PIPE"
      BY <1>8, <2>3, <3>1 DEF Paired, Unused
    <3>2. CASE A.obj[y].type # "PIPE"
      BY <1>9, <2>3, <3>2 DEF Paired, Unused
    <3> QED BY <3>1, <3>2
  <2>4. CASE x \notin {r, w} /\ y \notin {r, w}
    <3>1. A.obj[x] = T.obj[x] /\ A.obj[y] = T.obj[y]
      BY <2>4 DEF Paired, Unused
    <3> QED BY <3>1 DEF InOrder, EndsApart
  <2> QED BY <2>1, <2>2, <2>3, <2>4
<1> QED
  BY <1>5, <1>6, <1>7, <1>10, <1>11, <1>12 DEF InOrder

\* pipe_release_pair undoes the allocation: the pipe is free again.
LEMMA ReleaseKeeps ==
    ASSUME NEW T, NEW A, InOrder(A), NEW r, NEW w, NEW k, Unused(T, A, r, w, k)
    PROVE  LET U == ReleasePair(A, r, w) IN
           InOrder(U) /\ Shrinks(T, U) /\ \A x \in Task : Spares(A, U, x)
<1> DEFINE V == FreeOpen(CloseEnd(A, w), w)
           U == FreeOpen(CloseEnd(V, r), r)
<1>1. r \in Obj /\ w \in Obj /\ r # w /\ k \in Pipe
  BY DEF Unused, FreePipes
<1>2. A.obj[w].type = "PIPE" /\ A.obj[w].refs = 0 /\ A.obj[w].pipe = k /\ A.obj[w].end = "W"
  BY DEF Unused
<1>3. /\ InOrder(V) /\ V.fd = A.fd /\ (\A x \in Task : Spares(A, V, x))
      /\ V.pipe[k].ends = A.pipe[k].ends \ {"W"}
      /\ \A j \in Pipe : j # k => V.pipe[j] = A.pipe[j]
      /\ \A x \in Obj : x # w => V.obj[x] = A.obj[x]
  <2>1. /\ InOrder(V) /\ V.fd = A.fd /\ (\A x \in Task : Spares(A, V, x))
        /\ V.pipe[A.obj[w].pipe].ends = A.pipe[A.obj[w].pipe].ends \ {A.obj[w].end}
        /\ \A j \in Pipe : j # A.obj[w].pipe => V.pipe[j] = A.pipe[j]
        /\ \A x \in Obj : x # w => V.obj[x] = A.obj[x]
    BY <1>1, <1>2, DisposeKeeps
  <2> HIDE DEF V
  <2> QED BY <1>2, <2>1
<1> HIDE DEF V
<1>4. V.obj[r].type = "PIPE" /\ V.obj[r].refs = 0 /\ V.obj[r].pipe = k /\ V.obj[r].end = "R"
  BY <1>1, <1>3 DEF Unused
<1>5. /\ InOrder(U) /\ U.fd = V.fd /\ (\A x \in Task : Spares(V, U, x))
      /\ U.pipe[k].ends = V.pipe[k].ends \ {"R"}
      /\ \A j \in Pipe : j # k => U.pipe[j] = V.pipe[j]
  <2>0. InOrder(V) /\ r \in Obj /\ V.obj[r].type = "PIPE" /\ V.obj[r].refs = 0
    BY <1>1, <1>3, <1>4
  <2>1. /\ InOrder(U) /\ U.fd = V.fd /\ (\A x \in Task : Spares(V, U, x))
        /\ U.pipe[V.obj[r].pipe].ends = V.pipe[V.obj[r].pipe].ends \ {V.obj[r].end}
        /\ \A j \in Pipe : j # V.obj[r].pipe => U.pipe[j] = V.pipe[j]
    BY <2>0, DisposeKeeps
  <2> HIDE DEF U
  <2> QED BY <1>4, <2>1
<1> HIDE DEF U
<1>6. U.pipe[k].ends = {} /\ \A j \in Pipe : j # k => U.pipe[j] = T.pipe[j]
  BY <1>3, <1>5 DEF Unused, End
<1>7. Shrinks(T, U)
  BY <1>6 DEF Shrinks
<1>8. \A x \in Task : Spares(A, U, x)
  BY <1>3, <1>5, SparesTransitive
<1>9. ReleasePair(A, r, w) = U
  BY DEF ReleasePair, U, V
<1> QED
  BY <1>5, <1>7, <1>8, <1>9

\* A free pipe gets both ends and nothing else happens to the pipes.
Creates(T, U) ==
    \E k \in FreePipes(T) : /\ U.pipe[k].ends = End /\ U.pipe[k].count = 0
                            /\ \A j \in Pipe : j # k => U.pipe[j] = T.pipe[j]

LEMMA PipeCreateKeeps ==
    ASSUME NEW T, InOrder(T), NEW p \in Task
    PROVE  LET U == PipeCreate(T, p) IN
           InOrder(U) /\ Spares(T, U, p) /\ (Shrinks(T, U) \/ Creates(T, U))
<1> DEFINE r == PairRead(T)
           w == PairWrite(T)
           A == AllocPair(T)
           k == Min(FreePipes(T))
           F == FreeFds(T, p)
           f == Min(F)
           g == Min(F \ {f})
           B == Attach(A, p, f, r, {"R"})
           U == PipeCreate(T, p)
<1>1. CASE ~PairFits(T)
  <2>1. U = T
    BY <1>1 DEF PipeCreate
  <2>2. Spares(T, T, p) /\ Shrinks(T, T)
    BY SamePipes DEF Spares, SameEnd
  <2> QED BY <2>1, <2>2
<1>2. CASE PairFits(T)
  <2>1. A \in Tables /\ Paired(T, A, r, w, k)
    BY <1>2, PairIsFree, AllocEffect DEF InOrder
  <2> HIDE DEF A, r, w, k
  <2>2. InOrder(A) /\ \A x \in Task : Spares(T, A, x)
    BY <2>1, PairedKeeps
  <2>3. InOrder(ReleasePair(A, r, w)) /\ Shrinks(T, ReleasePair(A, r, w)) /\ Spares(A, ReleasePair(A, r, w), p)
    BY <2>1, <2>2, ReleaseKeeps DEF Paired
  <2>4. CASE F = {}
    <3>1. U = ReleasePair(A, r, w)
      BY <1>2, <2>4 DEF PipeCreate, A, r, w
    <3>2. Spares(T, ReleasePair(A, r, w), p)
      BY <2>2, <2>3, SparesTransitive
    <3> QED BY <2>3, <3>1, <3>2
  <2>5. CASE F # {}
    <3>1. f \in Fd /\ ~IsOpen(T, p, f) /\ f \in F
      BY <2>5, FreeSlot DEF FreeFds, IsOpen
    <3> HIDE DEF f
    <3>2. ~IsOpen(A, p, f) /\ Fits(A, r, {"R"}) /\ Fits(A, w, {"W"}) /\ r \in Obj /\ w \in Obj /\ r # w
      BY <2>1, <3>1 DEF IsOpen, Paired, Unused, Fits, End
    <3>3. /\ InOrder(B) /\ B.pipe = A.pipe /\ Spares(A, B, p) /\ (\A x \in Obj : SameEnd(A, B, x))
          /\ B.fd[p][f].obj = r
          /\ \A q \in Task, h \in Fd : q # p \/ h # f => B.fd[q][h] = A.fd[q][h]
      BY <2>2, <3>1, <3>2, AttachKeeps
    <3> HIDE DEF B
    <3>4. Spares(T, B, p)
      BY <2>2, <3>3, SparesTransitive
    <3>5. CASE F = {f}
      <4> DEFINE D == Detach(B, p, f)
      <4>1. /\ InOrder(D) /\ D.pipe = B.pipe /\ Spares(B, D, p) /\ (\A x \in Obj : SameEnd(B, D, x))
            /\ \A q \in Task, h \in Fd : D.fd[q][h] = IF q = p /\ h = f THEN NoSlot ELSE B.fd[q][h]
        BY <3>1, <3>2, <3>3, DetachKeeps
      <4> HIDE DEF D
      <4>2. D.fd[p][f] = NoSlot /\ NoSlot.obj = None /\ A.fd[p][f].obj = None
        BY <3>1, <3>2, <4>1 DEF NoSlot, IsOpen
      <4>3. \A q \in Task, h \in Fd : q # p \/ h # f => D.fd[q][h] = A.fd[q][h]
        BY <3>3, <4>1
      <4>4. \A q \in Task, h \in Fd : D.fd[q][h].obj = A.fd[q][h].obj
        BY <4>2, <4>3
      <4>5. ASSUME NEW x \in Obj PROVE D.obj[x].refs = A.obj[x].refs
        <5>1. RefsTo(D, x) = RefsTo(A, x)
          BY <4>4, AsMany
        <5> QED BY <2>2, <4>1, <5>1 DEF InOrder, Counted
      <4>6. Unused(T, D, r, w, k)
        BY <2>1, <3>2, <3>3, <4>1, <4>5 DEF Paired, Unused, SameEnd
      <4> DEFINE R == ReleasePair(D, r, w)
      <4>7. InOrder(R) /\ Shrinks(T, R) /\ Spares(D, R, p)
        BY <4>1, <4>6, ReleaseKeeps
      <4>8. U = R
        BY <1>2, <2>5, <3>5 DEF PipeCreate, A, r, w, f, B, D
      <4> HIDE DEF R, U
      <4>9. Spares(T, R, p)
        BY <3>4, <4>1, <4>7, SparesTransitive
      <4> QED BY <4>7, <4>8, <4>9 DEF U
    <3>6. CASE F # {f}
      <4>1. F \ {f} # {} /\ F \ {f} \subseteq Nat
        BY <3>1, <3>6, Sizes DEF FreeFds
      <4>2. g \in F \ {f}
        BY <4>1, MinIsMember
      <4>3. g \in Fd /\ ~IsOpen(T, p, g) /\ g # f
        BY <4>2 DEF FreeFds, IsOpen
      <4> HIDE DEF g
      <4>4. ~IsOpen(B, p, g) /\ Fits(B, w, {"W"})
        BY <2>1, <3>2, <3>3, <4>3 DEF IsOpen, Paired, Unused, Fits, SameEnd
      <4> DEFINE C == Attach(B, p, g, w, {"W"})
      <4>5. InOrder(C) /\ C.pipe = B.pipe /\ Spares(B, C, p)
        BY <3>2, <3>3, <4>3, <4>4, AttachKeeps
      <4>6. U = C
        BY <1>2, <2>5, <3>6 DEF PipeCreate, A, r, w, f, g, B
      <4> HIDE DEF C, U
      <4>7. Spares(T, C, p)
        BY <3>4, <4>5, SparesTransitive
      <4>8. Creates(T, C)
        BY <2>1, <3>3, <4>5 DEF Creates, Paired, Unused
      <4> QED BY <4>5, <4>6, <4>7, <4>8 DEF U
    <3> QED BY <3>5, <3>6
  <2> QED BY <2>4, <2>5
<1> QED
  BY <1>1, <1>2

LEMMA OpenFileKeeps ==
    ASSUME NEW T, InOrder(T), NEW p \in Task, NEW fl \in SUBSET End
    PROVE  LET U == OpenFile(T, p, fl) IN InOrder(U) /\ Spares(T, U, p) /\ U.pipe = T.pipe
<1> DEFINE o == Min(FreeObjs(T))
           f == Min(FreeFds(T, p))
           x0 == [T.obj[o] EXCEPT !.type = "FILE"]
           b == [T.obj EXCEPT ![o] = x0]
           V == [T EXCEPT !.obj[o].type = "FILE"]
           U == Attach(V, p, f, o, fl)
<1>1. CASE FreeObjs(T) = {} \/ FreeFds(T, p) = {}
  <2>1. OpenFile(T, p, fl) = T
    BY <1>1 DEF OpenFile
  <2>2. Spares(T, T, p)
    BY DEF Spares, SameEnd
  <2> QED BY <2>1, <2>2
<1>2. CASE FreeObjs(T) # {} /\ FreeFds(T, p) # {}
  <2>1. OpenFile(T, p, fl) = U
    BY <1>2 DEF OpenFile
  <2>2. f \in Fd /\ ~IsOpen(T, p, f)
    BY <1>2, FreeSlot
  <2>3. o \in Obj /\ T.obj[o].type = "NONE" /\ T.obj[o].refs = 0
    BY <1>2, MinIsMember, Sizes DEF FreeObjs
  <2>4. T \in Tables /\ T.obj[o] \in Object /\ T.obj \in [Obj -> Object] /\ T.fd \in [Task -> [Fd -> Slot]]
    BY <2>3, FieldTypes DEF InOrder
  <2> HIDE DEF o, f
  <2>5. V = [fd |-> T.fd, obj |-> b, pipe |-> T.pipe, wakes |-> T.wakes]
    BY <2>4, FieldTypes DEF Tables
  <2>6. /\ x0 \in Object /\ x0.type = "FILE" /\ x0.refs = T.obj[o].refs
        /\ x0.pipe = T.obj[o].pipe /\ x0.end = T.obj[o].end
    BY <2>4 DEF Object
  <2> HIDE DEF x0
  <2>7. b \in [Obj -> Object] /\ b[o] = x0 /\ \A x \in Obj \ {o} : b[x] = T.obj[x]
    BY <2>3, <2>4, <2>6
  <2> HIDE DEF V, b
  <2>8. V \in Tables /\ V.fd = T.fd /\ V.obj = b /\ V.pipe = T.pipe
    BY <2>4, <2>5, <2>7, FieldTypes, TablesFrom
  <2>9. /\ \A x \in Obj \ {o} : V.obj[x] = T.obj[x]
        /\ V.obj[o].type = "FILE" /\ V.obj[o].refs = 0 /\ V.obj[o].pipe = None /\ V.obj[o].end = "-"
    BY <2>3, <2>6, <2>7, <2>8 DEF InOrder, Endpoints
  <2>10. \A q \in Task, h \in Fd : T.fd[q][h].obj # o
    BY <2>3, NoneLeft DEF InOrder, Counted
  <2>11. ASSUME NEW q \in Task, NEW h \in Fd, T.fd[q][h].obj # None
         PROVE  V.obj[T.fd[q][h].obj] = T.obj[T.fd[q][h].obj]
    <3>1. T.fd[q][h].obj \in Obj \ {o}
      BY <2>4, <2>10, <2>11 DEF Slot
    <3> QED BY <2>9, <3>1
  <2>12. Spares(T, V, p) /\ SlotsInUse(V)
    BY <2>8, <2>11 DEF Spares, SameEnd, IsOpen, InOrder, SlotsInUse
  <2>13. Counted(V)
    <3>1. ASSUME NEW x \in Obj PROVE RefsTo(V, x) = RefsTo(T, x) /\ V.obj[x].refs = T.obj[x].refs
      BY <2>3, <2>8, <2>9 DEF RefsTo
    <3> QED BY <3>1 DEF InOrder, Counted
  <2>14. Endpoints(V) /\ Rings(V)
    BY <2>8, <2>9 DEF InOrder, Endpoints, Rings
  <2>15. EndsApart(V)
    <3> SUFFICES ASSUME NEW x \in Obj, NEW y \in Obj, V.obj[x].type = "PIPE", y # x
                 PROVE  V.obj[y].pipe # V.obj[x].pipe \/ V.obj[y].end # V.obj[x].end
      BY DEF EndsApart
    <3>1. x # o /\ V.obj[x] = T.obj[x]
      BY <2>9
    <3>2. CASE y = o
      BY <2>9, <2>14, <3>2 DEF Endpoints
    <3>3. CASE y # o
      BY <2>9, <3>1, <3>3 DEF InOrder, EndsApart
    <3> QED BY <3>2, <3>3
  <2>16. InOrder(V) /\ ~IsOpen(V, p, f) /\ Fits(V, o, fl)
    BY <2>2, <2>8, <2>9, <2>12, <2>13, <2>14, <2>15 DEF InOrder, IsOpen, Fits
  <2>17. InOrder(U) /\ U.pipe = V.pipe /\ Spares(V, U, p)
    BY <2>2, <2>3, <2>16, AttachKeeps
  <2>18. Spares(T, U, p)
    BY <2>12, <2>17, SparesTransitive
  <2> QED BY <2>1, <2>8, <2>17, <2>18
<1> QED
  BY <1>1, <1>2

(***************************************************************************)
(* The transfer loops.                                                     *)
(***************************************************************************)
LEMMA LesserOfTwo ==
    ASSUME NEW a \in Nat, NEW b \in Nat
    PROVE  Min({a, b}) = IF a <= b THEN a ELSE b
<1> DEFINE S == {a, b}
<1>1. Min(S) \in S /\ \A x \in S : Min(S) <= x
  <2>1. S \in SUBSET Nat /\ S # {}
    OBVIOUS
  <2> HIDE DEF S
  <2> QED BY <2>1, MinIsMember
<1> QED
  BY <1>1

\* Two places less than a turn apart are different.
LEMMA PlacesDiffer ==
    ASSUME NEW a \in Index, NEW m \in 0 .. (PipeBufSize - 1), NEW n \in 0 .. (PipeBufSize - 1),
           Advance(a, m) = Advance(a, n)
    PROVE  m = n
<1>1. m \in 0 .. PipeBufSize /\ n \in 0 .. PipeBufSize
  BY Sizes
<1>2. /\ Advance(a, m) = IF a + m < PipeBufSize THEN a + m ELSE a + m - PipeBufSize
      /\ Advance(a, n) = IF a + n < PipeBufSize THEN a + n ELSE a + n - PipeBufSize
  BY <1>1, Wraps
<1>3. PipeBufSize \in Nat /\ a \in Nat /\ m \in Nat /\ n \in Nat /\ m < PipeBufSize /\ n < PipeBufSize
  BY Sizes DEF Index
<1> DEFINE x == IF a + m < PipeBufSize THEN a + m ELSE a + m - PipeBufSize
           y == IF a + n < PipeBufSize THEN a + n ELSE a + n - PipeBufSize
<1>4. x = y
  BY <1>2
<1> QED
  BY <1>3, <1>4

\* Advancing twice.
LEMMA AdvanceTwice ==
    ASSUME NEW a \in Index, NEW m \in 0 .. PipeBufSize, NEW n \in 0 .. PipeBufSize, m + n <= PipeBufSize
    PROVE  Advance(Advance(a, m), n) = Advance(a, m + n)
<1>1. m + n \in 0 .. PipeBufSize
  BY Sizes
<1>2. /\ Advance(a, m) \in Index
      /\ Advance(a, m) = IF a + m < PipeBufSize THEN a + m ELSE a + m - PipeBufSize
  BY Wraps
<1>3. Advance(a, m + n) = IF a + (m + n) < PipeBufSize THEN a + (m + n) ELSE a + (m + n) - PipeBufSize
  BY <1>1, Wraps
<1>4. Advance(Advance(a, m), n) = IF Advance(a, m) + n < PipeBufSize THEN Advance(a, m) + n
                                  ELSE Advance(a, m) + n - PipeBufSize
  BY <1>2, Wraps
<1> QED
  BY <1>2, <1>3, <1>4, Sizes DEF Index

\* A step that only changes the indices, the count and the bytes of pipe k.
Transfers(T, U, k) ==
    /\ U \in Tables /\ U.fd = T.fd /\ U.obj = T.obj
    /\ \A j \in Pipe : j # k => U.pipe[j] = T.pipe[j]
    /\ U.pipe[k].ends = T.pipe[k].ends /\ U.pipe[k].ends # {}
    /\ U.pipe[k].head = Advance(U.pipe[k].tail, U.pipe[k].count)

LEMMA TransferKeeps ==
    ASSUME NEW T, InOrder(T), NEW U, NEW k \in Pipe, Transfers(T, U, k)
    PROVE  InOrder(U) /\ \A x \in Task : Spares(T, U, x)
<1>1. \A j \in Pipe : U.pipe[j].ends = T.pipe[j].ends
  BY DEF Transfers
<1>2. Counted(U)
  <2>1. ASSUME NEW x \in Obj PROVE RefsTo(U, x) = RefsTo(T, x)
    BY DEF RefsTo, Transfers
  <2> QED BY <2>1 DEF InOrder, Counted, Transfers
<1>3. Endpoints(U)
  <2>1. T.obj \in [Obj -> Object]
    BY FieldTypes DEF InOrder
  <2> SUFFICES ASSUME NEW o \in Obj, T.obj[o].type = "PIPE"
               PROVE  T.obj[o].end \in U.pipe[T.obj[o].pipe].ends
    BY DEF InOrder, Endpoints, Transfers
  <2>2. T.obj[o].pipe \in Pipe /\ T.obj[o].end \in T.pipe[T.obj[o].pipe].ends
    BY <2>1 DEF InOrder, Endpoints, Object
  <2> QED BY <1>1, <2>2
<1>4. EndsApart(U) /\ SlotsInUse(U)
  BY DEF InOrder, EndsApart, SlotsInUse, IsOpen, Transfers
<1>5. Rings(U)
  BY DEF InOrder, Rings, Transfers
<1>6. ASSUME NEW x \in Task PROVE Spares(T, U, x)
  BY DEF Spares, SameEnd, Transfers
<1> QED
  BY <1>2, <1>3, <1>4, <1>5, <1>6 DEF InOrder, Transfers

\* pipe_read takes m bytes from the tail.
LEMMA ReadEffect ==
    ASSUME NEW T, InOrder(T), NEW k \in Pipe, NEW n \in Nat \ {0},
           T.pipe[k].count > 0, T.pipe[k].ends # {}
    PROVE  LET U == ReadRing(T, k, n) IN
           /\ Transfers(T, U, k)
           /\ \E m \in 1 .. T.pipe[k].count : /\ U.pipe[k].tail = Advance(T.pipe[k].tail, m)
                                              /\ U.pipe[k].count = T.pipe[k].count - m
                                              /\ U.pipe[k].buf = T.pipe[k].buf
<1> DEFINE U == ReadRing(T, k, n)
           r == T.pipe[k]
           m == Min({n, r.count})
           q == [r EXCEPT !.tail = Advance(r.tail, m), !.count = r.count - m]
           w == IF m = 0 THEN T.wakes ELSE T.wakes \cup {[reason |-> "PIPE_WRITE", pipe |-> k, all |-> FALSE]}
           c == [T.pipe EXCEPT ![k] = q]
<1>1. T \in Tables /\ r \in Ring /\ T.pipe \in [Pipe -> Ring]
  BY FieldTypes DEF InOrder
<1>2. /\ r.ends \in SUBSET End /\ r.head \in Index /\ r.tail \in Index /\ r.count \in 0 .. PipeBufSize
      /\ r.buf \in [Index -> Byte] /\ r.head = Advance(r.tail, r.count)
  BY <1>1 DEF Ring, InOrder, Rings
<1>3. m \in 1 .. r.count
  <2>1. PipeBufSize \in Nat /\ r.count \in Nat /\ n \in Nat /\ r.count > 0
    BY <1>2, Sizes
  <2>2. m = IF n <= r.count THEN n ELSE r.count
    BY <2>1, LesserOfTwo
  <2> QED BY <2>1, <2>2
<1>4. U = [fd |-> T.fd, obj |-> T.obj, pipe |-> c, wakes |-> w]
  <2>2. U = [T EXCEPT !.pipe[k] = q, !.wakes = w]
    BY Zenon DEF ReadRing
  <2> HIDE DEF U, q, w
  <2> QED BY <1>1, <2>2, FieldTypes DEF Tables
<1> HIDE DEF m
<1>5. m \in 0 .. PipeBufSize /\ Advance(r.tail, m) \in Index /\ r.count - m \in 0 .. PipeBufSize
  <2>1. PipeBufSize \in Nat
    BY Sizes
  <2>2. m \in 0 .. PipeBufSize /\ r.count - m \in 0 .. PipeBufSize
    BY <1>2, <1>3, <2>1
  <2> QED BY <1>2, <2>2, Wraps
<1>6. /\ q \in Ring /\ q.ends = r.ends /\ q.head = r.head /\ q.tail = Advance(r.tail, m)
      /\ q.count = r.count - m /\ q.buf = r.buf
  <2> DEFINE t == Advance(r.tail, m)
             d == r.count - m
  <2>1. q = [r EXCEPT !.tail = t, !.count = d]
    OBVIOUS
  <2>2. t \in Index /\ d \in 0 .. PipeBufSize
    BY <1>5
  <2> HIDE DEF t, d, r, q
  <2>3. q \in Ring /\ q.ends = r.ends /\ q.head = r.head /\ q.tail = t /\ q.count = d /\ q.buf = r.buf
    BY <1>1, <2>1, <2>2 DEF Ring
  <2> QED BY <2>3 DEF t, d
<1>7. w \in SUBSET WakeReq
  <2>1. [reason |-> "PIPE_WRITE", pipe |-> k, all |-> FALSE] \in WakeReq
    BY DEF WakeReq
  <2> QED BY <1>1, <2>1, FieldTypes
<1> HIDE DEF q, w
<1>8. c \in [Pipe -> Ring] /\ c[k] = q /\ \A j \in Pipe : j # k => c[j] = T.pipe[j]
  BY <1>1, <1>6
<1> HIDE DEF c, U
<1>9. U \in Tables
  BY <1>1, <1>4, <1>7, <1>8, FieldTypes, TablesFrom
<1>10. U.fd = T.fd /\ U.obj = T.obj /\ U.pipe = c
  BY <1>4
<1>11. q.head = Advance(q.tail, q.count)
  <2>1. m + (r.count - m) = r.count /\ r.count <= PipeBufSize
    BY <1>2, <1>3, Sizes
  <2>2. Advance(Advance(r.tail, m), r.count - m) = Advance(r.tail, m + (r.count - m))
    BY <1>2, <1>5, <2>1, AdvanceTwice
  <2> QED BY <1>2, <1>6, <2>1, <2>2
<1>12. Transfers(T, U, k)
  BY <1>6, <1>8, <1>9, <1>10, <1>11 DEF Transfers
<1> QED
  BY <1>3, <1>6, <1>8, <1>10, <1>12 DEF U

\* pipe_write puts the first m bytes at the head.
LEMMA WriteEffect ==
    ASSUME NEW T, InOrder(T), NEW k \in Pipe, NEW s \in Seq(Byte), s # << >>,
           T.pipe[k].count # PipeBufSize, T.pipe[k].ends # {}
    PROVE  LET U == WriteRing(T, k, s)
               r == T.pipe[k] IN
           /\ Transfers(T, U, k)
           /\ \E m \in 1 .. (PipeBufSize - r.count) :
                 /\ m <= Len(s)
                 /\ U.pipe[k].tail = r.tail /\ U.pipe[k].count = r.count + m
                 /\ \A j \in 1 .. m : U.pipe[k].buf[Advance(r.head, j - 1)] = s[j]
                 /\ \A i \in Index : (\A j \in 1 .. m : i # Advance(r.head, j - 1)) =>
                                        U.pipe[k].buf[i] = r.buf[i]
<1> DEFINE U == WriteRing(T, k, s)
           r == T.pipe[k]
           m == Min({Len(s), Room(r)})
           buf == [i \in Index |-> IF \E j \in 1 .. m : i = Advance(r.head, j - 1)
                                   THEN s[CHOOSE j \in 1 .. m : i = Advance(r.head, j - 1)]
                                   ELSE r.buf[i]]
           q == [r EXCEPT !.head = Advance(r.head, m), !.count = r.count + m, !.buf = buf]
           w == IF m = 0 THEN T.wakes ELSE T.wakes \cup {[reason |-> "PIPE_READ", pipe |-> k, all |-> FALSE]}
           c == [T.pipe EXCEPT ![k] = q]
<1>1. T \in Tables /\ r \in Ring /\ T.pipe \in [Pipe -> Ring]
  BY FieldTypes DEF InOrder
<1>2. /\ r.ends \in SUBSET End /\ r.head \in Index /\ r.tail \in Index /\ r.count \in 0 .. PipeBufSize
      /\ r.buf \in [Index -> Byte] /\ r.head = Advance(r.tail, r.count)
  BY <1>1 DEF Ring, InOrder, Rings
<1>3. m \in 1 .. (PipeBufSize - r.count) /\ m <= Len(s) /\ Len(s) \in Nat
  <2>1. PipeBufSize \in Nat /\ r.count \in Nat /\ r.count < PipeBufSize
    BY <1>2, Sizes
  <2>2. Room(r) \in Nat /\ Room(r) = PipeBufSize - r.count /\ Room(r) > 0
    BY <2>1 DEF Room
  <2>3. Len(s) \in Nat /\ Len(s) > 0
    BY LenProperties, EmptySeq
  <2>4. m = IF Len(s) <= Room(r) THEN Len(s) ELSE Room(r)
    BY <2>2, <2>3, LesserOfTwo
  <2> QED BY <2>1, <2>2, <2>3, <2>4
<1>4. U = [fd |-> T.fd, obj |-> T.obj, pipe |-> c, wakes |-> w]
  <2>1. U = [T EXCEPT !.pipe[k] = q, !.wakes = w]
    BY DEF WriteRing
  <2> HIDE DEF U, q, w
  <2> QED BY <1>1, <2>1, FieldTypes DEF Tables
<1> HIDE DEF m
<1>5. /\ m \in 0 .. PipeBufSize /\ Advance(r.head, m) \in Index /\ r.count + m \in 0 .. PipeBufSize
      /\ \A j \in 1 .. m : j - 1 \in 0 .. (PipeBufSize - 1)
      /\ \A j \in 1 .. m : Advance(r.head, j - 1) \in Index
  <2>1. PipeBufSize \in Nat
    BY Sizes
  <2>2. m \in 0 .. PipeBufSize /\ r.count + m \in 0 .. PipeBufSize
    BY <1>2, <1>3, <2>1
  <2>3. ASSUME NEW j \in 1 .. m PROVE j - 1 \in 0 .. (PipeBufSize - 1) /\ j - 1 \in 0 .. PipeBufSize
    BY <2>1, <2>2
  <2> QED BY <1>2, <2>2, <2>3, Wraps
<1>6. \A j \in 1 .. m : s[j] \in Byte
  BY <1>3, ElementOfSeq
<1>7. ASSUME NEW i \in Index, NEW j \in 1 .. m, i = Advance(r.head, j - 1)
      PROVE  buf[i] = s[j]
  <2> DEFINE jj == CHOOSE j1 \in 1 .. m : i = Advance(r.head, j1 - 1)
  <2>1. jj \in 1 .. m /\ i = Advance(r.head, jj - 1)
    BY <1>7
  <2>2. buf[i] = s[jj]
    BY <1>7
  <2> HIDE DEF jj
  <2>3. jj - 1 = j - 1
    BY <1>2, <1>5, <1>7, <2>1, PlacesDiffer
  <2>4. jj = j
    BY <1>3, <2>1, <2>3
  <2> QED BY <2>2, <2>4
<1>8. \A i \in Index : (\A j \in 1 .. m : i # Advance(r.head, j - 1)) => buf[i] = r.buf[i]
  OBVIOUS
<1>9. buf \in [Index -> Byte]
  <2>1. ASSUME NEW i \in Index PROVE buf[i] \in Byte
    <3>1. CASE \E j \in 1 .. m : i = Advance(r.head, j - 1)
      <4>1. PICK j \in 1 .. m : i = Advance(r.head, j - 1)
        BY <3>1
      <4> HIDE DEF buf
      <4> QED BY <1>6, <1>7, <4>1
    <3>2. CASE ~ \E j \in 1 .. m : i = Advance(r.head, j - 1)
      <4>1. buf[i] = r.buf[i]
        BY <1>8, <3>2
      <4> HIDE DEF buf
      <4> QED BY <1>2, <4>1
    <3> QED BY <3>1, <3>2
  <2>2. buf = [i \in Index |-> buf[i]]
    OBVIOUS
  <2> HIDE DEF buf
  <2> QED BY <2>1, <2>2
<1> HIDE DEF buf
<1>10. /\ q \in Ring /\ q.ends = r.ends /\ q.head = Advance(r.head, m) /\ q.tail = r.tail
       /\ q.count = r.count + m /\ q.buf = buf
  <2> DEFINE t == Advance(r.head, m)
             d == r.count + m
  <2>1. q = [r EXCEPT !.head = t, !.count = d, !.buf = buf]
    OBVIOUS
  <2>2. t \in Index /\ d \in 0 .. PipeBufSize
    BY <1>5
  <2> HIDE DEF t, d, r, q
  <2>3. q \in Ring /\ q.ends = r.ends /\ q.head = t /\ q.tail = r.tail /\ q.count = d /\ q.buf = buf
    BY <1>1, <1>9, <2>1, <2>2 DEF Ring
  <2> QED BY <2>3 DEF t, d
<1>11. w \in SUBSET WakeReq
  <2>1. [reason |-> "PIPE_READ", pipe |-> k, all |-> FALSE] \in WakeReq
    BY DEF WakeReq
  <2> QED BY <1>1, <2>1, FieldTypes
<1> HIDE DEF q, w
<1>12. c \in [Pipe -> Ring] /\ c[k] = q /\ \A j \in Pipe : j # k => c[j] = T.pipe[j]
  BY <1>1, <1>10
<1> HIDE DEF c, U
<1>13. U \in Tables
  BY <1>1, <1>4, <1>11, <1>12, FieldTypes, TablesFrom
<1>14. U.fd = T.fd /\ U.obj = T.obj /\ U.pipe = c
  BY <1>4
<1>15. q.head = Advance(q.tail, q.count)
  <2>1. PipeBufSize \in Nat /\ r.count + m <= PipeBufSize
    BY <1>5, Sizes
  <2>2. Advance(Advance(r.tail, r.count), m) = Advance(r.tail, r.count + m)
    BY <1>2, <1>5, <2>1, AdvanceTwice
  <2> QED BY <1>2, <1>10, <2>2
<1>16. Transfers(T, U, k)
  BY <1>10, <1>12, <1>13, <1>14, <1>15 DEF Transfers
<1>17. \A j \in 1 .. m : U.pipe[k].buf[Advance(r.head, j - 1)] = s[j]
  BY <1>5, <1>7, <1>10, <1>12, <1>14
<1>18. \A i \in Index : (\A j \in 1 .. m : i # Advance(r.head, j - 1)) => U.pipe[k].buf[i] = r.buf[i]
  BY <1>8, <1>10, <1>12, <1>14
<1>19. U.pipe[k].tail = r.tail /\ U.pipe[k].count = r.count + m
  BY <1>10, <1>12, <1>14
<1> QED
  BY <1>3, <1>16, <1>17, <1>18, <1>19 DEF U

(***************************************************************************)
(* The tables at boot.                                                     *)
(***************************************************************************)
LEMMA BetweenKeeps ==
    ASSUME NEW T, InOrder(T), NEW x \in Task, NEW y \in Task, x # y, NEW f \in Fd,
           ~IsOpen(T, x, f), ~IsOpen(T, y, f), FreeObjs(T) \ {PairRead(T)} # {}, FreePipes(T) # {}
    PROVE  LET U == PipeBetween(T, x, y, f) IN
           /\ InOrder(U)
           /\ \E k \in FreePipes(T) : /\ U.pipe[k].ends = End /\ U.pipe[k].count = 0
                                      /\ \A j \in Pipe : j # k => U.pipe[j] = T.pipe[j]
           /\ \A o \in Obj : o # PairRead(T) /\ o # PairWrite(T) => SameEnd(T, U, o)
           /\ \A q \in Task, h \in Fd : h # f \/ q \notin {x, y} => U.fd[q][h] = T.fd[q][h]
<1> DEFINE r == PairRead(T)
           w == PairWrite(T)
           A == AllocPair(T)
           k == Min(FreePipes(T))
           B == Attach(A, x, f, r, {"R"})
           U == Attach(B, y, f, w, {"W"})
<1>1. A \in Tables /\ Paired(T, A, r, w, k)
  BY AllocEffect DEF InOrder
<1>2. PipeBetween(T, x, y, f) = U
  BY DEF PipeBetween
<1> HIDE DEF A, r, w, k
<1>3. InOrder(A)
  BY <1>1, PairedKeeps
<1>4. ~IsOpen(A, x, f) /\ Fits(A, r, {"R"}) /\ Fits(A, w, {"W"}) /\ r \in Obj /\ w \in Obj /\ r # w
  BY <1>1 DEF IsOpen, Paired, Unused, Fits, End
<1>5. /\ InOrder(B) /\ B.pipe = A.pipe /\ (\A o \in Obj : SameEnd(A, B, o))
      /\ \A q \in Task, h \in Fd : q # x \/ h # f => B.fd[q][h] = A.fd[q][h]
  BY <1>3, <1>4, AttachKeeps
<1> HIDE DEF B
<1>6. ~IsOpen(B, y, f) /\ Fits(B, w, {"W"})
  BY <1>1, <1>4, <1>5 DEF IsOpen, Paired, Unused, Fits, SameEnd
<1>7. /\ InOrder(U) /\ U.pipe = B.pipe /\ (\A o \in Obj : SameEnd(B, U, o))
      /\ \A q \in Task, h \in Fd : q # y \/ h # f => U.fd[q][h] = B.fd[q][h]
  BY <1>4, <1>5, <1>6, AttachKeeps
<1> HIDE DEF U
<1>8. k \in FreePipes(T) /\ U.pipe[k].ends = End /\ U.pipe[k].count = 0 /\ \A j \in Pipe : j # k => U.pipe[j] = T.pipe[j]
  BY <1>1, <1>5, <1>7 DEF Paired, Unused
<1>9. \A o \in Obj : o # r /\ o # w => SameEnd(T, U, o)
  BY <1>1, <1>5, <1>7 DEF Paired, SameEnd
<1>10. \A q \in Task, h \in Fd : h # f \/ q \notin {x, y} => U.fd[q][h] = T.fd[q][h]
  BY <1>1, <1>5, <1>7 DEF Paired
<1> QED
  BY <1>2, <1>7, <1>8, <1>9, <1>10 DEF r, w

\* An object that is not in use is free.
LEMMA NotInUse ==
    ASSUME NEW T, InOrder(T), NEW o \in Obj, T.obj[o].type = "NONE"
    PROVE  o \in FreeObjs(T)
<1>1. ASSUME NEW p \in Task, NEW f \in Fd PROVE T.fd[p][f].obj # o
  <2>1. o # None
    BY Sizes
  <2> QED BY <2>1 DEF InOrder, SlotsInUse, IsOpen
<1>2. RefsTo(T, o) = {}
  BY <1>1 DEF RefsTo
<1>3. T.obj[o].refs = 0
  BY <1>2, FS_EmptySet DEF InOrder, Counted
<1> QED
  BY <1>3 DEF FreeObjs

Standard(boot) ==
    [fd   |-> [p \in Task |-> [f \in Fd |->
                 IF p \in boot /\ f < Consoles
                 THEN [obj |-> f, flags |-> ConsoleFlags(f)] ELSE NoSlot]],
     obj  |-> [o \in Obj |-> IF o < Consoles
                 THEN [NoObj EXCEPT !.type = "DEVICE", !.refs = Cardinality(boot)]
                 ELSE NoObj],
     pipe |-> [k \in Pipe |-> [ends |-> {}, head |-> 0, tail |-> 0, count |-> 0,
                               buf |-> [i \in Index |-> Min(Byte)]]],
     wakes |-> {}]

LEMMA StandardInOrder ==
    ASSUME NEW boot \in SUBSET Task
    PROVE  LET T == Standard(boot) IN
           /\ InOrder(T)
           /\ \A k \in Pipe : T.pipe[k].ends = {} /\ T.pipe[k].count = 0
           /\ \A o \in Obj : o >= Consoles => T.obj[o].type = "NONE"
           /\ \A p \in Task, f \in Fd : p \notin boot \/ f >= Consoles => ~IsOpen(T, p, f)
<1> DEFINE T == Standard(boot)
           con(f) == [obj |-> f, flags |-> ConsoleFlags(f)]
           dev == [NoObj EXCEPT !.type = "DEVICE", !.refs = Cardinality(boot)]
           ring == [ends |-> {}, head |-> 0, tail |-> 0, count |-> 0, buf |-> [i \in Index |-> Min(Byte)]]
<1>1. Consoles \in Nat \ {0} /\ Consoles <= MaxFds /\ Consoles <= OpenMax /\ MaxFds \in Nat /\ OpenMax \in Nat
  BY DescriptorsAssumption
<1>2. IsFiniteSet(boot) /\ Cardinality(boot) \in Nat
  <2>1. IsFiniteSet(Task)
    BY FS_Interval, MaxProcsAssumption DEF Task
  <2> QED BY <2>1, FS_Subset, FS_CardinalityType
<1>3. dev \in Object /\ dev.type = "DEVICE" /\ dev.refs = Cardinality(boot) /\ dev.pipe = None /\ dev.end = "-"
  <2>1. NoObj \in Object
    BY DEF NoObj, Object
  <2> QED BY <1>2, <2>1 DEF NoObj, Object
<1>4. NoObj \in Object /\ NoObj.type = "NONE" /\ NoObj.refs = 0 /\ NoObj.pipe = None /\ NoObj.end = "-"
  BY DEF NoObj, Object
<1>5. /\ ring \in Ring /\ ring.ends = {} /\ ring.count = 0 /\ ring.head = 0 /\ ring.tail = 0
  <2>1. 0 \in Index /\ 0 \in 0 .. PipeBufSize
    BY Sizes
  <2>2. Min(Byte) \in Byte
    BY DescriptorsAssumption, MinIsMember
  <2> QED BY <2>1, <2>2 DEF Ring
<1>6. ASSUME NEW f \in Fd, f < Consoles
      PROVE  con(f) \in Slot /\ con(f).obj = f /\ f \in Obj /\ f # None
  <2>1. f \in Obj
    BY <1>1, <1>6 DEF Fd, Obj
  <2> QED BY <2>1, Sizes DEF Slot, ConsoleFlags, End
<1>7. NoSlot \in Slot /\ NoSlot.obj = None
  BY DEF NoSlot, Slot
<1> HIDE DEF dev, ring, con
<1>8. /\ T.fd = [p \in Task |-> [f \in Fd |-> IF p \in boot /\ f < Consoles THEN con(f) ELSE NoSlot]]
      /\ T.obj = [o \in Obj |-> IF o < Consoles THEN dev ELSE NoObj]
      /\ T.pipe = [k \in Pipe |-> ring]
      /\ T.wakes = {}
      /\ T = [fd |-> T.fd, obj |-> T.obj, pipe |-> T.pipe, wakes |-> T.wakes]
  BY DEF Standard, dev, ring, con
<1> HIDE DEF T
<1>9. T \in Tables
  <2>1. T.fd \in [Task -> [Fd -> Slot]]
    BY <1>6, <1>7, <1>8
  <2>2. T.obj \in [Obj -> Object] /\ T.pipe \in [Pipe -> Ring] /\ T.wakes \in SUBSET WakeReq
    BY <1>3, <1>4, <1>5, <1>8
  <2> QED BY <1>8, <2>1, <2>2, TablesFrom
<1>10. /\ \A p \in Task, f \in Fd : T.fd[p][f] = IF p \in boot /\ f < Consoles THEN con(f) ELSE NoSlot
       /\ \A o \in Obj : T.obj[o] = IF o < Consoles THEN dev ELSE NoObj
       /\ \A k \in Pipe : T.pipe[k] = ring
  BY <1>8
<1>11. \A p \in Task, f \in Fd : T.fd[p][f].obj = IF p \in boot /\ f < Consoles THEN f ELSE None
  BY <1>6, <1>7, <1>10
<1>12. Counted(T)
  <2>1. ASSUME NEW o \in Obj, o < Consoles PROVE T.obj[o].refs = Cardinality(RefsTo(T, o))
    <3>1. o \in Fd /\ o # None
      BY <1>1, <2>1, Sizes DEF Obj, Fd
    <3>2. RefsTo(T, o) = boot \X {o}
      BY <1>11, <2>1, <3>1 DEF RefsTo
    <3>3. IsFiniteSet({o}) /\ Cardinality({o}) = 1
      BY FS_Singleton
    <3>4. Cardinality(boot \X {o}) = Cardinality(boot) * Cardinality({o})
      BY <1>2, <3>3, FS_Product
    <3>5. Cardinality(RefsTo(T, o)) = Cardinality(boot)
      BY <1>2, <3>2, <3>3, <3>4
    <3> QED BY <1>3, <1>10, <2>1, <3>5
  <2>2. ASSUME NEW o \in Obj, ~(o < Consoles) PROVE T.obj[o].refs = Cardinality(RefsTo(T, o))
    <3>1. RefsTo(T, o) = {}
      BY <1>11, <2>2, Sizes DEF RefsTo
    <3> QED BY <1>4, <1>10, <2>2, <3>1, FS_EmptySet
  <2> QED BY <2>1, <2>2 DEF Counted
<1>13. Endpoints(T) /\ EndsApart(T)
  BY <1>3, <1>4, <1>10 DEF Endpoints, EndsApart
<1>14. SlotsInUse(T)
  <2> SUFFICES ASSUME NEW p \in Task, NEW f \in Fd, T.fd[p][f].obj # None
               PROVE  T.obj[T.fd[p][f].obj].type = "DEVICE"
    BY DEF SlotsInUse, IsOpen
  <2>1. f < Consoles /\ T.fd[p][f].obj = f /\ f \in Obj
    BY <1>6, <1>11
  <2> QED BY <1>3, <1>10, <2>1
<1>15. Rings(T)
  <2>1. Advance(0, 0) = 0
    BY Sizes, Wraps DEF Index
  <2> QED BY <1>5, <1>10, <2>1 DEF Rings
<1>16. \A k \in Pipe : T.pipe[k].ends = {} /\ T.pipe[k].count = 0
  BY <1>5, <1>10
<1>17. \A o \in Obj : o >= Consoles => T.obj[o].type = "NONE"
  BY <1>1, <1>4, <1>10, Sizes
<1>18. \A p \in Task, f \in Fd : p \notin boot \/ f >= Consoles => ~IsOpen(T, p, f)
  BY <1>1, <1>11, Sizes DEF IsOpen
<1> QED
  BY <1>9, <1>12, <1>13, <1>14, <1>15, <1>16, <1>17, <1>18 DEF InOrder, T

\* The first two of four free objects are the ones a pair takes.
LEMMA TwoFree ==
    ASSUME NEW T, NEW c \in Nat, c \in FreeObjs(T), c + 1 \in FreeObjs(T)
    PROVE  FreeObjs(T) \ {PairRead(T)} # {} /\ PairRead(T) <= c /\ PairWrite(T) <= c + 1
<1> DEFINE F == FreeObjs(T)
           r == PairRead(T)
<1>1. F \in SUBSET Nat /\ F # {}
  BY Sizes DEF FreeObjs
<1>2. r \in F /\ \A x \in F : r <= x
  <2> HIDE DEF F
  <2> QED BY <1>1, MinIsMember DEF PairRead, F
<1> HIDE DEF F, r
<1>3. \E x \in {c, c + 1} : x \in F \ {r}
  BY DEF F
<1>4. PairWrite(T) = Min(F \ {r})
  BY DEF PairWrite, F, r
<1>5. F \ {r} \in SUBSET Nat /\ F \ {r} # {}
  BY <1>1, <1>3
<1>6. Min(F \ {r}) \in F \ {r} /\ \A x \in F \ {r} : Min(F \ {r}) <= x
  BY <1>5, MinIsMember
<1>7. r <= c
  BY <1>2 DEF F
<1>8. PairWrite(T) <= c + 1
  <2>1. PICK x \in {c, c + 1} : x \in F \ {r}
    BY <1>3
  <2>2. PairWrite(T) \in Nat /\ PairWrite(T) <= x /\ x <= c + 1 /\ x \in Nat
    BY <1>4, <1>5, <1>6, <2>1
  <2> QED BY <2>2
<1> QED
  BY <1>5, <1>7, <1>8 DEF F, r

LEMMA BootInOrder ==
    ASSUME NEW boot \in SUBSET Task, BootPipes > 0 => {1, 2} \subseteq boot
    PROVE  LET U == BootTables(boot) IN
           /\ InOrder(U)
           /\ \A k \in Pipe : U.pipe[k].ends \in {{}, End} /\ U.pipe[k].count = 0
           /\ \A p \in Task, f \in Fd : p \notin boot => ~IsOpen(U, p, f)
<1> DEFINE S == Standard(boot)
           a == PipeBetween(S, 2, 1, Consoles)
           b == PipeBetween(a, 1, 2, Consoles + 1)
           U == BootTables(boot)
<1>1. /\ Consoles \in Nat /\ BootPipes \in 0 .. 2 /\ Consoles + BootPipes <= MaxFds /\ MaxFds \in Nat
      /\ BootPipes <= MaxPipes /\ Consoles + 2 * BootPipes <= OpenMax /\ OpenMax \in Nat /\ MaxPipes \in Nat
  BY DescriptorsAssumption
<1>2. /\ InOrder(S)
      /\ \A k \in Pipe : S.pipe[k].ends = {} /\ S.pipe[k].count = 0
      /\ \A o \in Obj : o >= Consoles => S.obj[o].type = "NONE"
      /\ \A p \in Task, f \in Fd : p \notin boot \/ f >= Consoles => ~IsOpen(S, p, f)
  BY StandardInOrder
<1>3. /\ BootPipes = 0 => U = S
      /\ BootPipes = 1 => U = a
      /\ BootPipes = 2 => U = b
  BY <1>1 DEF BootTables, Standard
<1> HIDE DEF S, U
<1>4. CASE BootPipes = 0
  BY <1>2, <1>3, <1>4 DEF U
<1>5. CASE BootPipes # 0
  <2>1. 1 \in boot /\ 2 \in boot /\ 1 \in Task /\ 2 \in Task /\ Consoles \in Fd
    BY <1>1, <1>5 DEF Fd
  <2>2. Consoles \in Obj /\ Consoles + 1 \in Obj
    BY <1>1, <1>5 DEF Obj
  <2>3. Consoles \in FreeObjs(S) /\ Consoles + 1 \in FreeObjs(S)
    BY <1>1, <1>2, <2>2, NotInUse
  <2>4. FreeObjs(S) \ {PairRead(S)} # {} /\ PairRead(S) <= Consoles /\ PairWrite(S) <= Consoles + 1
    BY <1>1, <2>3, TwoFree
  <2>5. FreePipes(S) = Pipe /\ 0 \in Pipe
    BY <1>2, Sizes DEF FreePipes
  <2>6. ~IsOpen(S, 1, Consoles) /\ ~IsOpen(S, 2, Consoles)
    BY <1>1, <1>2, <2>1
  <2>7. /\ InOrder(a)
        /\ \E k \in FreePipes(S) : /\ a.pipe[k].ends = End /\ a.pipe[k].count = 0
                                   /\ \A j \in Pipe : j # k => a.pipe[j] = S.pipe[j]
        /\ \A o \in Obj : o # PairRead(S) /\ o # PairWrite(S) => SameEnd(S, a, o)
        /\ \A q \in Task, h \in Fd : h # Consoles \/ q \notin {2, 1} => a.fd[q][h] = S.fd[q][h]
    BY <1>2, <2>1, <2>4, <2>5, <2>6, BetweenKeeps
  <2> HIDE DEF a
  <2>8. PICK k \in Pipe : /\ a.pipe[k].ends = End /\ a.pipe[k].count = 0
                          /\ \A j \in Pipe : j # k => a.pipe[j] = S.pipe[j]
    BY <2>5, <2>7
  <2>9. \A j \in Pipe : a.pipe[j].ends \in {{}, End} /\ a.pipe[j].count = 0
    BY <1>2, <2>8
  <2>10. \A q \in Task, h \in Fd : q \notin boot => ~IsOpen(a, q, h)
    BY <1>2, <2>1, <2>7 DEF IsOpen
  <2>11. CASE BootPipes = 1
    BY <1>3, <2>7, <2>9, <2>10, <2>11 DEF U
  <2>12. CASE BootPipes = 2
    <3>1. Consoles + 1 \in Fd /\ Consoles + 2 \in Obj /\ Consoles + 3 \in Obj
      BY <1>1, <2>12 DEF Fd, Obj
    <3>2. \A o \in {Consoles + 2, Consoles + 3} : o # PairRead(S) /\ o # PairWrite(S)
      BY <1>1, <2>4
    <3>3. Consoles + 2 \in FreeObjs(a) /\ Consoles + 2 + 1 \in FreeObjs(a)
      <4>1. S.obj[Consoles + 2].type = "NONE" /\ S.obj[Consoles + 3].type = "NONE"
        BY <1>1, <1>2, <3>1
      <4>2. a.obj[Consoles + 2].type = "NONE" /\ a.obj[Consoles + 3].type = "NONE"
        BY <2>7, <3>1, <3>2, <4>1 DEF SameEnd
      <4>3. Consoles + 2 + 1 = Consoles + 3
        BY <1>1
      <4> QED BY <2>7, <3>1, <4>2, <4>3, NotInUse
    <3>4. FreeObjs(a) \ {PairRead(a)} # {}
      <4>1. Consoles + 2 \in Nat
        BY <1>1
      <4> QED BY <3>3, <4>1, TwoFree
    <3>5. FreePipes(a) # {}
      <4>1. \E j \in Pipe : j # k
        <5>1. 0 \in Pipe /\ 1 \in Pipe
          BY <1>1, <2>12 DEF Pipe
        <5> QED BY <5>1
      <4> QED BY <1>2, <2>8, <4>1 DEF FreePipes
    <3>6. ~IsOpen(a, 1, Consoles + 1) /\ ~IsOpen(a, 2, Consoles + 1)
      <4>1. Consoles + 1 # Consoles /\ Consoles + 1 >= Consoles
        BY <1>1
      <4> QED BY <1>2, <2>1, <2>7, <3>1, <4>1 DEF IsOpen
    <3>7. /\ InOrder(b)
          /\ \E j \in FreePipes(a) : /\ b.pipe[j].ends = End /\ b.pipe[j].count = 0
                                     /\ \A i \in Pipe : i # j => b.pipe[i] = a.pipe[i]
          /\ \A q \in Task, h \in Fd : h # Consoles + 1 \/ q \notin {1, 2} => b.fd[q][h] = a.fd[q][h]
      BY <2>1, <2>7, <3>1, <3>4, <3>5, <3>6, BetweenKeeps
    <3> HIDE DEF b
    <3>8. \A j \in Pipe : b.pipe[j].ends \in {{}, End} /\ b.pipe[j].count = 0
      BY <2>9, <3>7
    <3>9. \A q \in Task, h \in Fd : q \notin boot => ~IsOpen(b, q, h)
      BY <2>1, <2>10, <3>7 DEF IsOpen
    <3> QED BY <1>3, <2>12, <3>7, <3>8, <3>9 DEF U
  <2> QED BY <1>1, <1>5, <2>11, <2>12
<1> QED
  BY <1>4, <1>5
=============================================================================
