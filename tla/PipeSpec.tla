------------------------------ MODULE PipeSpec ------------------------------
(***************************************************************************)
(* What the pipes of NEOX promise: each pipe in use is a bounded FIFO of   *)
(* bytes with a read end and a write end.  Bytes enter only while both     *)
(* ends are open, leave only at the front and only while the read end is   *)
(* open, and are thrown away only when the second end is closed.           *)
(***************************************************************************)
EXTENDS Integers, Sequences

CONSTANTS Pipe, PipeBufSize, Byte

VARIABLES ends,     \* the open ends of each pipe; {} for a free one
          queue     \* the bytes written and not yet read

Init == ends \in [Pipe -> {{}, {"R", "W"}}] /\ queue = [k \in Pipe |-> << >>]

Create(k) ==
    /\ ends[k] = {} /\ ends' = [ends EXCEPT ![k] = {"R", "W"}]
    /\ UNCHANGED queue

Put(k) ==
    /\ ends[k] = {"R", "W"}
    /\ \E m \in 1 .. (PipeBufSize - Len(queue[k])) : \E s \in [1 .. m -> Byte] :
          queue' = [queue EXCEPT ![k] = @ \o s]
    /\ UNCHANGED ends

Take(k) ==
    /\ "R" \in ends[k]
    /\ \E n \in 1 .. Len(queue[k]) :
          queue' = [queue EXCEPT ![k] = SubSeq(@, n + 1, Len(@))]
    /\ UNCHANGED ends

\* One call may close ends of several pipes (exit closes every descriptor).
Close ==
    \E left \in [Pipe -> SUBSET {"R", "W"}] :
       /\ \A k \in Pipe : left[k] \subseteq ends[k]
       /\ ends' = left
       /\ queue' = [k \in Pipe |-> IF left[k] = {} THEN << >> ELSE queue[k]]

Next == Close \/ \E k \in Pipe : Create(k) \/ Put(k) \/ Take(k)

Spec == Init /\ [][Next]_<<ends, queue>>
=============================================================================
