---------------------------- MODULE TimersProofs ----------------------------
(***************************************************************************)
(* For any number of sleepers, slots and clock values: a sleeper has the   *)
(* slot it waits for to itself, no sleep ends before its time, and a scan  *)
(* leaves nobody asleep whose time is over, as long as no SIG_KILL has     *)
(* written to the slot; and only a SIG_KILL ever does.                     *)
(***************************************************************************)
EXTENDS Timers, TLAPS

USE DEF None

\* The two-byte addition: the sum, or the sum less one turn of the counter.
LEMMA SumWraps ==
    ASSUME NEW a \in 0 .. Wrap - 1, NEW d \in 0 .. Wrap - 1
    PROVE  /\ (a + d) % Wrap \in 0 .. Wrap - 1
           /\ (a + d) % Wrap = IF a + d < Wrap THEN a + d ELSE a + d - Wrap
  BY TimersAssumption, SMTT(60)

\* The two-byte subtraction.
LEMMA DifferenceWraps ==
    ASSUME NEW a \in 0 .. Wrap - 1, NEW b \in 0 .. Wrap - 1
    PROVE  /\ (a - b) % Wrap \in 0 .. Wrap - 1
           /\ (a - b) % Wrap = IF a >= b THEN a - b ELSE a - b + Wrap
  BY TimersAssumption, SMTT(60)

States == {"run", "armed", "blocked", "dead"}

\* The slot a sleeper relies on.
Mine(p) == IF state[p] = "armed" THEN slot[p] ELSE object[p]

\* A sleep that is not over has its slot, and the slot's wake tick is right.
OnTime ==
    \A p \in Pids \ robbed : Asleep(p) /\ left[p] > 0 =>
        /\ Mine(p) \in Slots
        /\ timerPid[Mine(p)] = p
        /\ until[Mine(p)] = WakeTick(left[p])

\* wait_reason is WAIT_TIMER only while the process is blocked.
ObjectIsWait ==
    \A p \in Pids : object[p] \in Slots /\ state[p] # "dead" => state[p] = "blocked"

Inv == TypeOK /\ SleeperHasTimer /\ OnTime /\ ObjectIsWait

LEMMA SlotsAreBytes == \A s \in Slots : s \in Nat /\ s # None
  BY TimersAssumption

LEMMA PidsAreBytes == \A p \in Pids : p # None
  BY TimersAssumption

\* The expiry test never takes a sleep that is not over for an expired one.
LEMMA NotDue ==
    ASSUME TypeOK, OnTime, NEW p \in Pids \ robbed, Asleep(p), left[p] > 0
    PROVE  ~Expired(Mine(p))
  <1> DEFINE u == until[Mine(p)]
  <1>1. ticks \in 0 .. Wrap - 1 /\ left[p] \in 1 .. MaxSleep /\ left[p] \in 0 .. Wrap - 1
    BY TimersAssumption DEF TypeOK
  <1>2. u = (ticks + left[p]) % Wrap
    BY DEF OnTime, WakeTick
  <1>3. u \in 0 .. Wrap - 1 /\ u = IF ticks + left[p] < Wrap THEN ticks + left[p] ELSE ticks + left[p] - Wrap
    BY <1>1, <1>2, SumWraps
  <1>4. (ticks - u) % Wrap = IF ticks >= u THEN ticks - u ELSE ticks - u + Wrap
    BY <1>1, <1>3, DifferenceWraps
  <1>5. (ticks - u) % Wrap = Wrap - left[p]
    <2> HIDE DEF u
    <2> QED BY <1>1, <1>3, <1>4, TimersAssumption
  <1>6. ~(2 * ((ticks - u) % Wrap) < Wrap)
    <2> HIDE DEF u
    <2> QED BY <1>1, <1>5, TimersAssumption
  <1> QED BY <1>6 DEF Expired

\* Freeing slots keeps the types of the table.
LEMMA FreeType ==
    ASSUME TypeOK, NEW S \in SUBSET Slots, Free(S)
    PROVE  timerPid' \in [Slots -> Pids \cup {None}] /\ until' \in [Slots -> 0 .. Wrap - 1]
  <1>1. 0 \in 0 .. Wrap - 1
    BY TimersAssumption
  <1> QED BY <1>1 DEF TypeOK, Free

\* What a scan may start from: the state as it is, but for processes that have
\* just committed their wait.
ReadyToScan(st, obj) ==
    /\ st \in [Pids -> States] /\ obj \in [Pids -> Slots \cup {None}]
    /\ slot' \in [Pids -> Slots \cup {None}]
    /\ \A p \in Pids :
          \/ st[p] = state[p] /\ obj[p] = object[p] /\ slot'[p] = slot[p]
          \/ /\ state[p] = "armed" /\ st[p] = "blocked" /\ obj[p] = slot[p]
             /\ slot[p] \in Slots /\ timerPid[slot[p]] = p

\* Whoever is asleep after a scan was asleep before, on the same slot.
LEMMA StillAsleep ==
    ASSUME Inv, NEW st, NEW obj, ReadyToScan(st, obj), WakeTimers(st, obj),
           NEW p \in Pids, Asleep(p)'
    PROVE  /\ Asleep(p) /\ p \notin Woken(st, obj)
           /\ state'[p] = st[p] /\ object'[p] = obj[p]
           /\ Mine(p)' = Mine(p)
           /\ p \notin robbed' => p \notin robbed
  <1>1. p \notin Woken(st, obj) /\ state'[p] = st[p] /\ object'[p] = obj[p]
    BY DEF WakeTimers, Asleep
  <1>2. Asleep(p) /\ Mine(p)' = Mine(p)
    BY <1>1 DEF ReadyToScan, Asleep, Mine
  <1> QED BY <1>1, <1>2 DEF WakeTimers

\* The scan, whoever runs it.
LEMMA WakeKeepsInv ==
    ASSUME Inv, NEW st, NEW obj, ReadyToScan(st, obj), WakeTimers(st, obj),
           UNCHANGED <<ticks, kill, left>>
    PROVE  Inv'
  <1>1. Due \in SUBSET Slots
    BY DEF Due
  <1>2. timerPid' \in [Slots -> Pids \cup {None}] /\ until' \in [Slots -> 0 .. Wrap - 1]
    BY <1>1, FreeType DEF Inv, WakeTimers
  <1>3. /\ state' \in [Pids -> States] /\ object' \in [Pids -> Slots \cup {None}]
        /\ lag' \in 0 .. MaxLag /\ robbed' \subseteq Pids
    <2>1. state' \in [Pids -> States]
      BY DEF WakeTimers, ReadyToScan, States
    <2>2. object' \in [Pids -> Slots \cup {None}]
      BY DEF WakeTimers, ReadyToScan
    <2>3. lag' \in 0 .. MaxLag
      BY TimersAssumption DEF WakeTimers
    <2>4. robbed' \subseteq Pids
      BY DEF WakeTimers, Inv, TypeOK
    <2> QED BY <2>1, <2>2, <2>3, <2>4
  <1>4. \A p \in Pids : state'[p] = "armed" => slot'[p] \in Slots
    <2> SUFFICES ASSUME NEW p \in Pids, state'[p] = "armed" PROVE slot'[p] \in Slots
      OBVIOUS
    <2>1. st[p] = "armed"
      BY StillAsleep DEF Asleep
    <2> QED BY <2>1 DEF ReadyToScan, Inv, TypeOK
  <1>5. TypeOK'
    BY <1>2, <1>3, <1>4 DEF TypeOK, Inv, ReadyToScan, States, kill
  <1>6. SleeperHasTimer'
    <2> SUFFICES ASSUME NEW p \in Pids, p \notin robbed', state'[p] = "blocked"
                 PROVE  object'[p] \in Slots /\ timerPid'[object'[p]] = p
      BY DEF SleeperHasTimer
    <2>1. Asleep(p)'
      BY DEF Asleep
    <2>2. p \notin robbed /\ st[p] = "blocked" /\ object'[p] = obj[p] /\ p \notin Woken(st, obj)
      BY <2>1, StillAsleep
    <2>3. obj[p] \in Slots /\ timerPid[obj[p]] = p
      BY <2>2 DEF ReadyToScan, Inv, SleeperHasTimer
    <2>4. obj[p] \notin Due
      BY <2>2, <2>3 DEF Woken, SleepsOn
    <2> QED BY <2>2, <2>3, <2>4 DEF WakeTimers, Free
  <1>7. OnTime'
    <2> SUFFICES ASSUME NEW p \in Pids, p \notin robbed', Asleep(p)', left[p] > 0
                 PROVE  /\ Mine(p)' \in Slots /\ timerPid'[Mine(p)'] = p
                        /\ until'[Mine(p)'] = WakeTick(left[p])
      BY DEF OnTime, WakeTick
    <2>1. Asleep(p) /\ p \notin robbed /\ Mine(p)' = Mine(p)
      BY StillAsleep
    <2>2. Mine(p) \in Slots /\ timerPid[Mine(p)] = p /\ until[Mine(p)] = WakeTick(left[p])
      BY <2>1 DEF Inv, OnTime
    <2>3. Mine(p) \notin Due
      BY <2>1, NotDue DEF Inv, Due
    <2> QED BY <2>1, <2>2, <2>3 DEF WakeTimers, Free
  <1>8. ObjectIsWait'
    BY SlotsAreBytes DEF ObjectIsWait, WakeTimers, ReadyToScan, Inv, Woken
  <1> QED BY <1>5, <1>6, <1>7, <1>8 DEF Inv

LEMMA InitInv == Init => Inv
  <1> SUFFICES ASSUME Init PROVE Inv
    OBVIOUS
  <1>1. TypeOK
    BY TimersAssumption DEF Init, TypeOK
  <1>2. SleeperHasTimer /\ OnTime /\ ObjectIsWait
    BY SlotsAreBytes DEF Init, SleeperHasTimer, OnTime, Asleep, ObjectIsWait
  <1> QED BY <1>1, <1>2 DEF Inv

LEMMA StartKeepsInv ==
    ASSUME Inv, NEW p \in Pids, NEW d \in 1 .. MaxSleep, Start(p, d)
    PROVE  Inv'
  <1>1. PICK s \in Slots :
           /\ FirstFree(s)
           /\ timerPid' = [timerPid EXCEPT ![s] = p]
           /\ until' = [until EXCEPT ![s] = WakeTick(d)]
           /\ slot' = [slot EXCEPT ![p] = s]
    BY DEF Start
  <1>2. d \in 0 .. Wrap - 1 /\ d \in 0 .. MaxSleep
    BY TimersAssumption
  <1>3. WakeTick(d) \in 0 .. Wrap - 1
    BY <1>2, SumWraps DEF WakeTick, Inv, TypeOK
  <1>4. /\ state' = [state EXCEPT ![p] = "armed"] /\ left' = [left EXCEPT ![p] = d]
        /\ UNCHANGED <<ticks, lag, object, killing, step, seen, robbed>>
        /\ state[p] = "run" /\ timerPid[s] = None
    BY <1>1 DEF Start, FirstFree, clock, kill
  <1>5. TypeOK'
    BY <1>1, <1>2, <1>3, <1>4 DEF Inv, TypeOK
  <1>6. \A q \in Pids, t \in Slots : timerPid[t] = q => t # s
    BY <1>4, PidsAreBytes
  <1>7. SleeperHasTimer'
    BY <1>1, <1>4, <1>6 DEF Inv, TypeOK, SleeperHasTimer
  <1>8. OnTime'
    <2> SUFFICES ASSUME NEW q \in Pids, q \notin robbed, Asleep(q)', left'[q] > 0
                 PROVE  /\ Mine(q)' \in Slots /\ timerPid'[Mine(q)'] = q
                        /\ until'[Mine(q)'] = WakeTick(left'[q])
      BY <1>4 DEF OnTime, WakeTick
    <2>1. CASE q = p
      BY <1>1, <1>4, <2>1 DEF Inv, TypeOK, Mine
    <2>2. CASE q # p
      <3>1. Asleep(q) /\ left[q] > 0 /\ Mine(q)' = Mine(q) /\ left'[q] = left[q]
        BY <1>1, <1>4, <2>2 DEF Asleep, Inv, TypeOK, Mine
      <3>2. Mine(q) \in Slots /\ timerPid[Mine(q)] = q /\ until[Mine(q)] = WakeTick(left[q])
        BY <3>1 DEF OnTime, Inv
      <3>3. Mine(q) # s
        BY <1>6, <3>2
      <3> QED BY <1>1, <3>1, <3>2, <3>3 DEF Inv, TypeOK
    <2> QED BY <2>1, <2>2
  <1>9. ObjectIsWait'
    BY <1>4 DEF ObjectIsWait, Inv, TypeOK
  <1> QED BY <1>5, <1>7, <1>8, <1>9 DEF Inv

\* A process that commits its wait leaves a state the scan may start from.
LEMMA BlockIsReady ==
    ASSUME Inv, NEW p \in Pids, state[p] = "armed", timerPid[slot[p]] = p,
           slot' = [slot EXCEPT ![p] = None]
    PROVE  ReadyToScan([state EXCEPT ![p] = "blocked"], [object EXCEPT ![p] = slot[p]])
  BY DEF ReadyToScan, Inv, TypeOK, States

\* A step that leaves the sleepers, the clock and their slots alone.
LEMMA SleepersKept ==
    ASSUME Inv, ticks' = ticks,
           \A q \in Pids : Asleep(q)' /\ q \notin robbed' =>
              /\ q \notin robbed /\ left'[q] = left[q]
              /\ state'[q] = state[q] /\ slot'[q] = slot[q] /\ object'[q] = object[q],
           \A q \in Pids, s \in Slots : Asleep(q)' /\ q \notin robbed' /\ timerPid[s] = q =>
              timerPid'[s] = q /\ until'[s] = until[s]
    PROVE  SleeperHasTimer' /\ OnTime'
  <1>1. SleeperHasTimer'
    <2> SUFFICES ASSUME NEW q \in Pids, q \notin robbed', state'[q] = "blocked"
                 PROVE  object'[q] \in Slots /\ timerPid'[object'[q]] = q
      BY DEF SleeperHasTimer
    <2>1. Asleep(q)'
      BY DEF Asleep
    <2> QED BY <2>1 DEF Inv, SleeperHasTimer
  <1>2. OnTime'
    <2> SUFFICES ASSUME NEW q \in Pids, q \notin robbed', Asleep(q)', left'[q] > 0
                 PROVE  /\ Mine(q)' \in Slots /\ timerPid'[Mine(q)'] = q
                        /\ until'[Mine(q)'] = WakeTick(left'[q])
      BY DEF OnTime, WakeTick
    <2>1. Asleep(q) /\ Mine(q)' = Mine(q) /\ q \notin robbed /\ left'[q] = left[q]
      BY DEF Asleep, Mine
    <2>2. Mine(q) \in Slots /\ timerPid[Mine(q)] = q /\ until[Mine(q)] = WakeTick(left[q])
      BY <2>1 DEF Inv, OnTime
    <2> QED BY <2>1, <2>2
  <1> QED BY <1>1, <1>2

\* A commit that returns changes the caller's slot at most.
LEMMA ReturnKeepsInv ==
    ASSUME Inv, NEW p \in Pids, state[p] = "armed", Return(p),
           slot' = [slot EXCEPT ![p] = None], UNCHANGED <<ticks, kill, left>>,
           timerPid' \in [Slots -> Pids \cup {None}], until' \in [Slots -> 0 .. Wrap - 1],
           \A t \in Slots : timerPid[t] # p => timerPid'[t] = timerPid[t] /\ until'[t] = until[t]
    PROVE  Inv'
  <1>1. /\ UNCHANGED <<ticks, lag, object, killing, step, seen, left>>
        /\ state' = [state EXCEPT ![p] = "run"] /\ robbed' = robbed \ {p}
    BY DEF Return, kill
  <1>2. TypeOK'
    BY <1>1 DEF Inv, TypeOK
  <1>3. \A q \in Pids : Asleep(q)' => q # p /\ state'[q] = state[q] /\ slot'[q] = slot[q]
    BY <1>1 DEF Inv, TypeOK, Asleep
  <1>4. SleeperHasTimer' /\ OnTime'
    BY <1>1, <1>3, SleepersKept
  <1>5. ObjectIsWait'
    BY <1>1 DEF ObjectIsWait, Inv, TypeOK
  <1> QED BY <1>2, <1>4, <1>5 DEF Inv

LEMMA CommitKeepsInv ==
    ASSUME Inv, NEW p \in Pids, Commit(p)
    PROVE  Inv'
  <1> DEFINE s == slot[p]
  <1>1. /\ s \in Slots /\ state[p] = "armed"
        /\ slot' = [slot EXCEPT ![p] = None] /\ UNCHANGED <<ticks, kill, left>>
    BY DEF Commit, Inv, TypeOK
  <1>2. CASE timerPid[s] = p /\ ~Expired(s) /\ Block(p)
    BY <1>1, <1>2, BlockIsReady, WakeKeepsInv DEF Block
  <1>3. CASE timerPid[s] = p /\ Expired(s) /\ Free({s}) /\ Return(p)
    <2>1. timerPid' \in [Slots -> Pids \cup {None}] /\ until' \in [Slots -> 0 .. Wrap - 1]
      BY <1>1, <1>3, FreeType DEF Inv
    <2>2. \A t \in Slots : timerPid[t] # p => timerPid'[t] = timerPid[t] /\ until'[t] = until[t]
      BY <1>1, <1>3 DEF Free
    <2> QED BY <1>1, <1>3, <2>1, <2>2, ReturnKeepsInv
  <1>4. CASE timerPid[s] # p /\ Return(p) /\ UNCHANGED table
    <2>1. timerPid' = timerPid /\ until' = until
      BY <1>4 DEF table
    <2> QED BY <1>1, <1>4, <2>1, ReturnKeepsInv DEF Inv, TypeOK
  <1> QED BY <1>2, <1>3, <1>4 DEF Commit

LEMMA TickKeepsInv ==
    ASSUME Inv, Tick
    PROVE  Inv'
  <1>1. /\ ticks \in 0 .. Wrap - 1 /\ 1 \in 0 .. Wrap - 1 /\ lag' = lag + 1 /\ lag < MaxLag /\ lag \in 0 .. MaxLag
        /\ UNCHANGED <<timerPid, until, state, slot, object, killing, step, seen, robbed>>
    BY TimersAssumption DEF Inv, TypeOK, Tick, table, kill
  <1>2. ticks' \in 0 .. Wrap - 1 /\ ticks' = IF ticks + 1 < Wrap THEN ticks + 1 ELSE ticks + 1 - Wrap
    BY <1>1, SumWraps DEF Tick
  <1>3. /\ \A p \in Pids : left'[p] = IF left[p] > 0 THEN left[p] - 1 ELSE 0
        /\ left' \in [Pids -> 0 .. MaxSleep]
    BY TimersAssumption DEF Inv, TypeOK, Tick
  <1>4. lag' \in 0 .. MaxLag
    BY <1>1, TimersAssumption
  <1>5. TypeOK'
    BY <1>1, <1>2, <1>3, <1>4 DEF Inv, TypeOK
  <1>6. SleeperHasTimer' /\ ObjectIsWait'
    BY <1>1 DEF Inv, SleeperHasTimer, ObjectIsWait
  <1>7. OnTime'
    <2> SUFFICES ASSUME NEW p \in Pids, p \notin robbed, Asleep(p), left'[p] > 0
                 PROVE  /\ Mine(p) \in Slots /\ timerPid[Mine(p)] = p
                        /\ until[Mine(p)] = (ticks' + left'[p]) % Wrap
      BY <1>1 DEF OnTime, WakeTick, Asleep, Mine
    <2>1. left[p] \in 1 .. MaxSleep /\ left'[p] = left[p] - 1 /\ left'[p] \in 0 .. Wrap - 1 /\ left[p] \in 0 .. Wrap - 1
      BY <1>3, TimersAssumption DEF Inv, TypeOK
    <2>2. Mine(p) \in Slots /\ timerPid[Mine(p)] = p /\ until[Mine(p)] = (ticks + left[p]) % Wrap
      BY <2>1 DEF OnTime, Inv, WakeTick
    <2>3. (ticks + left[p]) % Wrap = IF ticks + left[p] < Wrap THEN ticks + left[p] ELSE ticks + left[p] - Wrap
      BY <1>1, <2>1, SumWraps
    <2>4. (ticks' + left'[p]) % Wrap = IF ticks' + left'[p] < Wrap THEN ticks' + left'[p] ELSE ticks' + left'[p] - Wrap
      BY <1>2, <2>1, SumWraps
    <2>5. (ticks' + left'[p]) % Wrap = (ticks + left[p]) % Wrap
      BY <1>1, <1>2, <2>1, <2>3, <2>4, TimersAssumption
    <2> QED BY <2>2, <2>5
  <1> QED BY <1>5, <1>6, <1>7 DEF Inv

(***************************************************************************)
(* The end of a process.                                                   *)
(***************************************************************************)
LEMMA LowByte ==
    ASSUME NEW u \in 0 .. Wrap - 1
    PROVE  u % Low \in 0 .. Wrap - 1 /\ u - (u % Low) \in 0 .. Wrap - 1
  <1>1. u \in Nat /\ Low \in Nat \ {0}
    BY TimersAssumption
  <1>2. u % Low \in 0 .. u
    BY <1>1, SMTT(60)
  <1> QED BY <1>1, <1>2, TimersAssumption

LEMMA InterruptKeepsInv ==
    ASSUME Inv, NEW p \in Pids, Interrupt(p)
    PROVE  Inv'
  <1>1. WaitSlot(p) \in SUBSET Slots
    BY DEF WaitSlot
  <1>2. timerPid' \in [Slots -> Pids \cup {None}] /\ until' \in [Slots -> 0 .. Wrap - 1]
    BY <1>1, FreeType DEF Inv, Interrupt
  <1>3. /\ state' = [state EXCEPT ![p] = "dead"] /\ object' = [object EXCEPT ![p] = None]
        /\ slot' = [slot EXCEPT ![p] = None] /\ left' = [left EXCEPT ![p] = 0]
        /\ robbed' = (robbed \cup Holders(WaitSlot(p))) \ {p}
        /\ UNCHANGED <<ticks, lag, killing, step, seen>>
    BY DEF Interrupt, clock, kill
  <1>4. TypeOK'
    <2>1. left' \in [Pids -> 0 .. MaxSleep]
      BY <1>3, TimersAssumption DEF Inv, TypeOK
    <2>2. robbed' \subseteq Pids
      BY <1>3 DEF Inv, TypeOK, Holders
    <2>3. state' \in [Pids -> States] /\ \A q \in Pids : state'[q] = "armed" => q # p /\ state[q] = "armed"
      BY <1>3 DEF Inv, TypeOK, States
    <2>4. slot' \in [Pids -> Slots \cup {None}] /\ object' \in [Pids -> Slots \cup {None}]
      BY <1>3 DEF Inv, TypeOK
    <2>5. \A q \in Pids : state'[q] = "armed" => slot'[q] \in Slots
      BY <1>3, <2>3 DEF Inv, TypeOK
    <2> QED BY <1>2, <1>3, <2>1, <2>2, <2>3, <2>4, <2>5 DEF Inv, TypeOK, States
  <1>5. \A q \in Pids : Asleep(q)' /\ q \notin robbed' =>
           /\ q # p /\ q \notin robbed /\ q \notin Holders(WaitSlot(p)) /\ Asleep(q)
           /\ left'[q] = left[q] /\ state'[q] = state[q] /\ slot'[q] = slot[q] /\ object'[q] = object[q]
    BY <1>3 DEF Inv, TypeOK, Asleep
  <1>6. \A q \in Pids, s \in Slots : Asleep(q)' /\ q \notin robbed' /\ timerPid[s] = q =>
           timerPid'[s] = q /\ until'[s] = until[s]
    <2> SUFFICES ASSUME NEW q \in Pids, NEW s \in Slots, Asleep(q)', q \notin robbed', timerPid[s] = q
                 PROVE  timerPid'[s] = q /\ until'[s] = until[s]
      OBVIOUS
    <2>1. s \notin WaitSlot(p)
      BY <1>5 DEF Holders
    <2> QED BY <2>1 DEF Interrupt, Free
  <1>7. SleeperHasTimer' /\ OnTime'
    BY <1>3, <1>5, <1>6, SleepersKept
  <1>8. ObjectIsWait'
    BY <1>3 DEF Inv, TypeOK, ObjectIsWait
  <1> QED BY <1>4, <1>7, <1>8 DEF Inv

\* The two reads.
LEMMA ReadsKeepInv ==
    ASSUME Inv, NEW p \in Pids, KillReason(p) \/ KillObject
    PROVE  Inv'
  <1>1. UNCHANGED <<ticks, lag, timerPid, until, state, slot, object, left, robbed>>
    BY DEF KillReason, KillObject, clock, table
  <1>2. /\ killing' \in Pids \cup {None} /\ seen' \in Slots \cup {None}
        /\ step' \in {"object", "free", "clear"} /\ killing' \in Pids
        /\ step' = "free" => seen' \in Slots
    BY PidsAreBytes DEF KillReason, KillObject, Inv, TypeOK
  <1>3. TypeOK'
    BY <1>1, <1>2 DEF Inv, TypeOK
  <1> QED BY <1>1, <1>3 DEF Inv, SleeperHasTimer, OnTime, ObjectIsWait, Asleep, Mine, WakeTick

LEMMA KillFreeKeepsInv ==
    ASSUME Inv, KillFree
    PROVE  Inv'
  <1>1. /\ UNCHANGED <<ticks, lag, state, slot, object, killing, seen, left>>
        /\ step \in {"free", "low", "high"} /\ step' \in {"low", "high", "clear"}
        /\ robbed' = robbed \cup Holders({seen})
    BY DEF KillFree, clock
  <1>2. seen \in Slots /\ until[seen] \in 0 .. Wrap - 1 /\ killing \in Pids
    BY <1>1 DEF Inv, TypeOK
  <1>3. until[seen] % Low \in 0 .. Wrap - 1 /\ until[seen] - (until[seen] % Low) \in 0 .. Wrap - 1
    BY <1>2, LowByte
  <1>4. /\ timerPid' \in [Slots -> Pids \cup {None}] /\ until' \in [Slots -> 0 .. Wrap - 1]
        /\ \A s \in Slots : s # seen => timerPid'[s] = timerPid[s] /\ until'[s] = until[s]
    <2>1. \/ timerPid' = [timerPid EXCEPT ![seen] = None] /\ until' = until
          \/ /\ timerPid' = timerPid
             /\ \E u \in 0 .. Wrap - 1 : until' = [until EXCEPT ![seen] = u]
      BY <1>3 DEF KillFree
    <2> QED BY <1>2, <2>1 DEF Inv, TypeOK
  <1>5. TypeOK'
    BY <1>1, <1>2, <1>4 DEF Inv, TypeOK, Holders
  <1>6. \A q \in Pids : Asleep(q)' /\ q \notin robbed' => q \notin robbed /\ Asleep(q) /\ q \notin Holders({seen})
    BY <1>1 DEF Asleep
  <1>7. \A q \in Pids, s \in Slots : Asleep(q)' /\ q \notin robbed' /\ timerPid[s] = q => s # seen
    BY <1>6 DEF Holders
  <1>8. SleeperHasTimer' /\ OnTime'
    BY <1>1, <1>4, <1>6, <1>7, SleepersKept
  <1> QED BY <1>1, <1>5, <1>8 DEF Inv, ObjectIsWait

\* The target loses its wait, then its life.
LEMMA KillEndsKeepInv ==
    ASSUME Inv, KillClear \/ KillZombie
    PROVE  Inv'
  <1>1. killing \in Pids
    BY DEF Inv, TypeOK, KillClear, KillZombie
  <1>2. UNCHANGED <<ticks, lag, timerPid, until>>
    BY DEF KillClear, KillZombie, clock, table
  <1>3. TypeOK'
    <2>1. CASE KillClear
      BY <1>1, <1>2, <2>1 DEF Inv, TypeOK, KillClear
    <2>2. CASE KillZombie
      BY <1>1, <1>2, <2>2, PidsAreBytes, TimersAssumption DEF Inv, TypeOK, KillZombie
    <2> QED BY <2>1, <2>2
  <1>4. \A q \in Pids : Asleep(q)' /\ q \notin robbed' =>
           /\ q # killing /\ q \notin robbed /\ left'[q] = left[q]
           /\ state'[q] = state[q] /\ slot'[q] = slot[q] /\ object'[q] = object[q]
    BY <1>1 DEF KillClear, KillZombie, Asleep, Inv, TypeOK
  <1>5. SleeperHasTimer' /\ OnTime'
    BY <1>2, <1>4, SleepersKept
  <1>6. ObjectIsWait'
    BY <1>1, SlotsAreBytes DEF KillClear, KillZombie, Inv, TypeOK, ObjectIsWait
  <1> QED BY <1>3, <1>5, <1>6 DEF Inv

LEMMA ReuseKeepsInv ==
    ASSUME Inv, NEW p \in Pids, Reuse(p)
    PROVE  Inv'
  <1>1. /\ UNCHANGED <<ticks, lag, timerPid, until, slot, killing, step, seen, left, robbed>>
        /\ state' = [state EXCEPT ![p] = "run"] /\ object' = [object EXCEPT ![p] = None]
    BY DEF Reuse, clock, table, kill
  <1>2. TypeOK'
    BY <1>1 DEF Inv, TypeOK
  <1>3. SleeperHasTimer' /\ OnTime'
    BY <1>1, SleepersKept DEF Inv, TypeOK, Asleep
  <1>4. ObjectIsWait'
    BY <1>1, SlotsAreBytes DEF Inv, TypeOK, ObjectIsWait
  <1> QED BY <1>2, <1>3, <1>4 DEF Inv

LEMMA ScanReady == Inv /\ slot' = slot => ReadyToScan(state, object)
  BY DEF Inv, TypeOK, ReadyToScan, States

LEMMA NextKeepsInv == Inv /\ [Next]_vars => Inv'
  <1> SUFFICES ASSUME Inv, [Next]_vars PROVE Inv'
    OBVIOUS
  <1>1. ASSUME NEW p \in Pids, Sleep(p) PROVE Inv'
    BY <1>1, StartKeepsInv, CommitKeepsInv DEF Sleep
  <1>2. ASSUME NEW p \in Pids, Interrupt(p) \/ KillReason(p) \/ Reuse(p) PROVE Inv'
    BY <1>2, InterruptKeepsInv, ReadsKeepInv, ReuseKeepsInv
  <1>3. CASE Kill
    <2>1. CASE KillObject
      <3>1. killing \in Pids
        BY <2>1 DEF KillObject, Inv, TypeOK
      <3> QED BY <2>1, <3>1, ReadsKeepInv
    <2> QED BY <1>3, <2>1, KillFreeKeepsInv, KillEndsKeepInv DEF Kill
  <1>4. CASE Scan
    BY <1>4, ScanReady, WakeKeepsInv DEF Scan
  <1>5. CASE Tick
    BY <1>5, TickKeepsInv
  <1>6. CASE UNCHANGED vars
    BY <1>6 DEF vars, clock, table, kill, Inv, TypeOK, SleeperHasTimer, OnTime, ObjectIsWait,
                Asleep, Mine, WakeTick
  <1> QED BY <1>1, <1>2, <1>3, <1>4, <1>5, <1>6 DEF Next

\* The timer variables keep their types, the wake ticks within the counter.
THEOREM TimersTypeCorrect == Spec => []TypeOK
  BY InitInv, NextKeepsInv, PTL DEF Spec, Inv

\* A process blocked by ksys_sleep has the slot in its wait_object to itself
\* unless a SIG_KILL has written to that slot, for any number of sleepers and
\* slots, whatever dies and however a kill is interleaved with scans and commits.
THEOREM SleeperKeepsTimer == Spec => []SleeperHasTimer
  BY InitInv, NextKeepsInv, PTL DEF Spec, Inv

\* The commit, which either scans on the caller's own slot or returns.
LEMMA CommitBlocksOrReturns ==
    ASSUME Inv, NEW p \in Pids, Commit(p)
    PROVE  /\ state[p] = "armed" /\ slot[p] \in Slots /\ ticks' = ticks /\ left' = left
           /\ \/ /\ Block(p) /\ timerPid[slot[p]] = p
                 /\ ReadyToScan([state EXCEPT ![p] = "blocked"], [object EXCEPT ![p] = slot[p]])
              \/ /\ Return(p) /\ lag' = lag
                 /\ ~(timerPid[slot[p]] = p /\ ~Expired(slot[p]))
                 /\ \A t \in Slots, q \in Pids : q # p /\ timerPid'[t] = q =>
                       timerPid[t] = q /\ until'[t] = until[t]
  <1>1. /\ state[p] = "armed" /\ slot[p] \in Slots /\ slot' = [slot EXCEPT ![p] = None]
        /\ ticks' = ticks /\ left' = left
    BY DEF Commit, Inv, TypeOK
  <1>2. CASE timerPid[slot[p]] = p /\ ~Expired(slot[p]) /\ Block(p)
    BY <1>1, <1>2, BlockIsReady
  <1>3. CASE timerPid[slot[p]] = p /\ Expired(slot[p]) /\ Free({slot[p]}) /\ Return(p)
    <2>1. \A t \in Slots, q \in Pids : q # p /\ timerPid'[t] = q =>
             timerPid[t] = q /\ until'[t] = until[t]
      BY <1>3, PidsAreBytes DEF Free
    <2> QED BY <1>1, <1>3, <2>1 DEF Return
  <1>4. CASE timerPid[slot[p]] # p /\ Return(p) /\ UNCHANGED table
    BY <1>1, <1>4 DEF Return, table
  <1> QED BY <1>2, <1>3, <1>4 DEF Commit

(***************************************************************************)
(* No sleep is cut short.                                                  *)
(***************************************************************************)
\* A scan wakes no sleeper whose time is not over.
LEMMA ScanOnTime ==
    ASSUME Inv, NEW st, NEW obj, ReadyToScan(st, obj), WakeTimers(st, obj),
           NEW p \in Pids \ robbed, Asleep(p), left[p] > 0
    PROVE  state'[p] # "run"
  <1>1. ~Expired(Mine(p))
    BY NotDue DEF Inv
  <1>2. \A s \in Slots : SleepsOn(p, s, st, obj) => s = Mine(p)
    BY SlotsAreBytes DEF SleepsOn, ReadyToScan, Mine, Asleep, Inv
  <1>3. p \notin Woken(st, obj)
    BY <1>1, <1>2 DEF Woken, Due
  <1>4. state'[p] = st[p] /\ st[p] # "run"
    BY <1>3 DEF WakeTimers, ReadyToScan, Asleep
  <1> QED BY <1>4

\* A step that ends a sleep finds its time over.
LEMMA NextOnTime ==
    ASSUME Inv, [Next]_vars, NEW p \in Pids \ robbed, Asleep(p), state'[p] = "run"
    PROVE  left[p] = 0
  <1> SUFFICES ASSUME left[p] > 0 PROVE FALSE
    BY DEF Inv, TypeOK
  <1>1. /\ Mine(p) \in Slots /\ timerPid[Mine(p)] = p /\ ~Expired(Mine(p)) /\ state[p] # "run"
        /\ state[p] # "dead" /\ state \in [Pids -> States]
    BY NotDue DEF Inv, TypeOK, OnTime, Asleep, States
  <1>2. ASSUME NEW q \in Pids, NEW d \in 1 .. MaxSleep, Start(q, d) PROVE FALSE
    BY <1>1, <1>2 DEF Start
  <1>3. ASSUME NEW q \in Pids, Commit(q) PROVE FALSE
    <2>1. CASE Return(q)
      <3>1. q = p
        BY <1>1, <2>1 DEF Return
      <3>2. Mine(p) = slot[p] /\ state[p] = "armed"
        BY <1>3, <3>1 DEF Commit, Mine
      <3>3. timerPid[slot[q]] = q /\ ~Expired(slot[q])
        BY <1>1, <3>1, <3>2
      <3>4. Block(q)
        BY <1>3, <3>3 DEF Commit
      <3>5. ReadyToScan([state EXCEPT ![q] = "blocked"], [object EXCEPT ![q] = slot[q]])
        BY <1>3, <3>2, <3>1, <3>3, BlockIsReady DEF Commit
      <3> QED BY <3>4, <3>5, ScanOnTime DEF Block
    <2>2. CASE Block(q)
      <3>1. \/ ReadyToScan([state EXCEPT ![q] = "blocked"], [object EXCEPT ![q] = slot[q]])
            \/ Return(q)
        BY <1>3, CommitBlocksOrReturns
      <3> QED BY <2>1, <2>2, <3>1, ScanOnTime DEF Block
    <2> QED BY <1>3, <2>1, <2>2, CommitBlocksOrReturns
  <1>4. ASSUME NEW q \in Pids, Interrupt(q) \/ KillReason(q) \/ Reuse(q) PROVE FALSE
    BY <1>1, <1>4 DEF Interrupt, KillReason, Reuse
  <1>5. CASE Kill
    BY <1>1, <1>5 DEF Kill, KillObject, KillFree, KillClear, KillZombie
  <1>6. CASE Scan
    <2>1. ReadyToScan(state, object)
      BY <1>6, ScanReady DEF Scan
    <2> QED BY <1>6, <2>1, ScanOnTime DEF Scan
  <1>7. ~Tick /\ ~UNCHANGED vars
    BY <1>1 DEF Tick, vars
  <1> QED BY <1>2, <1>3, <1>4, <1>5, <1>6, <1>7 DEF Next, Sleep

\* No sleep whose slot no SIG_KILL has written to returns before its time, for
\* any number of sleepers and slots and any counter with MaxSleep below half its
\* range: the expiry test of scheduler_wake_timers is right across the wrap, and
\* a slot that outlived a killed sleeper wakes nobody else.
THEOREM SleepsInFull == Spec => NeverEarly
  <1>1. Inv /\ [Next]_vars => [\A p \in Pids \ robbed :
                                 state[p] \in {"armed", "blocked"} /\ state'[p] = "run" => left[p] = 0]_vars
    BY NextOnTime DEF Asleep
  <1> QED BY <1>1, InitInv, NextKeepsInv, PTL DEF Spec, NeverEarly

(***************************************************************************)
(* The other direction: a slot whose time is over is seen to be over.      *)
(***************************************************************************)
\* The ticks since the wake tick of a slot, as the expiry test computes them.
Age(s) == (ticks - until[s]) % Wrap

\* The slot of a sleeper whose time is over.
Overdue(p) == Asleep(p) /\ left[p] = 0 /\ Mine(p) \in Slots /\ timerPid[Mine(p)] = p

\* Such a slot has been over since the last scan only.
Recent == \A p \in Pids \ robbed : Overdue(p) => Age(Mine(p)) <= lag

\* It expires: the age is far from half the counter.
LEMMA OverIsDue ==
    ASSUME TypeOK, Recent, NEW p \in Pids \ robbed, Overdue(p)
    PROVE  Mine(p) \in Due
  <1>1. Mine(p) \in Slots /\ timerPid[Mine(p)] # None
    BY PidsAreBytes DEF Overdue
  <1>2. Age(Mine(p)) <= lag /\ lag \in 0 .. MaxLag
    BY DEF Recent, TypeOK
  <1>3. Age(Mine(p)) \in 0 .. Wrap - 1
    <2>1. ticks \in 0 .. Wrap - 1 /\ until[Mine(p)] \in 0 .. Wrap - 1
      BY <1>1 DEF TypeOK
    <2> QED BY <2>1, DifferenceWraps DEF Age
  <1>4. 2 * Age(Mine(p)) < Wrap
    BY <1>2, <1>3, TimersAssumption
  <1> QED BY <1>1, <1>4 DEF Due, Expired, Age

\* A scan, whoever runs it, leaves no slot that is over to a sleeper.
LEMMA WakeLeavesNone ==
    ASSUME Inv, Recent, NEW st, NEW obj, ReadyToScan(st, obj), WakeTimers(st, obj), left' = left,
           NEW p \in Pids, p \notin robbed'
    PROVE  ~Overdue(p)'
  <1> SUFFICES ASSUME Overdue(p)' PROVE FALSE
    OBVIOUS
  <1>1. /\ Asleep(p) /\ left[p] = 0 /\ Mine(p)' = Mine(p) /\ p \notin robbed
        /\ Mine(p) \in Slots /\ timerPid'[Mine(p)] = p
    BY StillAsleep DEF Overdue
  <1>2. timerPid[Mine(p)] = p /\ Mine(p) \notin Due
    BY <1>1, PidsAreBytes DEF WakeTimers, Free
  <1>3. Overdue(p)
    BY <1>1, <1>2 DEF Overdue
  <1> QED BY <1>1, <1>2, <1>3, OverIsDue DEF Inv

\* A step that leaves the sleepers, the clock and their slots alone.
LEMMA RecentKept ==
    ASSUME Recent, ticks' = ticks, lag' = lag,
           \A q \in Pids : Asleep(q)' /\ q \notin robbed' =>
              /\ q \notin robbed /\ left'[q] = left[q]
              /\ state'[q] = state[q] /\ slot'[q] = slot[q] /\ object'[q] = object[q],
           \A q \in Pids, s \in Slots : Asleep(q)' /\ q \notin robbed' /\ timerPid'[s] = q =>
              timerPid[s] = q /\ until'[s] = until[s]
    PROVE  Recent'
  <1> SUFFICES ASSUME NEW q \in Pids, q \notin robbed', Overdue(q)'
               PROVE  Age(Mine(q))' <= lag
    BY DEF Recent
  <1>1. Asleep(q)' /\ left'[q] = 0 /\ Mine(q)' \in Slots /\ timerPid'[Mine(q)'] = q
    BY DEF Overdue
  <1>2. Asleep(q) /\ Mine(q)' = Mine(q) /\ q \notin robbed /\ left[q] = 0
    BY <1>1 DEF Asleep, Mine
  <1>3. timerPid[Mine(q)] = q /\ until'[Mine(q)] = until[Mine(q)] /\ Mine(q) \in Slots
    BY <1>1, <1>2
  <1>4. Age(Mine(q))' = Age(Mine(q))
    BY <1>2, <1>3 DEF Age
  <1>5. Overdue(q)
    BY <1>2, <1>3 DEF Overdue
  <1> QED BY <1>2, <1>4, <1>5 DEF Recent

LEMMA CommitKeepsRecent ==
    ASSUME Inv, Recent, NEW p \in Pids, Commit(p)
    PROVE  Recent'
  <1>1. CASE /\ Block(p)
             /\ ReadyToScan([state EXCEPT ![p] = "blocked"], [object EXCEPT ![p] = slot[p]])
    <2>1. left' = left
      BY DEF Commit
    <2> QED BY <1>1, <2>1, WakeLeavesNone DEF Block, Recent
  <1>2. CASE /\ Return(p) /\ lag' = lag
             /\ \A t \in Slots, q \in Pids : q # p /\ timerPid'[t] = q =>
                   timerPid[t] = q /\ until'[t] = until[t]
    <2>1. /\ state' = [state EXCEPT ![p] = "run"] /\ slot' = [slot EXCEPT ![p] = None]
          /\ ticks' = ticks /\ left' = left /\ object' = object /\ robbed' = robbed \ {p}
      BY <1>2 DEF Commit, Return
    <2>2. \A q \in Pids : Asleep(q)' => q # p /\ state'[q] = state[q] /\ slot'[q] = slot[q]
      BY <2>1 DEF Inv, TypeOK, Asleep
    <2> QED BY <1>2, <2>1, <2>2, RecentKept
  <1> QED BY <1>1, <1>2, CommitBlocksOrReturns

LEMMA StartKeepsRecent ==
    ASSUME Inv, Recent, NEW p \in Pids, NEW d \in 1 .. MaxSleep, Start(p, d)
    PROVE  Recent'
  <1>1. PICK s \in Slots :
           /\ FirstFree(s)
           /\ timerPid' = [timerPid EXCEPT ![s] = p]
           /\ until' = [until EXCEPT ![s] = WakeTick(d)]
           /\ slot' = [slot EXCEPT ![p] = s]
    BY DEF Start
  <1>2. /\ state' = [state EXCEPT ![p] = "armed"] /\ left' = [left EXCEPT ![p] = d]
        /\ UNCHANGED <<ticks, lag, object, robbed>> /\ state[p] = "run"
    BY DEF Start, clock
  <1> SUFFICES ASSUME NEW q \in Pids, q \notin robbed, Overdue(q)'
               PROVE  (ticks - until'[Mine(q)']) % Wrap <= lag
    BY <1>2 DEF Recent, Age
  <1>3. q # p
    BY <1>2 DEF Inv, TypeOK, Overdue
  <1>4. Asleep(q) /\ left[q] = 0 /\ Mine(q)' = Mine(q)
    BY <1>1, <1>2, <1>3 DEF Inv, TypeOK, Asleep, Overdue, Mine
  <1>5. timerPid'[Mine(q)] = q /\ Mine(q) \in Slots
    BY <1>4 DEF Overdue
  <1>6. Mine(q) # s
    BY <1>1, <1>3, <1>5 DEF Inv, TypeOK
  <1>7. timerPid[Mine(q)] = q /\ until'[Mine(q)] = until[Mine(q)]
    BY <1>1, <1>5, <1>6 DEF Inv, TypeOK
  <1>8. Age(Mine(q)) <= lag
    BY <1>4, <1>5, <1>7 DEF Recent, Overdue
  <1> QED BY <1>4, <1>7, <1>8 DEF Age

LEMMA TickKeepsRecent ==
    ASSUME Inv, Recent, Tick
    PROVE  Recent'
  <1>1. /\ ticks \in 0 .. Wrap - 1 /\ 1 \in 0 .. Wrap - 1 /\ lag' = lag + 1 /\ lag < MaxLag /\ lag \in 0 .. MaxLag
        /\ UNCHANGED <<timerPid, until, state, slot, object, robbed>>
    BY TimersAssumption DEF Inv, TypeOK, Tick, table
  <1>2. ticks' \in 0 .. Wrap - 1 /\ ticks' = IF ticks + 1 < Wrap THEN ticks + 1 ELSE ticks + 1 - Wrap
    BY <1>1, SumWraps DEF Tick
  <1> SUFFICES ASSUME NEW p \in Pids, p \notin robbed, Overdue(p)'
               PROVE  (ticks' - until[Mine(p)]) % Wrap <= lag + 1
    BY <1>1 DEF Recent, Age, Mine
  <1> DEFINE u == until[Mine(p)]
  <1>3. Asleep(p) /\ left'[p] = 0 /\ Mine(p) \in Slots /\ timerPid[Mine(p)] = p
    BY <1>1 DEF Overdue, Asleep, Mine
  <1>4. u \in 0 .. Wrap - 1
    BY <1>3 DEF Inv, TypeOK
  <1>5. /\ (ticks' - u) % Wrap = IF ticks' >= u THEN ticks' - u ELSE ticks' - u + Wrap
        /\ (ticks - u) % Wrap = IF ticks >= u THEN ticks - u ELSE ticks - u + Wrap
    BY <1>1, <1>2, <1>4, DifferenceWraps
  <1>6. CASE left[p] = 0
    <2>1. (ticks - u) % Wrap <= lag
      BY <1>3, <1>6 DEF Recent, Overdue, Age
    <2>2. (ticks' - u) % Wrap <= lag + 1
      <3> HIDE DEF u
      <3> QED BY <1>1, <1>2, <1>4, <1>5, <2>1, TimersAssumption
    <2> QED BY <2>2
  <1>7. CASE left[p] > 0
    <2>1. left[p] = 1
      BY <1>3, <1>7 DEF Inv, TypeOK, Tick
    <2>2. u = ticks'
      BY <1>1, <1>3, <2>1 DEF Inv, OnTime, WakeTick, Tick
    <2>3. (ticks' - u) % Wrap <= lag + 1
      <3> HIDE DEF u
      <3> QED BY <1>1, <1>2, <1>4, <1>5, <2>2
    <2> QED BY <2>3
  <1> QED BY <1>6, <1>7 DEF Inv, TypeOK

LEMMA InterruptKeepsRecent ==
    ASSUME Inv, Recent, NEW p \in Pids, Interrupt(p)
    PROVE  Recent'
  <1>1. /\ state' = [state EXCEPT ![p] = "dead"] /\ object' = [object EXCEPT ![p] = None]
        /\ slot' = [slot EXCEPT ![p] = None] /\ left' = [left EXCEPT ![p] = 0]
        /\ robbed' = (robbed \cup Holders(WaitSlot(p))) \ {p}
        /\ UNCHANGED <<ticks, lag>>
    BY DEF Interrupt, clock
  <1>2. \A q \in Pids : Asleep(q)' /\ q \notin robbed' =>
           /\ q # p /\ q \notin robbed
           /\ left'[q] = left[q] /\ state'[q] = state[q] /\ slot'[q] = slot[q] /\ object'[q] = object[q]
    BY <1>1 DEF Inv, TypeOK, Asleep
  <1>3. \A q \in Pids, s \in Slots : timerPid'[s] = q => timerPid[s] = q /\ until'[s] = until[s]
    BY PidsAreBytes DEF Interrupt, Free
  <1> QED BY <1>1, <1>2, <1>3, RecentKept

LEMMA KillKeepsRecent ==
    ASSUME Inv, Recent, Kill
    PROVE  Recent'
  <1>1. killing \in Pids
    BY DEF Inv, TypeOK, Kill, KillObject, KillFree, KillClear, KillZombie
  <1>2. UNCHANGED <<ticks, lag>>
    BY DEF Kill, KillObject, KillFree, KillClear, KillZombie, clock
  <1>3. CASE KillObject
    <2>1. UNCHANGED <<timerPid, until, state, slot, object, left, robbed>>
      BY <1>3 DEF KillObject, table
    <2> QED BY <1>2, <2>1, RecentKept DEF Asleep
  <1>4. CASE KillFree
    <2>1. /\ UNCHANGED <<state, slot, object, left>> /\ robbed' = robbed \cup Holders({seen})
          /\ seen \in Slots
      BY <1>4 DEF KillFree, Inv, TypeOK
    <2>2. \A s \in Slots : s # seen => timerPid'[s] = timerPid[s] /\ until'[s] = until[s]
      BY <1>4, <2>1 DEF KillFree, Inv, TypeOK
    <2>3. timerPid'[seen] \in {None, timerPid[seen]}
      BY <1>4, <2>1 DEF KillFree, Inv, TypeOK
    <2>4. \A q \in Pids, s \in Slots : Asleep(q)' /\ q \notin robbed' /\ timerPid'[s] = q => s # seen
      BY <2>1, <2>3, PidsAreBytes DEF Holders, Asleep
    <2>5. \A q \in Pids : Asleep(q)' /\ q \notin robbed' => q \notin robbed
      BY <2>1
    <2> QED BY <1>2, <2>1, <2>2, <2>4, <2>5, RecentKept
  <1>5. CASE KillClear \/ KillZombie
    <2>1. timerPid' = timerPid /\ until' = until
      BY <1>5 DEF KillClear, KillZombie, table
    <2>2. \A q \in Pids : Asleep(q)' /\ q \notin robbed' =>
             /\ q # killing /\ q \notin robbed /\ left'[q] = left[q]
             /\ state'[q] = state[q] /\ slot'[q] = slot[q] /\ object'[q] = object[q]
      BY <1>1, <1>5 DEF KillClear, KillZombie, Asleep, Inv, TypeOK
    <2> QED BY <1>2, <2>1, <2>2, RecentKept
  <1> QED BY <1>3, <1>4, <1>5 DEF Kill

LEMMA NextKeepsRecent == Inv /\ Recent /\ [Next]_vars => Recent'
  <1> SUFFICES ASSUME Inv, Recent, [Next]_vars PROVE Recent'
    OBVIOUS
  <1>1. ASSUME NEW p \in Pids, Sleep(p) PROVE Recent'
    BY <1>1, StartKeepsRecent, CommitKeepsRecent DEF Sleep
  <1>2. ASSUME NEW p \in Pids, Interrupt(p) PROVE Recent'
    BY <1>2, InterruptKeepsRecent
  <1>3. ASSUME NEW p \in Pids, KillReason(p) \/ Reuse(p) PROVE Recent'
    <2>1. UNCHANGED <<ticks, lag, timerPid, until, slot, left, robbed>>
      BY <1>3 DEF KillReason, Reuse, clock, table
    <2>2. \A q \in Pids : Asleep(q)' => state'[q] = state[q] /\ object'[q] = object[q]
      BY <1>3 DEF KillReason, Reuse, Inv, TypeOK, Asleep
    <2> QED BY <2>1, <2>2, RecentKept
  <1>4. CASE Kill
    BY <1>4, KillKeepsRecent
  <1>5. CASE Scan
    <2>1. ReadyToScan(state, object) /\ left' = left
      BY <1>5, ScanReady DEF Scan
    <2> QED BY <1>5, <2>1, WakeLeavesNone DEF Scan, Recent
  <1>6. CASE Tick
    BY <1>6, TickKeepsRecent
  <1>7. CASE UNCHANGED vars
    BY <1>7, RecentKept DEF vars, clock, table, Asleep
  <1> QED BY <1>1, <1>2, <1>3, <1>4, <1>5, <1>6, <1>7 DEF Next

\* A step that sets the lag back to zero is a scan, and leaves nobody blocked
\* whose time is over.
LEMMA ScanIsThorough ==
    ASSUME Inv, Recent, [Next]_vars, lag' = 0, lag # 0, NEW p \in Pids \ robbed, state'[p] = "blocked"
    PROVE  left[p] > 0
  <1> SUFFICES ASSUME left[p] = 0 PROVE FALSE
    BY DEF Inv, TypeOK
  <1>1. ASSUME NEW st, NEW obj, ReadyToScan(st, obj), WakeTimers(st, obj), left' = left
        PROVE  FALSE
    <2>1. p \notin robbed' /\ left'[p] = 0
      BY <1>1 DEF WakeTimers
    <2>2. object'[p] \in Slots /\ timerPid'[object'[p]] = p
      BY <2>1, NextKeepsInv DEF Inv, SleeperHasTimer
    <2>3. Overdue(p)'
      BY <2>1, <2>2 DEF Overdue, Asleep, Mine
    <2> QED BY <1>1, <2>1, <2>3, WakeLeavesNone
  <1>2. ASSUME NEW q \in Pids, Sleep(q) PROVE FALSE
    <2>1. \A d \in 1 .. MaxSleep : ~Start(q, d)
      BY DEF Start, clock
    <2>2. Commit(q)
      BY <1>2, <2>1 DEF Sleep
    <2>3. /\ Block(q) /\ left' = left
          /\ ReadyToScan([state EXCEPT ![q] = "blocked"], [object EXCEPT ![q] = slot[q]])
      BY <2>2, CommitBlocksOrReturns
    <2> QED BY <1>1, <2>3 DEF Block
  <1>3. CASE Scan
    <2>1. ReadyToScan(state, object) /\ left' = left
      BY <1>3, ScanReady DEF Scan
    <2> QED BY <1>1, <1>3, <2>1 DEF Scan
  <1>4. \A q \in Pids : ~Interrupt(q) /\ ~KillReason(q) /\ ~Reuse(q)
    BY DEF Interrupt, KillReason, Reuse, clock
  <1>5. ~Kill /\ ~Tick /\ ~UNCHANGED vars
    BY DEF Kill, KillObject, KillFree, KillClear, KillZombie, Tick, vars, clock, Inv, TypeOK
  <1> QED BY <1>2, <1>3, <1>4, <1>5 DEF Next

\* A scan leaves nobody asleep whose time is over and whose slot no SIG_KILL has
\* written to, for any number of sleepers and slots: scheduler_wake_timers never
\* takes an expired slot for one in the future as long as half the counter
\* exceeds the longest sleep and the lag of the scan together.
THEOREM ScansAreThorough == Spec => ScanWakesDue
  <1>1. Init => Inv /\ Recent
    <2>1. Init => Recent
      BY DEF Init, Recent, Overdue, Asleep
    <2> QED BY <2>1, InitInv
  <1>2. Inv /\ Recent /\ [Next]_vars => (Inv /\ Recent)'
    BY NextKeepsInv, NextKeepsRecent
  <1>3. Inv /\ Recent /\ [Next]_vars => [lag' = 0 /\ lag # 0
                                          => \A p \in Pids \ robbed : state'[p] = "blocked" => left[p] > 0]_vars
    BY ScanIsThorough
  <1> QED BY <1>1, <1>2, <1>3, PTL DEF Spec, ScanWakesDue

(***************************************************************************)
(* Who can lose a slot, and to whom.                                       *)
(***************************************************************************)
\* The signal phase frees the slot of the process it ends, which is its own.
LEMMA OnlyKillsRob ==
    ASSUME Inv, [Next]_vars, robbed = {}, killing = None
    PROVE  robbed' = {}
  <1>1. ASSUME NEW p \in Pids, Interrupt(p) PROVE robbed' = {}
    <2>1. Holders(WaitSlot(p)) \subseteq {p}
      <3>1. CASE object[p] \in Slots
        <4>1. state[p] = "blocked" /\ timerPid[object[p]] = p
          BY <1>1, <3>1 DEF Inv, ObjectIsWait, SleeperHasTimer, Interrupt
        <4> QED BY <3>1, <4>1 DEF Holders, WaitSlot
      <3>2. CASE object[p] \notin Slots
        BY <3>2 DEF Holders, WaitSlot
      <3> QED BY <3>1, <3>2
    <2> QED BY <1>1, <2>1 DEF Interrupt
  <1>2. ASSUME NEW p \in Pids, Sleep(p) \/ KillReason(p) \/ Reuse(p) PROVE robbed' = {}
    BY <1>2, CommitBlocksOrReturns DEF Sleep, Start, Block, Return, WakeTimers, KillReason, Reuse
  <1>3. ~Kill
    BY PidsAreBytes DEF Kill, KillObject, KillFree, KillClear, KillZombie, Inv, TypeOK
  <1>4. CASE Scan \/ Tick \/ UNCHANGED vars
    BY <1>4 DEF Scan, Tick, WakeTimers, vars
  <1> QED BY <1>1, <1>2, <1>3, <1>4 DEF Next

\* While no SIG_KILL is under way a death takes the slot of nobody else, for any
\* number of sleepers and slots.
THEOREM DeathsKeepToTheirOwn == Spec => DeathFreesItsOwn
  <1>1. Inv /\ [Next]_vars => [robbed = {} /\ killing = None => robbed' = {}]_vars
    BY OnlyKillsRob
  <1> QED BY <1>1, InitInv, NextKeepsInv, PTL DEF Spec, DeathFreesItsOwn

\* Where nobody is the target of a SIG_KILL nobody ever waits on a slot that is
\* not his: the window of proc_mark_zombie is the only way to lose one.
THEOREM UnkilledKeepTimers ==
    ASSUME Kills = {}
    PROVE  Spec => []NoDeadWait
  <1> DEFINE Calm == Inv /\ robbed = {} /\ killing = None
  <1>1. Init => Calm
    BY InitInv DEF Init
  <1>2. Calm /\ [Next]_vars => Calm'
    <2> SUFFICES ASSUME Calm, [Next]_vars PROVE Calm'
      OBVIOUS
    <2>1. Inv' /\ robbed' = {}
      BY NextKeepsInv, OnlyKillsRob
    <2>2. ASSUME NEW p \in Pids, Sleep(p) PROVE killing' = killing
      BY <2>2, CommitBlocksOrReturns DEF Sleep, Start, Commit, kill
    <2>3. ASSUME NEW p \in Pids, Interrupt(p) \/ KillReason(p) \/ Reuse(p) PROVE killing' = killing
      BY <2>3 DEF Interrupt, KillReason, Reuse, kill
    <2>4. ~Kill
      BY PidsAreBytes DEF Kill, KillObject, KillFree, KillClear, KillZombie, Inv, TypeOK
    <2>5. ASSUME Scan \/ Tick \/ UNCHANGED vars PROVE killing' = killing
      BY <2>5 DEF Scan, Tick, vars, kill
    <2> QED BY <2>1, <2>2, <2>3, <2>4, <2>5 DEF Next
  <1>3. Calm => NoDeadWait
    BY DEF Inv, SleeperHasTimer, NoDeadWait
  <1> QED BY <1>1, <1>2, <1>3, PTL DEF Spec
=============================================================================
