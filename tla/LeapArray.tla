------------------------------ MODULE LeapArray ------------------------------
(***************************************************************************)
(* core/stat/base.BucketLeapArray under concurrent use.  Goroutines add to *)
(* the bucket of the present (AddCount) or sum the valid buckets (Count).  *)
(* A step is one atomic access of the Go code: each load of BucketStart,   *)
(* the TryLock, the two halves of ResetBucketTo, the unlock, the add.      *)
(*                                                                         *)
(* currentBucketOfTime compares BucketStart up to three times in a turn of *)
(* its loop and takes another turn when they disagree, so that the turn in *)
(* which it decides behaves as if it had loaded once.  One event counter   *)
(* stands for all of MetricBucket.counter.                                 *)
(***************************************************************************)
EXTENDS BucketTime

CONSTANTS
    Gor,        \* goroutines
    NoGor,      \* nobody holds updateLock
    MaxTime,    \* bound: the clock stops there
    MaxOps,     \* bound: operations over all goroutines
    MaxLag      \* bound: how long the clock runs on during one operation

ASSUME GorAssumption == NoGor \notin Gor
ASSUME BoundAssumption ==
    MaxTime \in Nat /\ MaxTime >= StartTime /\ MaxOps \in Nat /\ MaxLag \in Nat

VARIABLES
    now,        \* util.CurrentTimeMillis()
    win,        \* AtomicBucketWrapArray.data: BucketStart and counter
    lock,       \* LeapArray.updateLock
    pc,         \* next atomic access of each goroutine
    reg,        \* locals: operation, its clock, loop index, buckets kept, sum
    ops,        \* operations started so far
    added       \* history: adds made for each bucket start

vars == <<now, win, lock, pc, reg, ops, added>>

Starts == {StartOf(t) : t \in 0 .. MaxTime}

Locals(op, t) == [op |-> op, t |-> t, i |-> 0, kept |-> {}, sum |-> 0]

NoLocals == Locals("none", 0)

\* Places inside currentBucketOfTime.
Refreshing == {"load", "tryLock", "storeStart", "resetCount", "unlock"}

PcSet == Refreshing \cup {"idle", "add", "collect", "sum", "return"}

Goto(g, place) == pc' = [pc EXCEPT ![g] = place]
Leave(g) == Goto(g, "idle") /\ reg' = [reg EXCEPT ![g] = NoLocals]

\* Where an operation goes on once it has its bucket.
Resume(g) == IF reg[g].op = "AddCount" THEN "add" ELSE "collect"

\* The bucket an operation works on, and the start it wants that bucket to have.
Slot(g) == IdxOf(reg[g].t)
Wanted(g) == StartOf(reg[g].t)

Init ==
    /\ now = StartTime
    /\ win = [i \in BucketIds |-> [start |-> FirstStart(i), count |-> 0]]
    /\ lock = NoGor
    /\ pc = [g \in Gor |-> "idle"]
    /\ reg = [g \in Gor |-> NoLocals]
    /\ ops = 0
    /\ added = [s \in Starts |-> 0]

\* Time passes.  No operation is held up for longer than MaxLag.
Tick ==
    /\ now < MaxTime
    /\ \A g \in Gor : pc[g] # "idle" => now - reg[g].t < MaxLag
    /\ now' = now + 1
    /\ UNCHANGED <<win, lock, pc, reg, ops, added>>

\* AddCount and Count read the clock.
Begin(g) ==
    /\ pc[g] = "idle"
    /\ ops < MaxOps
    /\ ops' = ops + 1
    /\ \E op \in {"AddCount", "Count"} :
         reg' = [reg EXCEPT ![g] = Locals(op, now)]
    /\ Goto(g, "load")
    /\ UNCHANGED <<now, win, lock, added>>

\* A reader goes on after the error, an adder gives up.
LoadBucketStart(g) ==
    /\ pc[g] = "load"
    /\ LET start == win[Slot(g)].start IN
       \/ /\ \/ Wanted(g) = start
             \/ Wanted(g) < start /\ (BucketCount = 1 \/ reg[g].op = "Count")
          /\ Goto(g, Resume(g))
          /\ UNCHANGED reg
       \/ /\ Wanted(g) > start
          /\ Goto(g, "tryLock")
          /\ UNCHANGED reg
       \/ /\ Wanted(g) < start /\ BucketCount # 1 /\ reg[g].op = "AddCount"
          /\ Leave(g)
    /\ UNCHANGED <<now, win, lock, ops, added>>

\* mutex.TryLock; the loser yields and looks again.
TryLock(g) ==
    /\ pc[g] = "tryLock"
    /\ \/ lock = NoGor /\ lock' = g /\ Goto(g, "storeStart")
       \/ lock # NoGor /\ UNCHANGED lock /\ Goto(g, "load")
    /\ UNCHANGED <<now, win, reg, ops, added>>

\* ResetBucketTo, first half: the bucket takes its new start.
StoreStart(g) ==
    /\ pc[g] = "storeStart"
    /\ win' = [win EXCEPT ![Slot(g)] = [start |-> Wanted(g), count |-> @.count]]
    /\ Goto(g, "resetCount")
    /\ UNCHANGED <<now, lock, reg, ops, added>>

\* ResetBucketTo, second half: MetricBucket.reset.
ResetCount(g) ==
    /\ pc[g] = "resetCount"
    /\ win' = [win EXCEPT ![Slot(g)] = [start |-> @.start, count |-> 0]]
    /\ Goto(g, "unlock")
    /\ UNCHANGED <<now, lock, reg, ops, added>>

UnlockMutant(g) ==
    /\ pc[g] = "unlock"
    /\ Goto(g, Resume(g))
    /\ UNCHANGED <<now, win, lock, reg, ops, added>>

Unlock(g) ==
    /\ pc[g] = "unlock"
    /\ lock' = NoGor
    /\ Goto(g, Resume(g))
    /\ UNCHANGED <<now, win, reg, ops, added>>

\* MetricBucket.addCount, on the bucket found before, whatever it holds now.
Add(g) ==
    /\ pc[g] = "add"
    /\ win' = [win EXCEPT ![Slot(g)] = [start |-> @.start, count |-> @.count + 1]]
    /\ added' = [added EXCEPT ![Wanted(g)] = @ + 1]
    /\ Leave(g)
    /\ UNCHANGED <<now, lock, ops>>

\* valuesWithTime: one bucket at a time, kept unless deprecated.
Collect(g) ==
    /\ pc[g] = "collect"
    /\ LET i == reg[g].i IN
       \/ /\ i < BucketCount
          /\ reg' = [reg EXCEPT ![g].i = i + 1,
                                ![g].kept = IF Deprecated(reg[g].t, win[i].start)
                                            THEN @ ELSE @ \cup {i}]
          /\ UNCHANGED pc
       \/ /\ i = BucketCount
          /\ reg' = [reg EXCEPT ![g].i = 0]
          /\ Goto(g, "sum")
    /\ UNCHANGED <<now, win, lock, ops, added>>

\* CountWithTime: the buckets kept are read one by one.
Sum(g) ==
    /\ pc[g] = "sum"
    /\ LET i == reg[g].i IN
       \/ /\ i < BucketCount
          /\ reg' = [reg EXCEPT ![g].i = i + 1,
                                ![g].sum = IF i \in reg[g].kept
                                           THEN @ + win[i].count ELSE @]
          /\ UNCHANGED pc
       \/ /\ i = BucketCount
          /\ Goto(g, "return")
          /\ UNCHANGED reg
    /\ UNCHANGED <<now, win, lock, ops, added>>

Return(g) ==
    /\ pc[g] = "return"
    /\ Leave(g)
    /\ UNCHANGED <<now, win, lock, ops, added>>

Step(g) ==
    \/ LoadBucketStart(g) \/ TryLock(g) \/ StoreStart(g) \/ ResetCount(g) \/ Unlock(g)
    \/ Add(g) \/ Collect(g) \/ Sum(g) \/ Return(g)

Next == Tick \/ \E g \in Gor : Begin(g) \/ Step(g)

Spec == Init /\ [][Next]_vars

\* The Go scheduler lets every runnable goroutine run.
FairSpec == Spec /\ \A g \in Gor : WF_vars(Step(g))

------------------------------------------------------------------------------

TypeOK ==
    /\ now \in Nat
    /\ win \in [BucketIds -> [start : Nat, count : Nat]]
    /\ lock \in Gor \cup {NoGor}
    /\ pc \in [Gor -> PcSet]
    /\ reg \in [Gor -> [op : {"none", "AddCount", "Count"}, t : Nat,
                        i : 0 .. BucketCount, kept : SUBSET BucketIds, sum : Nat]]
    /\ ops \in Nat
    /\ added \in [Starts -> Nat]

\* Under every interleaving a bucket's start is a bucket boundary that maps back
\* to that bucket's own index: StartOf, IdxOf and ResetBucketTo agree, so no two
\* buckets ever cover the same span and no sum counts a span twice.
Aligned ==
    \A i \in BucketIds : StartOf(win[i].start) = win[i].start /\ IdxOf(win[i].start) = i

\* A bucket is rewound by nobody: currentBucketOfTime decides on a start it
\* loaded before it took the lock, and still never moves a bucket back in time,
\* as long as no operation is delayed beyond the span of the other buckets.
NeverRewound == [][\A i \in BucketIds : win'[i].start >= win[i].start]_vars

\* Until the ring wraps for the first time every add is in the bucket of its
\* span and stays there, however the goroutines interleave: the array is born
\* with the starts of its first cycle, so nobody resets a bucket.
FirstCycleExact ==
    now < StartOf(StartTime) + Interval =>
        \A i \in BucketIds :
            win[i].count = IF win[i].start \in Starts THEN added[win[i].start] ELSE 0

\* Every AddCount and every Count returns: the spin on updateLock ends, since
\* its holder lets go and has then advanced the bucket the others wait for.
Returns == \A g \in Gor : (pc[g] # "idle") ~> (pc[g] = "idle")

==============================================================================
