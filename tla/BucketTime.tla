----------------------------- MODULE BucketTime -----------------------------
(***************************************************************************)
(* The time arithmetic of core/stat/base.LeapArray: a ring of BucketCount  *)
(* buckets, each BucketLen long, indexed by the clock.                     *)
(***************************************************************************)
EXTENDS Integers

CONSTANTS
    BucketCount,    \* LeapArray.sampleCount
    BucketLen,      \* LeapArray.bucketLengthInMs
    StartTime       \* the clock when the array is built

ASSUME BucketAssumption ==
    /\ BucketCount \in Nat \ {0} /\ BucketLen \in Nat \ {0}
    /\ StartTime \in Nat \ {0}

BucketIds == 0 .. BucketCount - 1

Interval == BucketCount * BucketLen

\* calculateStartTime
StartOf(t) == t - (t % BucketLen)

IdxOfMutant(t) == (t \div Interval) % BucketCount

\* calculateTimeIdx
IdxOf(t) == (t \div BucketLen) % BucketCount

FirstStartMutant(i) == StartOf(StartTime)

\* NewAtomicBucketWrapArrayWithTime: the bucket of the present, then those of
\* the coming cycle, so the array is born with buckets that lie ahead.
FirstStart(i) ==
    StartOf(StartTime)
      + ((i + BucketCount - IdxOf(StartTime)) % BucketCount) * BucketLen

\* isBucketDeprecated.  The uint64 subtraction wraps for a bucket that lies
\* ahead, which makes such a bucket deprecated too.
Deprecated(t, start) == start > t \/ t - start > Interval
=============================================================================
