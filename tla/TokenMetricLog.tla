--------------------------- MODULE TokenMetricLog ---------------------------
(* The metric log of the token limits (core/llm_token_ratelimit): requests    *)
(* put items into a buffer, a full buffer, a ticker and Stop write it through *)
(* a buffered writer into files that are rotated by size.  Items are numbered *)
(* as they are recorded; sizes are counted in lines.  The process may be      *)
(* killed at any moment and start again on the files of the same day, and an  *)
(* operation on a file may fail.                                              *)
EXTENDS Integers, SequencesExt

CONSTANTS
    BufferSize,    \* MetricLogger.bufferSize
    MaxLogSize,    \* MetricLogger.maxFileSize
    MaxLogAmount,  \* MetricLogger.maxFileAmount
    MaxItems,      \* bound: items recorded
    MaxFaults      \* bound: kills and failed operations on files

ASSUME TokenLogAssumption ==
    /\ {BufferSize, MaxLogSize, MaxLogAmount} \subseteq Nat \ {0}
    /\ {MaxItems, MaxFaults} \subseteq Nat

VARIABLES
    process,   \* "off", "silent" without a logger, "up"
    recorded,  \* history: items given to Record
    buffer,
    at,        \* the place in the buffer of the goroutine that flushes
    flusher,   \* who holds mu and flushes
    writer,    \* "nil", "good", "failed" once a write has failed
    bufio,     \* lines in the buffered writer
    logFiles,  \* 0 is the file written, i the one with the suffix .i
    stop,      \* "no", "closed" for stopChan, "done"
    ticking,   \* the goroutine of startPeriodicFlush
    kills, faults,
    lost,      \* history: items lost to a kill, a panic or a failed write
    dropped    \* history: items of files that a rotation removed

tokenLogVars == <<process, recorded, buffer, at, flusher, writer, bufio, logFiles, stop, ticking,
                  kills, faults, lost, dropped>>

LinesOf(fs) == UNION {Range(fs[i]) : i \in DOMAIN fs}

----------------------------------------------------------------------------
(* Files                                                                     *)

\* The loop begins one file too low, and the last but one is overwritten.
ShiftFromMutant(fs, k) ==
    [i \in {j \in DOMAIN fs : j < k} \cup {j + 1 : j \in DOMAIN fs \cap (k..MaxLogAmount - 2)} |->
        IF i < k THEN fs[i] ELSE fs[i - 1]]

\* The files from k on have got the next suffix; .maxFileAmount is gone.
ShiftFrom(fs, k) ==
    [i \in {j \in DOMAIN fs : j < k} \cup {j + 1 : j \in DOMAIN fs \cap (k..MaxLogAmount - 1)} |->
        IF i < k THEN fs[i] ELSE fs[i - 1]]

Opened(fs) == [i \in DOMAIN fs \cup {0} |-> IF i \in DOMAIN fs THEN fs[i] ELSE <<>>]

RotateLogFile(fs) == Opened(ShiftFrom(fs, 0))

\* The open fails, the first removal or rename fails, or the rename of .i fails.
FailedRotations(fs) ==
    {ShiftFrom(fs, 0), fs} \cup
        {ShiftFrom(fs, i + 1) : i \in {j \in DOMAIN fs : j < MaxLogAmount /\ MaxLogAmount > 1}}

Removed(fs, new) == IF MaxLogAmount \in DOMAIN fs THEN Range(fs[MaxLogAmount]) \ LinesOf(new) ELSE {}

Fault == faults < MaxFaults /\ faults' = faults + 1

\* InitMetricLogger, createOrOpenLogFile: a file that is full is rotated first.
InitMetricLogger ==
    /\ process = "off"
    /\ LET full == 0 \in DOMAIN logFiles /\ Len(logFiles[0]) >= MaxLogSize
       IN  \/ /\ logFiles' = IF full THEN RotateLogFile(logFiles) ELSE Opened(logFiles)
              /\ process' = "up" /\ writer' = "good" /\ ticking' = TRUE
              /\ UNCHANGED faults
           \/ /\ Fault
              /\ logFiles' \in IF full THEN FailedRotations(logFiles) ELSE {logFiles}
              /\ process' = "silent"
              /\ UNCHANGED <<writer, ticking>>
    /\ dropped' = dropped \cup Removed(logFiles, logFiles')
    /\ UNCHANGED <<recorded, buffer, at, flusher, bufio, stop, kills, lost>>

----------------------------------------------------------------------------
(* Recording and flushing                                                    *)

Free == process = "up" /\ flusher = "nobody"

\* flushUnsafe returns at once without items or a writer.
FlushUnsafe(who, items) ==
    flusher' = IF items = <<>> \/ writer = "nil" THEN "nobody" ELSE who

Record ==
    /\ Free /\ recorded < MaxItems
    /\ recorded' = recorded + 1
    /\ buffer' = Append(buffer, recorded + 1)
    /\ IF Len(buffer') > BufferSize THEN FlushUnsafe("request", buffer') ELSE UNCHANGED flusher
    /\ UNCHANGED <<process, at, writer, bufio, logFiles, stop, ticking, kills, faults, lost, dropped>>

\* A tick, or stopChan, after which the goroutine leaves; both may be ready.
PeriodicFlush ==
    /\ Free /\ ticking
    /\ FlushUnsafe("ticker", buffer)
    /\ \/ UNCHANGED ticking /\ flusher' # flusher
       \/ stop # "no" /\ ticking' = FALSE
    /\ UNCHANGED <<process, recorded, buffer, at, writer, bufio, logFiles, stop, kills, faults, lost,
                   dropped>>

\* What a flush that fails, or a kill, still brings into the file
Reached(fs, k) == [fs EXCEPT ![0] = @ \o SubSeq(bufio, 1, k)]
Full == writer = "good" /\ Len(logFiles[0]) + Len(bufio) >= MaxLogSize

\* After an error the buffered writer refuses every line, and the size that
\* would lead to a new writer no longer grows.
WriteLine ==
    /\ flusher # "nobody" /\ at <= Len(buffer) /\ ~Full
    /\ at' = at + 1
    /\ IF writer = "failed"
       THEN lost' = lost \cup {buffer[at]} /\ UNCHANGED bufio
       ELSE bufio' = Append(bufio, buffer[at]) /\ UNCHANGED lost
    /\ UNCHANGED <<process, recorded, buffer, flusher, writer, logFiles, stop, ticking, kills, faults,
                   dropped>>

\* A process that ends: lines that are only in memory are lost.
Ends(fs) ==
    /\ process' = "off" /\ buffer' = <<>> /\ at' = 1 /\ flusher' = "nobody" /\ writer' = "nil"
    /\ stop' = "no" /\ ticking' = FALSE
    /\ lost' = lost \cup ((Range(buffer) \cup Range(bufio)) \ LinesOf(fs))

\* The next use of the missing writer panics: slots and Exit recover a request,
\* nobody the ticker.  The buffer stays as it is.
PanicsWithoutWriter ==
    IF flusher = "ticker" THEN Ends(logFiles')
    ELSE /\ writer' = "nil" /\ at' = 1 /\ flusher' = "nobody"
         /\ UNCHANGED <<process, buffer, stop, ticking, lost>>

\* The line that reached the size is flushed and the files are rotated, whether
\* the flush succeeds or not; a rotation that fails leaves no writer.
RotateIfFull ==
    /\ flusher # "nobody" /\ Full
    /\ bufio' = <<>>
    /\ \/ /\ logFiles' = RotateLogFile(Reached(logFiles, Len(bufio)))
          /\ UNCHANGED <<process, buffer, at, flusher, writer, stop, ticking, faults, lost>>
       \/ /\ Fault
          /\ \E k \in 0..Len(bufio) - 1 :
                /\ logFiles' = RotateLogFile(Reached(logFiles, k))
                /\ lost' = lost \cup Range(SubSeq(bufio, k + 1, Len(bufio)))
          /\ UNCHANGED <<process, buffer, at, flusher, writer, stop, ticking>>
       \/ /\ Fault
          /\ logFiles' \in FailedRotations(Reached(logFiles, Len(bufio)))
          /\ PanicsWithoutWriter
    /\ dropped' = dropped \cup Removed(logFiles, logFiles')
    /\ UNCHANGED <<recorded, kills>>

\* The last flush; the buffer is emptied even when it fails.
EndFlush ==
    /\ flusher # "nobody" /\ at > Len(buffer) /\ ~Full
    /\ bufio' = <<>> /\ buffer' = <<>> /\ at' = 1 /\ flusher' = "nobody"
    /\ \/ /\ logFiles' = Reached(logFiles, Len(bufio))
          /\ writer' = IF flusher = "stopper" THEN "nil" ELSE writer
          /\ UNCHANGED <<faults, lost>>
       \/ /\ Fault
          /\ \E k \in 0..Len(bufio) - 1 :
                /\ logFiles' = Reached(logFiles, k)
                /\ lost' = lost \cup Range(SubSeq(bufio, k + 1, Len(bufio)))
          /\ writer' = IF flusher = "stopper" THEN "nil" ELSE "failed"
    /\ UNCHANGED <<process, recorded, stop, ticking, kills, dropped>>

\* Stop closes the channel first; a second Stop would panic there.
CloseStopChan ==
    /\ process = "up" /\ stop = "no"
    /\ stop' = "closed"
    /\ UNCHANGED <<process, recorded, buffer, at, flusher, writer, bufio, logFiles, ticking, kills,
                   faults, lost, dropped>>

StopFlush ==
    /\ Free /\ stop = "closed"
    /\ stop' = "done"
    /\ FlushUnsafe("stopper", buffer)
    /\ writer' = IF flusher' = "stopper" THEN writer ELSE "nil"
    /\ UNCHANGED <<process, recorded, buffer, at, bufio, logFiles, ticking, kills, faults, lost, dropped>>

\* The system kills the process.
Kill ==
    /\ process # "off" /\ kills < MaxFaults
    /\ kills' = kills + 1
    /\ \E k \in 0..Len(bufio) : logFiles' = IF k = 0 THEN logFiles ELSE Reached(logFiles, k)
    /\ bufio' = <<>>
    /\ UNCHANGED <<recorded, faults, dropped>>
    /\ Ends(logFiles')

----------------------------------------------------------------------------

TokenLogInit ==
    /\ process = "off" /\ recorded = 0
    /\ buffer = <<>> /\ at = 1 /\ flusher = "nobody"
    /\ writer = "nil" /\ bufio = <<>> /\ logFiles = <<>>
    /\ stop = "no" /\ ticking = FALSE
    /\ kills = 0 /\ faults = 0 /\ lost = {} /\ dropped = {}

TokenLogNext ==
    \/ InitMetricLogger \/ Record \/ PeriodicFlush \/ WriteLine \/ RotateIfFull \/ EndFlush
    \/ CloseStopChan \/ StopFlush \/ Kill

TokenLogSpec == TokenLogInit /\ [][TokenLogNext]_tokenLogVars

----------------------------------------------------------------------------

\* The files from the oldest to the one written
InOrder(fs) ==
    FlattenSeq([n \in 1..MaxLogAmount + 1 |->
        IF MaxLogAmount + 1 - n \in DOMAIN fs THEN fs[MaxLogAmount + 1 - n] ELSE <<>>])

\* Whenever the process is killed and whichever operation on a file fails, no item
\* is written twice or out of order; every item is in a file or still in memory,
\* unless a kill, a panic or a failed write took it or a rotation removed it; a
\* rotation removes a file only behind maxFileAmount full ones unless an earlier
\* operation failed; and with a writer a kill takes no more than a buffer.
TokenLogKept ==
    LET all == InOrder(logFiles) \o bufio \o
                   (IF writer = "nil" THEN <<>> ELSE SubSeq(buffer, at, Len(buffer)))
    IN  /\ \A i \in 1..Len(all) - 1 : all[i] < all[i + 1]
        /\ 1..recorded = LinesOf(logFiles) \cup Range(bufio) \cup Range(buffer) \cup lost \cup dropped
        /\ dropped # {} /\ faults = 0 =>
               \A i \in 1..MaxLogAmount : i \in DOMAIN logFiles /\ Len(logFiles[i]) = MaxLogSize
        /\ writer = "good" => Len(buffer) <= BufferSize + 1
=============================================================================
