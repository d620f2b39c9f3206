----------------------------- MODULE MetricLog -----------------------------
(* The metric log of core/log/metric on top of the statistics of a node: the  *)
(* task that aggregates finished seconds, the channel, the task that writes   *)
(* them into rolling files with an index, and the searcher that reads them    *)
(* back.  The resource and the inbound node see the same requests here and    *)
(* have a line each.  Sizes and offsets are counted in lines.                 *)
EXTENDS SlidingWindow, SequencesExt

CONSTANTS
    SecondLen,      \* 1000 ms
    DayLen,         \* 86400 seconds
    QueueSize,      \* logFlushQueueSize
    MaxSingleSize,  \* DefaultMetricLogWriter.maxSingleSize
    MaxFileAmount   \* DefaultMetricLogWriter.maxFileAmount

ASSUME LogAssumption ==
    /\ SecondLen \in Nat \ {0} /\ SecondLen % BucketLen = 0 /\ DayLen \in Nat \ {0}
    /\ QueueSize \in Nat \ {0} /\ MaxSingleSize \in Nat \ {0} /\ MaxFileAmount \in Nat \ {0}

VARIABLES
    lastFetchTime,
    writeChan,   \* the channel; an element more is a sender that waits
    writing,     \* what the write task has received and not yet written
    latestOpSec,
    files,       \* in the order of their names; the last one is written
    late,        \* history: seconds fetched after their buckets may be reused
    removed      \* history: seconds whose lines were removed with their file

logVars == <<lastFetchTime, writeChan, writing, latestOpSec, files, late, removed>>

SecOf(t) == t \div SecondLen
DayOf(sec) == sec \div DayLen

----------------------------------------------------------------------------
(* The aggregating task                                                      *)

\* metricItemFromBuckets
MetricItem(sec, ids) ==
    LET complete == Total(win, "complete", ids)
        rt == Total(win, "rt", ids)
    IN  [sec |-> sec, pass |-> Total(win, "pass", ids), complete |-> complete,
         avgRt |-> IF complete > 0 THEN rt \div complete ELSE rt,
         concurrency |-> Max({win[i].maxConcurrency : i \in ids} \cup {0})]

IsActiveMetricItem(item) ==
    item.pass > 0 \/ item.complete > 0 \/ item.avgRt > 0 \/ item.concurrency > 0

IsItemTimestampInTimeMutant(ts, cur) == ts >= lastFetchTime /\ ts <= cur

IsItemTimestampInTime(ts, cur) == ts >= lastFetchTime /\ ts < cur

\* SecondMetricsOnCondition does not refresh the bucket of the present.
CurrentMetricItems(cur) ==
    LET ids == {i \in Values(win, now) : IsItemTimestampInTime(win[i].start, cur)}
        of(sec) == {i \in ids : SecOf(win[i].start) = sec}
    IN  {item \in {MetricItem(sec, of(sec)) : sec \in {SecOf(win[i].start) : i \in ids}} :
            IsActiveMetricItem(item)}

\* The time is remembered before the channel takes the items.
DoAggregate ==
    LET cur == now - (now % SecondLen)
        items == CurrentMetricItems(cur)
    IN  /\ Len(writeChan) <= QueueSize
        /\ cur > lastFetchTime
        /\ lastFetchTime' = cur
        /\ writeChan' = IF items = {} THEN writeChan ELSE Append(writeChan, items)
        /\ late' = late \cup {sec \in SecOf(Max({lastFetchTime, StartTime})) .. SecOf(cur) - 1 :
                                 now >= sec * SecondLen + Interval}
        /\ UNCHANGED <<vars, writing, latestOpSec, files, removed>>

----------------------------------------------------------------------------
(* The writing task                                                          *)

NewFile(day, no) == [day |-> day, no |-> no, lines |-> <<>>, idx |-> <<>>]

\* nextFileNameOfTime: a number after the last one of the day.
NextFile(fs, sec) ==
    LET same == SelectSeq(fs, LAMBDA f : f.day = DayOf(sec))
    IN  NewFile(DayOf(sec), IF same = <<>> THEN 0 ELSE Last(same).no + 1)

\* closeCurAndNewFile: the oldest files go first, so that the new one fits.
ClosedAndNew(fs, new) ==
    LET amountToRemove == Max({0, Len(fs) - MaxFileAmount + 1})
    IN  Append(SubSeq(fs, amountToRemove + 1, Len(fs)), new)

RollToNextFile(fs, sec) == ClosedAndNew(fs, NextFile(fs, sec))

WriteIndex(fs, sec) ==
    [fs EXCEPT ![Len(fs)].idx = Append(@, [sec |-> sec, offset |-> Len(fs[Len(fs)].lines)])]

WriteItems(fs, item) ==
    [fs EXCEPT ![Len(fs)].lines =
        @ \o <<[resource |-> "resource", item |-> item], [resource |-> "inbound", item |-> item]>>]

RollFileIfSizeExceeded(fs, sec) ==
    IF Len(Last(fs).lines) >= MaxSingleSize THEN RollToNextFile(fs, sec) ELSE fs

\* The index entry follows the lines.
WrittenMutant(item) ==
    LET new == item.sec > latestOpSec
        rolled == IF new /\ DayOf(item.sec) > DayOf(latestOpSec)
                  THEN RollToNextFile(files, item.sec) ELSE files
        lines == WriteItems(rolled, item)
    IN  RollFileIfSizeExceeded(IF new THEN WriteIndex(lines, item.sec) ELSE lines, item.sec)

\* The index entry of a new day still goes to the file of the day before.
Written(item) ==
    LET new == item.sec > latestOpSec
        indexed == IF new THEN WriteIndex(files, item.sec) ELSE files
        rolled == IF new /\ DayOf(item.sec) > DayOf(latestOpSec)
                  THEN RollToNextFile(indexed, item.sec) ELSE indexed
    IN  RollFileIfSizeExceeded(WriteItems(rolled, item), item.sec)

AllLines(fs) == FlattenSeq([i \in DOMAIN fs |-> fs[i].lines])
SecondsOf(lines) == {lines[k].item.sec : k \in DOMAIN lines}

Receive ==
    /\ writing = {} /\ writeChan # <<>>
    /\ writing' = Head(writeChan)
    /\ writeChan' = Tail(writeChan)
    /\ UNCHANGED <<vars, lastFetchTime, latestOpSec, files, late, removed>>

\* The seconds of a map are written in their order.
Write ==
    /\ writing # {}
    /\ LET item == CHOOSE i \in writing : \A j \in writing : i.sec <= j.sec
       IN  /\ writing' = writing \ {item}
           /\ IF item.sec < latestOpSec
              THEN UNCHANGED <<files, latestOpSec, removed>>
              ELSE /\ files' = Written(item)
                   /\ latestOpSec' = item.sec
                   /\ removed' = removed \cup
                        (({item.sec} \cup SecondsOf(AllLines(files))) \ SecondsOf(AllLines(files')))
    /\ UNCHANGED <<vars, lastFetchTime, writeChan, late>>

----------------------------------------------------------------------------
(* The searcher                                                              *)

NoPosition == [name |-> <<>>, offset |-> 0, sec |-> 0]
Name(f) == <<f.day, f.no>>

\* isPositionInTimeFor, for a directory that did not change since
IsPositionInTimeFor(pos, begin) == begin >= pos.sec /\ pos.name # <<>>

\* getOffsetStartAndFileIdx looks for a file that is not the one remembered.
OffsetStartAndFileIdx(fs, pos, begin) ==
    LET others == {i \in DOMAIN fs : Name(fs[i]) # pos.name}
    IN  IF IsPositionInTimeFor(pos, begin) /\ others # {}
        THEN [offset |-> pos.offset, fileNo |-> Min(others)]
        ELSE [offset |-> 0, fileNo |-> 1]

\* findOffsetToStart: the first entry of the index, from start on, that is not
\* before the time.
EntriesFrom(f, begin, start) == {k \in DOMAIN f.idx : k > start /\ f.idx[k].sec >= begin}

\* searchOffsetAndRead: where to read, and the position to remember; start is
\* used for all the files.
SearchOffset(fs, pos, begin) ==
    LET from == OffsetStartAndFileIdx(fs, pos, begin)
        hits == {i \in from.fileNo..Len(fs) : EntriesFrom(fs[i], begin, from.offset) # {}}
        i == Min(hits)
        k == Min(EntriesFrom(fs[i], begin, from.offset))
    IN  IF hits = {} THEN {}
        ELSE {[fileNo |-> i, offset |-> fs[i].idx[k].offset,
               pos |-> [name |-> Name(fs[i]), offset |-> k - 1, sec |-> fs[i].idx[k].sec]]}

\* readMetricsInOneFileByEndTime over the files: up to the first line outside.
ReadMetricsByEndTime(lines, begin, end, resource) ==
    LET outside == {k \in DOMAIN lines : lines[k].item.sec < begin \/ lines[k].item.sec > end}
        stop == Min(outside \cup {Len(lines) + 1})
    IN  SelectSeq(SubSeq(lines, 1, stop - 1), LAMBDA l : l.resource = resource)

\* The files from the place found on, the first without what is before it.
FilesFrom(fs, at) ==
    <<[fs[at.fileNo] EXCEPT !.lines = SubSeq(@, at.offset + 1, Len(@))]>>
        \o SubSeq(fs, at.fileNo + 1, Len(fs))

FindByTimeAndResource(fs, pos, begin, end, resource) ==
    FlattenSeq(SetToSeq({ReadMetricsByEndTime(AllLines(FilesFrom(fs, at)), begin, end, resource) :
                            at \in SearchOffset(fs, pos, begin)}))

\* readMetricsInOneFile: some lines, and the rest of the last one's second.
ReadMetricsInOneFile(lines, amount) ==
    LET stops == {k \in DOMAIN lines : k > amount /\ lines[k].item.sec # lines[k - 1].item.sec}
    IN  SubSeq(lines, 1, Min(stops \cup {Len(lines) + 1}) - 1)

ReadMetrics(fs, maxLines) ==
    FoldLeft(LAMBDA items, f :
                 IF Len(items) >= maxLines THEN items
                 ELSE items \o ReadMetricsInOneFile(f.lines, maxLines - Len(items)),
             <<>>, fs)

FindFromTimeWithMaxLines(fs, pos, begin, maxLines) ==
    FlattenSeq(SetToSeq({ReadMetrics(FilesFrom(fs, at), maxLines) : at \in SearchOffset(fs, pos, begin)}))

----------------------------------------------------------------------------

\* initialize rolls to the first file.
FirstFile == NextFile(<<>>, SecOf(StartTime))

LogInit ==
    /\ Init
    /\ lastFetchTime = -1
    /\ writeChan = <<>> /\ writing = {}
    /\ latestOpSec = SecOf(StartTime)
    /\ files = <<FirstFile>>
    /\ late = {} /\ removed = {}

LogNext ==
    \/ Next /\ UNCHANGED logVars
    \/ DoAggregate \/ Receive \/ Write

LogSpec == LogInit /\ [][LogNext]_<<vars, logVars>>

----------------------------------------------------------------------------

Fetched == UNION (Range(writeChan) \cup {writing})
Items == Fetched \cup {AllLines(files)[k].item : k \in DOMAIN AllLines(files)}

Recorded(op, sec) == Within(op, sec * SecondLen, (sec + 1) * SecondLen)

\* Every second that the aggregating task has passed over is in the channel or in
\* the log, once and with the counts of exactly that second, however late the
\* tasks run, unless its file was removed or the task came after the buckets of
\* the second had been reused.
LoggedExact ==
    \A sec \in SecOf(StartTime) .. SecOf(now) :
        sec * SecondLen < lastFetchTime /\ sec \notin late \cup removed =>
            LET items == {i \in Items : i.sec = sec}
                passes == Recorded("pass", sec)
                completes == Recorded("complete", sec)
            IN  IF passes \cup completes = {} THEN items = {}
                ELSE /\ Cardinality(items) = 1
                     /\ \A i \in items : /\ i.pass = Cardinality(passes)
                                         /\ i.complete = Cardinality(completes)

\* Seconds that no index leads to: the first one, because the writer starts with
\* it as the latest second, and the first of the oldest file, because the index
\* entry of a new day is in the file of the day before.
Blind ==
    {SecOf(StartTime)} \cup
        (IF Name(files[1]) = Name(FirstFile) \/ AllLines(files) = <<>> THEN {}
         ELSE {AllLines(files)[1].item.sec})

\* A new searcher finds every line of the log within the time asked for, across
\* files that were rolled by size and by day, except those of blind seconds.  One
\* that remembers a position finds the same as long as there is one file.  A
\* limit on the number of lines is reached unless the log ends, and cuts no second
\* in two.
SearchFinds ==
    LET secs == SecOf(StartTime) .. SecOf(now)
        lines == AllLines(files)
        all == SelectSeq(lines, LAMBDA l : l.resource = "resource")
        find(pos, b, e) == FindByTimeAndResource(files, pos, b, e, "resource")
        whole(got, n) ==
            \E from \in 0..(Len(lines) - Len(got)) :
              LET end == from + Len(got)
              IN  /\ got = SubSeq(lines, from + 1, end)
                  /\ \/ end = Len(lines)
                     \/ Len(got) >= n /\ lines[end + 1].item.sec # Last(got).item.sec
    IN  \A b \in secs :
          /\ \A e \in b..SecOf(now) :
               /\ \E skip \in SUBSET Blind :
                    find(NoPosition, b, e) = SelectSeq(all, LAMBDA l : l.item.sec \in (b..e) \ skip)
               /\ Len(files) = 1 =>
                    \A earlier \in secs : \A f \in SearchOffset(files, NoPosition, earlier) :
                      find(f.pos, b, e) = find(NoPosition, b, e)
          /\ \A n \in {1, 3} :
               LET got == FindFromTimeWithMaxLines(files, NoPosition, b, n)
               IN  got # <<>> => whole(got, n)

\* From the statistics to the answer of a search: what SearchFinds says is found
\* is what LoggedExact says was counted.
FoundExact == LoggedExact /\ SearchFinds
=============================================================================
