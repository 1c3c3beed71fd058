----------------------------- MODULE RequestLog -----------------------------
(***************************************************************************)
(* The request log: requestLogStore (requests.go) with its ring in memory  *)
(* and requestLogFile (persist.go) with its JSONL file, across crashes and *)
(* restarts. add and clear run under both mutexes, so that one step is     *)
(* what lies between two system calls after which a crash differs.         *)
(* A line is the ID and the length of its entry, newline included; of an   *)
(* entry cut short only its length is kept.                                *)
(***************************************************************************)
EXTENDS Integers, FiniteSets, SequencesExt

CONSTANTS
    Sizes,      \* lengths of encoded entries
    MaxBytes,   \* request_log_max_bytes; 0 is no limit
    RingLimit,  \* request_log_limit
    Files,      \* what an earlier version or limit may have left: lines and tail
    MaxID       \* bound on nextID

ASSUME RequestLogAssumption ==
    /\ Sizes \subseteq Nat \ {0, 1}
    /\ MaxBytes \in Nat /\ RingLimit \in Nat \ {0} /\ MaxID \in Nat
    /\ Files \subseteq [lines : Seq([id : Nat \ {0}, size : Nat \ {0}]), tail : Nat \cup {-1}]
    /\ \A f \in Files :
          /\ f.lines = << >> => f.tail # -1
          /\ \A i, j \in 1..Len(f.lines) : i < j => f.lines[i].id < f.lines[j].id

\* The limit has not been lowered so far that the newest entry of an earlier file, with
\* what follows it, exceeds it.
ASSUME NewestFits ==
    \A f \in Files : MaxBytes > 0 /\ f.lines # << >> => Last(f.lines).size + f.tail <= MaxBytes

VARIABLES
    lines,    \* the whole entries of the file
    tail,     \* bytes behind them, of an interrupted line; -1 if the last newline is missing
    open,     \* requestLogFile.file is not nil
    warned,   \* requestLogFile.lastError is set
    ring,     \* requestLogStore.entries, by their IDs
    nextID,   \* requestLogStore.nextID
    pc,       \* where the holder of the store's mutex stands
    cur,      \* the entry it adds, NoEntry otherwise
    reading   \* what a report that holds the read lock found at first, or NoReport

logVars == <<lines, tail, open, warned, ring, nextID, pc, cur, reading>>

NoEntry == [id |-> 0, size |-> 0]

NoReport == <<0>>

Bytes(s) ==
    LET upTo[i \in 0..Len(s)] == IF i = 0 THEN 0 ELSE upTo[i - 1] + s[i].size
    IN  upTo[Len(s)]

FileSize == Bytes(lines) + tail

IDs(s) == [i \in 1..Len(s) |-> s[i].id]

Newer(s, i) == SubSeq(s, i, Len(s))

\* The last n members of s, or all of them.
Newest(s, n) == IF Len(s) > n THEN Newer(s, Len(s) - n + 1) ELSE s

\* requestLogTailReader: the lines that lie within the last MaxBytes of the file.
Retained ==
    LET after(i) == FileSize - Bytes(SubSeq(lines, 1, i - 1))
        inside   == {i \in 1..Len(lines) : MaxBytes = 0 \/ after(i) <= MaxBytes}
    IN  IF inside = {} THEN << >> ELSE Newer(lines, Min(inside))

-----------------------------------------------------------------------------
Goto(p) == pc' = p

\* Mutant of FinishAdd: a failed append leaves no warning.
FinishAddQuietly(err) ==
    /\ ring' = Newest(Append(ring, cur.id), RingLimit)
    /\ warned' = warned
    /\ cur' = NoEntry
    /\ Goto("idle")
    /\ UNCHANGED <<nextID, reading>>

\* append returns to add, which ignores the error and keeps the entry in memory.
FinishAdd(err) ==
    /\ ring' = Newest(Append(ring, cur.id), RingLimit)
    /\ warned' = (warned \/ err)
    /\ cur' = NoEntry
    /\ Goto("idle")
    /\ UNCHANGED <<nextID, reading>>

\* compact returns to append, or to openRequestLogFileWithLimit.
FinishCompact(err) ==
    \/ cur # NoEntry /\ FinishAdd(err)
    \/ /\ cur = NoEntry
       /\ warned' = (warned \/ err)
       /\ Goto("load")
       /\ UNCHANGED <<ring, nextID, cur, reading>>

\* add: number the entry under the store's mutex.
Add(size) ==
    /\ pc = "idle" /\ nextID < MaxID
    /\ nextID' = nextID + 1
    /\ cur' = [id |-> nextID + 1, size |-> size]
    /\ Goto("append")
    /\ UNCHANGED <<lines, tail, open, warned, ring, reading>>

\* append gives up before it touches the file, or repairTail fails.
AppendRefused ==
    /\ pc = "append" /\ reading = NoReport
    /\ FinishAdd(TRUE)
    /\ UNCHANGED <<lines, tail, open>>

\* repairTail: an interrupted line is cut off; one that only misses its newline is
\* kept, and append writes the newline.
RepairTail ==
    /\ pc = "append" /\ reading = NoReport
    /\ open /\ (MaxBytes = 0 \/ cur.size <= MaxBytes)
    /\ tail' = IF tail > 0 THEN 0 ELSE tail
    /\ warned' = (warned \/ tail > 0)
    /\ Goto("write")
    /\ UNCHANGED <<lines, open, ring, nextID, cur, reading>>

\* Mutant of Fits: the newline that the last entry misses is forgotten.
FitsWithoutSeparator == MaxBytes = 0 \/ FileSize + cur.size <= MaxBytes

Fits ==
    LET separator == IF tail = -1 THEN 1 ELSE 0
    IN  MaxBytes = 0 \/ FileSize + separator + cur.size <= MaxBytes

Write ==
    /\ pc = "write" /\ Fits
    /\ lines' = Append(lines, cur) /\ tail' = 0
    /\ FinishAdd(FALSE)
    /\ UNCHANGED open

\* A write that stops early. What is there of the entry is nothing, perhaps behind
\* the separator, a part of it, or all of it but its newline.
PartialWrite ==
    \/ UNCHANGED <<lines, tail>>
    \/ tail = -1 /\ tail' = 0 /\ UNCHANGED lines
    \/ tail' \in 1..(cur.size - 2) /\ UNCHANGED lines
    \/ lines' = Append(lines, cur) /\ tail' = -1

\* The write fails: append truncates the file to where it began, or cannot.
WriteFails ==
    /\ pc = "write" /\ Fits
    /\ PartialWrite
    /\ FinishAdd(TRUE)
    /\ UNCHANGED open

StartCompact ==
    /\ pc = "write" /\ ~Fits
    /\ Goto("compact")
    /\ UNCHANGED <<lines, tail, open, warned, ring, nextID, cur, reading>>

-----------------------------------------------------------------------------
(* Compaction, by append (cur is then its extra entry) or at startup. *)

\* The newest entries that fit into three quarters of the limit, one at least.
Compacted ==
    LET all    == IF cur = NoEntry THEN Retained ELSE Append(Retained, cur)
        target == MaxBytes - MaxBytes \div 4
        fit    == {i \in 1..Len(all) : i = Len(all) \/ Bytes(Newer(all, i)) <= target}
    IN  IF fit = {} THEN << >> ELSE Newer(all, Min(fit))

\* Nothing fits, the replacement cannot be written or closed: the log is as it was.
\* Or the log cannot be closed or the replacement renamed, and opening it again may
\* fail too.
CompactFails ==
    /\ pc = "compact"
    /\ open' \in {open, FALSE}
    /\ FinishCompact(TRUE)
    /\ UNCHANGED <<lines, tail>>

\* Mutant of Replace: the log is truncated and written again in place.
ReplaceInPlace ==
    /\ pc = "compact"
    /\ lines' = << >> /\ tail' = 0
    /\ open' = FALSE
    /\ Goto("renamed")
    /\ UNCHANGED <<warned, ring, nextID, cur, reading>>

\* The complete replacement is renamed over the closed log.
Replace ==
    /\ pc = "compact" /\ Compacted # << >>
    /\ \A i \in 1..Len(Compacted) : Compacted[i].size <= MaxBytes
    /\ lines' = Compacted /\ tail' = 0
    /\ open' = FALSE
    /\ Goto("renamed")
    /\ UNCHANGED <<warned, ring, nextID, cur, reading>>

\* It is opened, or not; opened, the directory is synced, or not.
Reopen ==
    /\ pc = "renamed"
    /\ open' \in BOOLEAN
    /\ \E err \in {~open', TRUE} : FinishCompact(err)
    /\ UNCHANGED <<lines, tail>>

-----------------------------------------------------------------------------
(* Clearing, reading, and the life of the process. *)

\* Mutant of ClearLog: file readers are not waited for.
ClearBesideReaders ==
    /\ pc = "idle" /\ open
    /\ lines' = << >> /\ tail' = 0
    /\ ring' = << >> /\ warned' = FALSE
    /\ UNCHANGED <<open, nextID, pc, cur, reading>>

\* A file that is truncated but cannot be synced keeps memory and warning.
ClearLog ==
    /\ pc = "idle" /\ reading = NoReport /\ open
    /\ lines' = << >> /\ tail' = 0
    /\ \/ ring' = << >> /\ warned' = FALSE
       \/ UNCHANGED <<ring, warned>>
    /\ UNCHANGED <<open, nextID, pc, cur, reading>>

\* visitRetainedEntries takes the file's read lock and lets go of the store.
StartReport ==
    /\ pc = "idle" /\ reading = NoReport
    /\ reading' = IDs(Retained)
    /\ UNCHANGED <<lines, tail, open, warned, ring, nextID, pc, cur>>

FinishReport ==
    /\ reading # NoReport
    /\ reading' = NoReport
    /\ UNCHANGED <<lines, tail, open, warned, ring, nextID, pc, cur>>

\* runServe's deferred close; late handlers still add.
CloseLog ==
    /\ pc = "idle" /\ reading = NoReport
    /\ open /\ open' = FALSE
    /\ UNCHANGED <<lines, tail, warned, ring, nextID, pc, cur, reading>>

Forget ==
    /\ Goto("down")
    /\ open' = FALSE /\ warned' = FALSE
    /\ ring' = << >> /\ nextID' = 0
    /\ cur' = NoEntry /\ reading' = NoReport

\* The process exits or dies, within a write too.
Crash ==
    /\ pc # "down"
    /\ Forget
    /\ \/ UNCHANGED <<lines, tail>>
       \/ pc = "write" /\ Fits /\ PartialWrite

OpenLog ==
    /\ pc = "down"
    /\ open' = TRUE
    /\ Goto(IF MaxBytes > 0 /\ FileSize > MaxBytes THEN "compact" ELSE "load")
    /\ UNCHANGED <<lines, tail, warned, ring, nextID, cur, reading>>

\* Mutant of Load: numbering goes on behind the entries in memory only by count.
LoadCounts ==
    /\ pc = "load"
    /\ ring' = Newest(IDs(Retained), RingLimit)
    /\ nextID' = Len(Retained)
    /\ Goto("idle")
    /\ UNCHANGED <<lines, tail, open, warned, cur, reading>>

\* loadEntries and restore.
Load ==
    /\ pc = "load"
    /\ ring' = Newest(IDs(Retained), RingLimit)
    /\ nextID' = Max({0} \cup ToSet(IDs(Retained)))
    /\ Goto("idle")
    /\ UNCHANGED <<lines, tail, open, warned, cur, reading>>

LogInit ==
    /\ \E f \in Files : lines = f.lines /\ tail = f.tail
    /\ open = FALSE /\ warned = FALSE
    /\ ring = << >> /\ nextID = 0
    /\ pc = "down" /\ cur = NoEntry /\ reading = NoReport

Adding ==
    \/ \E size \in Sizes : Add(size)
    \/ AppendRefused \/ RepairTail \/ Write \/ WriteFails \/ StartCompact

LogNext ==
    \/ Adding
    \/ CompactFails \/ Replace \/ Reopen
    \/ ClearLog \/ StartReport \/ FinishReport \/ CloseLog
    \/ Crash \/ OpenLog \/ Load

LogSpec == LogInit /\ [][LogNext]_logVars

-----------------------------------------------------------------------------
(* What is expected of the log. *)

Line == [id : Nat, size : Nat]

LogTypeOK ==
    /\ lines \in Seq(Line)
    /\ tail \in Nat \cup {-1} /\ (lines = << >> => tail # -1)
    /\ open \in BOOLEAN /\ warned \in BOOLEAN
    /\ ring \in Seq(Nat) /\ nextID \in Nat
    /\ pc \in {"down", "compact", "renamed", "load", "idle", "append", "write"}
    /\ cur \in Line
    /\ reading \in Seq(Nat)

\* IDs increase along the file and in memory, across crashes, clears and restarts,
\* and the next one is newer than all of them: two retained requests never share
\* the ID that the dashboard lists them by.
IdsIncrease ==
    /\ \A i, j \in 1..Len(lines) : i < j => lines[i].id < lines[j].id
    /\ \A i, j \in 1..Len(ring) : i < j => ring[i] < ring[j]
    /\ pc \in {"idle", "append", "write"} =>
          \A id \in ToSet(IDs(lines)) \cup ToSet(ring) : id <= nextID

\* Nothing is written to the log while it is closed or ends in an interrupted line.
LogInv == LogTypeOK /\ IdsIncrease /\ (pc = "write" => open /\ tail <= 0)

\* As long as no warning is shown, the dashboard's list and the file tell the same
\* story: one ends with the other, whichever of ring and file is the shorter.
MemoryMatchesFile ==
    pc = "idle" /\ ~warned => IsSuffix(ring, IDs(lines)) \/ IsSuffix(IDs(lines), ring)

\* A report sees the file as it was when it began: neither a compaction nor a clear
\* changes it under the reader.
ReportIsConsistent == reading # NoReport => reading = IDs(Retained)

\* The file never grows past its limit, whatever is repaired, separated, partly
\* written or compacted; one that was too long already only shrinks.
NeverGrowsPastLimit ==
    [][ MaxBytes > 0 /\ FileSize' > MaxBytes => FileSize' <= FileSize ]_logVars

\* The log implements the history that its readers are promised: entries are only
\* lost oldest first, by clearing, or with a warning, and a crash loses at most the
\* one being written.
History == INSTANCE RequestHistory WITH
    history <- IDs(lines), pending <- cur.id, warned <- warned

ImplementsHistory == History!HistorySpec
=============================================================================
