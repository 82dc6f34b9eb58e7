------------------------------- MODULE Logger --------------------------------
(***************************************************************************)
(* Logger with an AsyncLogWriter (src/src/Util/logger.cpp): threads queue  *)
(* their messages and post a semaphore, one thread writes them, repeated   *)
(* messages are counted instead of written, and ~Logger ends the writer.   *)
(* A message is its thread, what it says and when it was made.             *)
(***************************************************************************)
EXTENDS Naturals, Sequences, FiniteSets

CONSTANTS
  LogThreads,
  Texts,     \* file, line and content of a message
  MaxLogs,   \* bound: messages
  MaxClock,  \* bound: the clock, in steps of more than 500 ms
  NoMessage

ASSUME LoggerAssumption ==
  /\ {MaxLogs, MaxClock} \subseteq Nat
  /\ "bye" \notin Texts /\ NoMessage \notin [thread : LogThreads, text : Texts, time : Nat]

VARIABLES
  clock,
  capture,  \* of each thread, its LogContextCapture
  toPost,   \* threads that have queued a message and not yet posted
  logs,     \* messages captured so far
  pending,  \* _pending of the writer
  signals,  \* _count of its semaphore
  flushing, \* the list that flushAll has swapped out
  writer,   \* its thread: "tests", "waits", "flushes" or "joined"
  ending,   \* of ~Logger: "no", "joins", "flushes", "said" or "yes"
  lastLog,  \* _last_log
  repeat,   \* its _repeat
  told,     \* of how many messages of a thread and a text the lines that the
            \* channels wrote tell
  queued,   \* messages queued so far (history)
  handled   \* messages that writeChannels was called with (history)

logVars == <<clock, capture, toPost, logs, pending, signals, flushing, writer, ending,
             lastLog, repeat, told, queued, handled>>

LogInit ==
  /\ clock = 0 /\ capture = [t \in LogThreads |-> NoMessage] /\ toPost = {} /\ logs = 0
  /\ pending = <<>> /\ signals = 0 /\ flushing = <<>> /\ writer = "tests" /\ ending = "no"
  /\ lastLog = NoMessage /\ repeat = 0
  /\ told = [t \in LogThreads |-> [x \in Texts \cup {"bye"} |-> 0]] /\ queued = <<>> /\ handled = <<>>

-----------------------------------------------------------------------------
(* The threads that log, until ~Logger.                                     *)

ClockTick ==
  /\ clock < MaxClock
  /\ clock' = clock + 1
  /\ UNCHANGED <<capture, toPost, logs, pending, signals, flushing, writer, ending, lastLog,
                 repeat, told, queued, handled>>

Capture(t, text) ==
  /\ capture[t] = NoMessage /\ t \notin toPost /\ logs < MaxLogs /\ ending = "no"
  /\ logs' = logs + 1
  /\ capture' = [capture EXCEPT ![t] = [thread |-> t, text |-> text, time |-> clock]]
  /\ UNCHANGED <<clock, toPost, pending, signals, flushing, writer, ending, lastLog, repeat,
                 told, queued, handled>>

(* AsyncLogWriter::write up to the post; the capture is done.               *)
LogWrite(t) ==
  /\ capture[t] # NoMessage
  /\ pending' = Append(pending, capture[t]) /\ queued' = Append(queued, capture[t])
  /\ toPost' = toPost \cup {t}
  /\ capture' = [capture EXCEPT ![t] = NoMessage]
  /\ UNCHANGED <<clock, logs, signals, flushing, writer, ending, lastLog, repeat, told, handled>>

Post(t) ==
  /\ t \in toPost
  /\ toPost' = toPost \ {t} /\ signals' = signals + 1
  /\ UNCHANGED <<clock, capture, logs, pending, flushing, writer, ending, lastLog, repeat,
                 told, queued, handled>>

ClearCapture(t) ==
  /\ capture[t] # NoMessage
  /\ capture' = [capture EXCEPT ![t] = NoMessage]
  /\ UNCHANGED <<clock, toPost, logs, pending, signals, flushing, writer, ending, lastLog,
                 repeat, told, queued, handled>>

-----------------------------------------------------------------------------
(* Logger::writeChannels                                                    *)

(* A line tells of one message, or of one that was repeated and how often.  *)
Tell(before, m, times) ==
  [before EXCEPT ![m.thread][m.text] = @ + IF times = 0 THEN 1 ELSE times]

IsRepeat(m) == lastLog # NoMessage /\ lastLog.thread = m.thread /\ lastLog.text = m.text

(* Mutant: the count of the last message is dropped when another comes.     *)
WriteChannelsForgets(m) ==
  IF IsRepeat(m)
  THEN IF m.time > lastLog.time
       THEN told' = Tell(told, m, repeat + 1) /\ lastLog' = m /\ repeat' = 0
       ELSE repeat' = repeat + 1 /\ UNCHANGED <<told, lastLog>>
  ELSE told' = Tell(told, m, 0) /\ lastLog' = m /\ repeat' = 0

WriteChannels(m) ==
  IF IsRepeat(m)
  THEN IF m.time > lastLog.time
       THEN told' = Tell(told, m, repeat + 1) /\ lastLog' = m /\ repeat' = 0
       ELSE repeat' = repeat + 1 /\ UNCHANGED <<told, lastLog>>
  ELSE /\ told' = Tell(IF repeat > 0 THEN Tell(told, lastLog, repeat) ELSE told, m, 0)
       /\ lastLog' = m /\ repeat' = 0

(* One call of for_each's closure in flushAll, by the writer's thread or by *)
(* the destructor.                                                          *)
WriteNext ==
  /\ flushing # <<>>
  /\ WriteChannels(Head(flushing))
  /\ flushing' = Tail(flushing) /\ handled' = Append(handled, Head(flushing))
  /\ UNCHANGED <<clock, capture, toPost, logs, pending, signals, writer, ending, queued>>

WriterTests ==
  /\ \/ writer = "tests"
     \/ writer = "flushes" /\ flushing = <<>>
  /\ writer' = IF ending = "no" THEN "waits" ELSE "joined"
  /\ UNCHANGED <<clock, capture, toPost, logs, pending, signals, flushing, ending, lastLog,
                 repeat, told, queued, handled>>

WriterWakes ==
  /\ writer = "waits" /\ signals > 0
  /\ signals' = signals - 1 /\ writer' = "flushes"
  /\ flushing' = pending /\ pending' = <<>>
  /\ UNCHANGED <<clock, capture, toPost, logs, ending, lastLog, repeat, told, queued, handled>>

-----------------------------------------------------------------------------
(* ~Logger: the writer's destructor, then a last message of its own, which  *)
(* is written at once because there is no writer any more.                  *)

EndWriter ==
  /\ ending = "no" /\ toPost = {} /\ \A t \in LogThreads : capture[t] = NoMessage
  /\ ending' = "joins" /\ signals' = signals + 1
  /\ UNCHANGED <<clock, capture, toPost, logs, pending, flushing, writer, lastLog, repeat,
                 told, queued, handled>>

(* Mutant: what is left is not written.                                     *)
JoinOnly ==
  /\ ending = "joins" /\ writer = "joined"
  /\ ending' = "flushes" /\ pending' = <<>>
  /\ UNCHANGED <<clock, capture, toPost, logs, signals, flushing, writer, lastLog, repeat,
                 told, queued, handled>>

Join ==
  /\ ending = "joins" /\ writer = "joined"
  /\ ending' = "flushes"
  /\ flushing' = pending /\ pending' = <<>>
  /\ UNCHANGED <<clock, capture, toPost, logs, signals, writer, lastLog, repeat, told, queued,
                 handled>>

Goodbye ==
  /\ ending = "flushes" /\ flushing = <<>>
  /\ ending' = "yes"
  /\ \E t \in LogThreads : WriteChannels([thread |-> t, text |-> "bye", time |-> clock])
  /\ UNCHANGED <<clock, capture, toPost, logs, pending, signals, flushing, writer, queued,
                 handled>>

LogNext ==
  \/ ClockTick \/ WriteNext \/ WriterTests \/ WriterWakes \/ EndWriter \/ Join \/ Goodbye
  \/ \E t \in LogThreads : LogWrite(t) \/ Post(t) \/ ClearCapture(t) \/ \E x \in Texts : Capture(t, x)

LogSpec == LogInit /\ [][LogNext]_logVars

-----------------------------------------------------------------------------
(* Properties.                                                              *)

LogTypeOK ==
  /\ clock \in 0 .. MaxClock /\ logs \in 0 .. MaxLogs /\ Len(queued) <= logs /\ repeat \in Nat
  /\ writer \in {"tests", "waits", "flushes", "joined"} /\ toPost \subseteq LogThreads

Handled(t, x) == Cardinality({i \in DOMAIN handled : handled[i].thread = t /\ handled[i].text = x})

(* The lines account for every message handed to the channels, counting the *)
(* one repetition under way, so that the filter of repetitions hides none   *)
(* (writeChannels, writeChannels_l).                                        *)
RepeatsAccounted ==
  \A t \in LogThreads, x \in Texts :
    told[t][x] + (IF lastLog # NoMessage /\ lastLog.thread = t /\ lastLog.text = x
                  THEN repeat ELSE 0) = Handled(t, x)

(* Messages are written in the order in which they were queued, none is     *)
(* left without a signal for the writer, and when ~Logger is through every  *)
(* one is in the lines (AsyncLogWriter::write, run, flushAll and the        *)
(* destructors).                                                            *)
EveryMessageWritten ==
  /\ queued = handled \o flushing \o pending
  /\ pending # <<>> => signals > 0 \/ toPost # {} \/ ending = "joins"
  /\ ending = "yes" => queued = handled /\ repeat = 0

(* Together: what was logged is told, once and in order, and the filter of  *)
(* repetitions hides nothing.                                               *)
MessagesKept == RepeatsAccounted /\ EveryMessageWritten

-----------------------------------------------------------------------------
(***************************************************************************)
(* FileChannel (src/src/Util/logger.cpp): a log file for each day and      *)
(* slice, of which old ones are deleted by age and by number.  The names   *)
(* are kept in a set of strings, so that they are ordered by their text;   *)
(* the index is written with at least two digits, here of base Radix.      *)
(***************************************************************************)
CONSTANTS
  Radix,     \* 10 in the code
  MaxDays,   \* values of _log_max_day
  MaxCounts, \* values of _log_max_count
  LastDay,   \* bound: days
  MaxIndex,  \* bound: slices of a day
  NoFile

ASSUME LogFilesAssumption ==
  /\ MaxDays \cup MaxCounts \cup {Radix} \subseteq Nat \ {0} /\ {LastDay, MaxIndex} \subseteq Nat
  /\ NoFile \notin [day : Nat, index : Nat]

LogFile == [day : 0 .. LastDay, index : 0 .. MaxIndex]

VARIABLES
  maxDay, maxCount,
  today,
  onDisk,    \* files of the directory
  known,     \* _log_file_map
  index,     \* _index
  lastDay,   \* _last_day plus one, 0 for none
  path,      \* _path
  canWrite,  \* _can_write
  deleted,   \* what the last changeFile deleted (history)
  wroteTo    \* the file of the last message and the day then (history)

fileVars == <<maxDay, maxCount, today, onDisk, known, index, lastDay, path, canWrite, deleted, wroteTo>>

FileInit ==
  /\ maxDay \in MaxDays /\ maxCount \in MaxCounts
  /\ today = 0
  /\ onDisk = {} /\ known = {} /\ index = 0 /\ lastDay = 0 /\ path = NoFile /\ canWrite = FALSE
  /\ deleted = {} /\ wroteTo = NoFile

-----------------------------------------------------------------------------
(* The text of an index, and the order of std::set<std::string>.            *)
Digits(i) ==
  LET most == IF i < Radix * Radix THEN 1 ELSE 2
  IN  [k \in 1 .. most + 1 |-> (i \div Radix ^ (most + 1 - k)) % Radix]

TextBefore(s, u) ==
  \/ \E k \in DOMAIN s \cap DOMAIN u : s[k] < u[k] /\ \A j \in 1 .. k - 1 : s[j] = u[j]
  \/ Len(s) < Len(u) /\ \A j \in DOMAIN s : s[j] = u[j]

Before(f, g) ==
  f.day < g.day \/ (f.day = g.day /\ TextBefore(Digits(f.index), Digits(g.index)))

Oldest(files) == CHOOSE f \in files : \A g \in files \ {f} : Before(f, g)

-----------------------------------------------------------------------------
(* Mutant: the age is not compared with the number of days.                 *)
ExpiredToo(f) == f.day + 1 < today + maxDay

Expired(f) == f.day + maxDay <= today

(* clean(): by age from the oldest on, then by number, never the current    *)
(* one.                                                                     *)
Clean(files, current) ==
  LET kept == {f \in files : \E g \in files : ~Expired(g) /\ (g = f \/ Before(g, f))}
      From(f) == {g \in kept : g = f \/ Before(f, g)}
  IN  {f \in kept : \/ Cardinality(From(f)) <= maxCount
                    \/ current \in kept /\ (f = current \/ Before(current, f))}

ChangeFile(day, i) ==
  LET file == [day |-> day, index |-> i]
  IN  /\ i < MaxIndex
      /\ index' = i + 1
      /\ path' = file
      /\ known' = Clean(known \cup {file}, file)
      /\ deleted' = (known \cup {file}) \ known'
      /\ canWrite' \in BOOLEAN  \* open may fail
      /\ onDisk' = (IF canWrite' THEN onDisk \cup {file} ELSE onDisk) \ deleted'
      /\ wroteTo' = IF canWrite' THEN file ELSE NoFile

(* FileChannel::write of a message of today or, since messages wait in a    *)
(* queue, of the day before; checkSize finds the file too big or not.       *)
WriteLog(day, tooBig) ==
  /\ day \in {today, today - 1} \cap Nat
  /\ IF day + 1 # lastDay
     THEN lastDay' = day + 1 /\ ChangeFile(day, IF lastDay = 0 THEN index ELSE 0)
     ELSE /\ UNCHANGED lastDay
          /\ IF tooBig THEN ChangeFile(day, index)
             ELSE /\ wroteTo' = IF canWrite THEN path ELSE NoFile
                  /\ deleted' = {}
                  /\ UNCHANGED <<onDisk, known, index, path, canWrite>>
  /\ UNCHANGED <<maxDay, maxCount, today>>

Midnight ==
  /\ today < LastDay
  /\ today' = today + 1
  /\ UNCHANGED <<maxDay, maxCount, onDisk, known, index, lastDay, path, canWrite, deleted, wroteTo>>

(* A new process scans the directory.                                       *)
Restart ==
  /\ path # NoFile
  /\ known' = onDisk
  /\ LET mine == {f.index : f \in {g \in onDisk : g.day = today}}
     IN  index' = IF mine = {} THEN 0 ELSE CHOOSE i \in mine : \A j \in mine : j <= i
  /\ lastDay' = 0 /\ path' = NoFile /\ canWrite' = FALSE /\ deleted' = {} /\ wroteTo' = NoFile
  /\ UNCHANGED <<maxDay, maxCount, today, onDisk>>

FileNext ==
  \/ Midnight \/ Restart
  \/ \E day \in 0 .. LastDay, tooBig \in BOOLEAN : WriteLog(day, tooBig)

FileSpec == FileInit /\ [][FileNext]_fileVars

-----------------------------------------------------------------------------
(* Properties.                                                              *)

FileTypeOK ==
  /\ onDisk \cup known \cup deleted \subseteq LogFile /\ path \in LogFile \cup {NoFile}
  /\ index \in 0 .. MaxIndex /\ today \in 0 .. LastDay

Older(f, g) == f.day < g.day \/ (f.day = g.day /\ f.index < g.index)

(* The channel knows every file there is, so that none is left for ever;    *)
(* the number of files is bounded unless the current one is the oldest; a   *)
(* message goes to a file that exists unless files live one day and the     *)
(* message is of yesterday; and the files deleted are older than those kept *)
(* as long as indices have two digits (changeFile, clean).                  *)
FilesRotate ==
  /\ onDisk \subseteq known
  /\ path # NoFile => Cardinality(known) <= maxCount \/ Oldest(known) = path
  /\ wroteTo \notin {NoFile} \cup onDisk => maxDay = 1 /\ wroteTo.day < today
  /\ \A f \in deleted : f.index < Radix * Radix =>
       \A g \in known : g.index < Radix * Radix => Older(f, g)

=============================================================================
