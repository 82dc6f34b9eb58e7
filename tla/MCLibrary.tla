------------------------------ MODULE MCLibrary ------------------------------
(* The parts of src/src that can be looked at on their own, one module for  *)
(* each: a behaviour is about one of them, and one search covers them all.  *)
(* The parameters of the others are fixed, lest they multiply the states.   *)
EXTENDS RingBuffer, ThreadPool, Executors, SqlPool, NoticeCenter, Logger,
        Buffers, SSLBox, Wepoll, LikeString,
        GetOpt, SockUtil, Clocks, HandleTree, Encodings, Files, TimeParse, Ini,
        TextTools, Containers, PollBackends, UdpClient

CONSTANTS a1, a2

VARIABLE part  \* the component this behaviour is about

classVars == <<vars, poolVars, exeVars, sqlVars, notVars, logVars, fileVars, listVars, recvVars,
               sslVars, epollVars, treeVars, textVars>>
toolVars == <<optVars, sockVars, timeVars, stampVars, treeUseVars, digestVars, base64Vars, diskVars,
              parseVars, iniVars, textsVars, queueVars, backendVars, udpClientVars>>
libVars == <<classVars, toolVars, part>>

(* The readers, threads, addresses or files that the actions of a part are  *)
(* about: they may change places.                                           *)
MCPair == {a1, a2}
Interchangeable == Permutations(MCPair)
MCWanted == {{"IN"}, {"IN", "OUT", "ONESHOT"}}

(* Command lines, zones (seconds west), clock shifts, paths and dates.      *)
MCAllArgs ==
  {<<"-">>, <<"x">>, <<"-", "-">>, <<"-", "v">>, <<"-", "v", "a">>, <<"-", "a">>, <<"-", "a", "x">>,
   <<"-", "b">>, <<"-", "v", "b", "x">>, <<"-", "q">>, <<"-", "-", "l">>, <<"-", "-", "l", "a">>,
   <<"-", "-", "l", "a", "=", "x">>, <<"-", "-", "l", "b">>, <<"-", "-", "l", "b", "=", "x">>,
   <<"-", "-", "v", "=", "x">>, <<"-", "-", "v">>}
MCPlainArgs == {<<"x">>, <<"-", "-">>, <<"-", "v">>, <<"-", "a">>}
MCLongNames == <<<<"v">>, <<"l", "a">>, <<"l", "b">>>>
MCShortNames == <<"v", "a", "b">>
MCArgTypes == <<"none", "required", "optional">>
MCZones == {18000, -20700}
MCShifts == {-5, 1}
MCTargets == {<<"a", "b", "f">>, <<"a", "g">>}
MCRoot == <<"r">>
MCSections == <<"", "a", "b">>
MCIniKeys == <<"j", "k">>

Day(s, mi, h, d, mo, y, w, yd) ==
  [sec |-> s, min |-> mi, hour |-> h, mday |-> d, mon |-> mo, year |-> y, wday |-> w, yday |-> yd]
MCDates ==
  {Day(0, 0, 0, 1, 0, 100, 6, 0), Day(59, 5, 12, 31, 11, 124, 2, 365),
   Day(7, 59, 23, 9, 4, 69, 5, 128), Day(60, 30, 11, 10, 8, 168, 1, 253)}
MCNoDate ==
  [f \in {"sec", "min", "hour", "mday", "mon", "year", "wday", "yday", "week"} |-> 0]
MCFormats ==
  {<<Conv("Y"), Is("-"), Conv("m"), Is("-"), Conv("d")>>, <<Conv("c")>>,
   <<Conv("D"), Is(" "), Conv("R")>>, <<Conv("x"), Conv("n"), Conv("r")>>,
   <<Conv("A"), Is(","), Is(" "), Conv("e"), Is(" "), Conv("B"), Is(" "), Conv("Y"), Conv("t"), Conv("T")>>,
   <<Conv("a"), Conv("b"), Conv("d"), Conv("H"), Conv("M"), Conv("S"), Conv("Y")>>,
   <<Conv("Y"), Conv("j"), Conv("U"), Conv("w"), Conv("k"), Conv("M")>>,
   <<Conv("C"), Conv("y"), Conv("h"), Alt(<<"O">>, "d"), Conv("l"), Is(" "), Conv("p")>>,
   <<Alt(<<"E">>, "Y"), Alt(<<"O">>, "m"), Alt(<<"E">>, "x")>>, <<Conv("W"), Alt(<<"E">>, "d")>>,
   <<Alt(<<"E", "O">>, "y")>>, <<Conv("X"), Conv("I"), Alt(<<"O">>, "Y")>>}

LibInit ==
  /\ part \in {"ring", "pool", "executors", "sql", "notices", "log", "files", "list", "recv",
               "ssl", "epoll", "tree", "text", "opt", "sock", "names", "time", "stamp", "speed",
               "handles", "digest", "base64", "disk", "parse", "ini", "texts", "queues", "backends", "udp"}
  /\ Init /\ PoolInit /\ ExeInit /\ NotInit /\ LogInit /\ EpollInit /\ TreeInit /\ TextInit
  /\ SqlInit /\ (part # "sql" => poolSize = CHOOSE n \in PoolSizes : TRUE)
  /\ FileInit /\ (part # "files" => /\ maxDay = CHOOSE n \in MaxDays : TRUE
                                    /\ maxCount = CHOOSE n \in MaxCounts : TRUE)
  /\ ListInit /\ (part # "list" => sendKind = "msg" /\ lens = <<1>>)
  /\ SslInit /\ (part # "ssl" => serverMode)
  /\ RecvInit /\ (part # "recv" => reads = [by |-> "recvfrom", count |-> 1,
                                            capacity |-> DefaultCount * DefaultCapacity])
  /\ OptInit /\ StampInit /\ HandleInit /\ DigestInit /\ Base64Init /\ TimeParseInit /\ IniInit
  /\ TextsInit /\ QueueInit /\ UdpClientInit
  /\ SockInit /\ (part # "sock" => ipv6)
  /\ TimeInit /\ (part # "time" => /\ zone = CHOOSE z \in Zones : TRUE
                                   /\ base = CHOOSE b \in Bases : TRUE)
  /\ FilesInit /\ (part # "disk" => ~walk.up)
  /\ BackendInit /\ (part # "backends" => backend = "select")

(* Only the component of the behaviour takes steps; the clock and the speed *)
(* of a Stamp are two parts, and so are the system calls of SockUtil and,   *)
(* with the time that passes, its cache of names.  What stays is said       *)
(* first: TLC then works it out once for each state.                        *)
OtherClassesStay ==
  /\ IF part = "ring" THEN TRUE ELSE UNCHANGED vars
  /\ IF part = "pool" THEN TRUE ELSE UNCHANGED poolVars
  /\ IF part = "executors" THEN TRUE ELSE UNCHANGED exeVars
  /\ IF part = "sql" THEN TRUE ELSE UNCHANGED sqlVars
  /\ IF part = "notices" THEN TRUE ELSE UNCHANGED notVars
  /\ IF part = "log" THEN TRUE ELSE UNCHANGED logVars
  /\ IF part = "files" THEN TRUE ELSE UNCHANGED fileVars
  /\ IF part = "list" THEN TRUE ELSE UNCHANGED listVars
  /\ IF part = "recv" THEN TRUE ELSE UNCHANGED recvVars
  /\ IF part = "ssl" THEN TRUE ELSE UNCHANGED sslVars
  /\ IF part = "epoll" THEN TRUE ELSE UNCHANGED epollVars
  /\ IF part = "tree" THEN TRUE ELSE UNCHANGED treeVars
  /\ IF part = "text" THEN TRUE ELSE UNCHANGED textVars

OtherToolsStay ==
  /\ IF part = "opt" THEN TRUE ELSE UNCHANGED optVars
  /\ IF part \in {"sock", "names"} THEN TRUE ELSE UNCHANGED sockVars
  /\ IF part = "time" THEN TRUE ELSE UNCHANGED timeVars
  /\ IF part \in {"stamp", "speed"} THEN TRUE ELSE UNCHANGED stampVars
  /\ IF part = "handles" THEN TRUE ELSE UNCHANGED treeUseVars
  /\ IF part = "digest" THEN TRUE ELSE UNCHANGED digestVars
  /\ IF part = "base64" THEN TRUE ELSE UNCHANGED base64Vars
  /\ IF part = "disk" THEN TRUE ELSE UNCHANGED diskVars
  /\ IF part = "parse" THEN TRUE ELSE UNCHANGED parseVars
  /\ IF part = "ini" THEN TRUE ELSE UNCHANGED iniVars
  /\ IF part = "texts" THEN TRUE ELSE UNCHANGED textsVars
  /\ IF part = "queues" THEN TRUE ELSE UNCHANGED queueVars
  /\ IF part = "backends" THEN TRUE ELSE UNCHANGED backendVars
  /\ IF part = "udp" THEN TRUE ELSE UNCHANGED udpClientVars

ClassNext ==
  CASE part = "ring" -> Next
    [] part = "pool" -> PoolNext
    [] part = "executors" -> ExeNext
    [] part = "sql" -> SqlNext
    [] part = "notices" -> NotNext
    [] part = "log" -> LogNext
    [] part = "files" -> FileNext
    [] part = "list" -> ListNext
    [] part = "recv" -> RecvNext
    [] part = "ssl" -> SslNext
    [] part = "epoll" -> EpollNext
    [] part = "tree" -> TreeNext
    [] part = "text" -> TextNext

ToolNext ==
  CASE part = "opt" -> OptNext
    [] part = "sock" -> SockNext /\ UNCHANGED <<seconds, address>>
    [] part = "names" -> SockNext /\ \A t \in Makers : maker'[t].op = "none" \/ maker'[t].host = "name"
    [] part = "time" -> TimeNext
    [] part = "stamp" -> StampNext /\ UNCHANGED speed
    [] part = "speed" -> StampNext /\ UNCHANGED smooth
    [] part = "handles" -> HandleNext
    [] part = "digest" -> DigestNext
    [] part = "base64" -> Base64Next
    [] part = "disk" -> FilesNext
    [] part = "parse" -> TimeParseNext
    [] part = "ini" -> IniNext
    [] part = "texts" -> TextsNext
    [] part = "queues" -> QueueNext
    [] part = "backends" -> BackendNext
    [] part = "udp" -> UdpClientNext

ClassParts == {"ring", "pool", "executors", "sql", "notices", "log", "files", "list", "recv", "ssl",
               "epoll", "tree", "text"}

LibNext ==
  /\ UNCHANGED part
  /\ IF part \in ClassParts THEN UNCHANGED toolVars /\ OtherClassesStay /\ ClassNext
     ELSE UNCHANGED classVars /\ OtherToolsStay /\ ToolNext

LibSpec == LibInit /\ [][LibNext]_libVars

(* What no later step and no property reads: whether an epoll_wait has      *)
(* events, unless it is feeding them, and the count of calls to an epoll    *)
(* that is closed; the marks of numbers while the loop waits; a Socket that *)
(* nobody holds, and of one that was replaced what only send, bindPeerAddr  *)
(* and shutdown look at, which go to the new one.                           *)
EpollView ==
  <<port, polls, packets, ready, at, dequeued,
    [t \in {u \in EpollThreads : at[u] = "feed"} |-> hasEvents[t]],
    unserved, portLock, ephnd, IF ephnd = "open" THEN ctls ELSE 0>>

BackendView ==
  <<backend, numberVars, pollRecords, filters, edges, levels, unheard, cut, batch,
    IF loopAt = "wait" THEN {} ELSE stale, loopAt, misled, pollCalls, readied>>

Replaced(socket) ==
  [socket EXCEPT !.soft = NoAddr, !.bound = NoAddr, !.errEmit = FALSE, !.stopped = FALSE]

UdpView ==
  <<latest, ticks, connects, serves, errTasks, strays,
    [n \in Tries |-> IF n = latest THEN us[n]
                     ELSE IF Lives(n) THEN Replaced(us[n]) ELSE NoSocket]>>

(* A state is told by what matters of the variables of its part, for the    *)
(* others keep their first values.                                          *)
LibView ==
  <<part,
    CASE part = "ring" -> vars [] part = "pool" -> poolVars [] part = "executors" -> exeVars
      [] part = "sql" -> sqlVars [] part = "notices" -> notVars [] part = "log" -> logVars
      [] part = "files" -> fileVars [] part = "list" -> listVars [] part = "recv" -> recvVars
      [] part = "ssl" -> sslVars [] part = "epoll" -> EpollView [] part = "tree" -> treeVars
      [] part = "text" -> textVars [] part = "opt" -> optVars
      [] part \in {"sock", "names"} -> sockVars [] part = "time" -> timeVars
      [] part \in {"stamp", "speed"} -> stampVars [] part = "handles" -> treeUseVars
      [] part = "digest" -> digestVars [] part = "base64" -> base64Vars [] part = "disk" -> diskVars
      [] part = "parse" -> parseVars [] part = "ini" -> iniVars [] part = "texts" -> textsVars
      [] part = "queues" -> queueVars [] part = "backends" -> BackendView
      [] part = "udp" -> UdpView>>

LibraryTypeOK ==
  CASE part = "ring" -> TypeOK [] part = "pool" -> PoolTypeOK [] part = "executors" -> ExeTypeOK
    [] part = "sql" -> SqlTypeOK [] part = "notices" -> NotTypeOK [] part = "log" -> LogTypeOK
    [] part = "files" -> FileTypeOK [] part = "epoll" -> EpollTypeOK [] OTHER -> TRUE

(* What is written is kept: packets and what was read leave a buffer once   *)
(* and in order and stay as they are once moved out, nothing stays in an    *)
(* SSLBox, the log file written is never one that is deleted, no file goes  *)
(* with a directory that was not empty, nor a path beyond its root          *)
(* (BufferList, SocketRecvBuffer, SSL_Box, FileChannel, File).              *)
DataKept ==
  part \in {"list", "recv", "ssl", "files", "disk"} =>
    /\ ListSentExactly /\ MovedBufferKept /\ NothingHeldBack
    /\ FilesRotate /\ FilesKept /\ PathInRoot

(* The clocks and what is measured by them: local time and its daylight     *)
(* saving, the time stamp that ignores what is set, the tickers and speeds  *)
(* made from it; the loads by which an executor is chosen and the delays    *)
(* that all executors report once.                                          *)
TimeKept ==
  part \in {"time", "stamp", "speed", "executors"} =>
    LocalTimeRight /\ StampGoesOn /\ TickersInOrder /\ LeastLoaded /\ DelaysReported

(* The algorithms give what their plain definitions give: trees and queues, *)
(* strings, digests, base64, options, dates and settings.                   *)
AgreesWithReference ==
  part \in {"tree", "queues", "text", "texts", "digest", "base64", "opt", "parse", "ini"} =>
    /\ TreeBalanced /\ QueuesRight /\ LikeAString /\ TextsRight /\ DigestsWhole /\ RoundTrip64
    /\ OptionsParsed /\ DateReadBack /\ SettingsKept
=============================================================================
