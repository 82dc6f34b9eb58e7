---------------------------- MODULE PollBackends ----------------------------
(* The event loop of src/src/Poller/EventPoller.cpp where there is no epoll:*)
(* its variants for kqueue and for select.  Everything here happens on the  *)
(* thread of the loop; what other threads ask for is done there by a task.  *)
EXTENDS Naturals, Sequences

CONSTANTS
  PollFiles,  \* files, each opened at most once
  PollFds,    \* descriptor numbers
  TooBig,     \* those of them that are not below FD_SETSIZE
  NoPolled,     \* no file
  MaxPollCalls, MaxReady  \* bounds: pollCalls that open, register or close; times something gets ready

ASSUME BackendsAssumption == TooBig \subseteq PollFds /\ NoPolled \notin PollFiles
                          /\ MaxPollCalls \in Nat /\ MaxReady \in Nat

VARIABLES
  backend,   \* "select" or "kqueue"
  fileAt,    \* the file of a number
  used,      \* files that were opened
  pollRecords,   \* _event_map: the file a number is registered for, with the events
             \* that were asked for last
  filters,   \* kqueue: the filters of a file in the kernel
  edges,     \* kqueue: those that have something to report
  levels,    \* what a file is ready for
  unheard,   \* history: and its callback was not told yet
  cut,       \* history: files whose last change stopped at its first half
  batch,     \* what kevent or select returned and was not handled
  stale,     \* _event_cache_expired
  loopAt,    \* "wait", "batch" or "callback"
  misled,    \* history: an event of a registered file reached the callback of
             \* another one, or its own after that was deleted
  pollCalls, readied   \* counted for the bounds

backendVars == <<backend, fileAt, used, pollRecords, filters, edges, levels, unheard, cut, batch,
                 stale, loopAt, misled, pollCalls, readied>>
numberVars == <<fileAt, used>>

Filters == {"READ", "WRITE"}
NoneYet == [file |-> NoPolled, event |-> {}]
FdOf(f) == CHOOSE fd \in PollFds : fileAt[fd] = f
OpenFiles == {f \in PollFiles : \E fd \in PollFds : fileAt[fd] = f}
IsRegistered(f) == \E fd \in PollFds : pollRecords[fd].file = f

BackendInit ==
  /\ backend \in {"select", "kqueue"}
  /\ fileAt = [fd \in PollFds |-> NoPolled] /\ used = {}
  /\ pollRecords = [fd \in PollFds |-> NoneYet]
  /\ filters = [f \in PollFiles |-> {}] /\ edges = [f \in PollFiles |-> {}]
  /\ levels = [f \in PollFiles |-> {}] /\ unheard = [f \in PollFiles |-> {}]
  /\ cut = {} /\ batch = {} /\ stale = {} /\ loopAt = "wait" /\ misled = FALSE
  /\ pollCalls = 0 /\ readied = 0

(* Callbacks and timers.                                                    *)
Called ==
  /\ loopAt \in {"wait", "callback"} /\ pollCalls < MaxPollCalls
  /\ pollCalls' = pollCalls + 1 /\ UNCHANGED <<backend, batch, loopAt, misled, readied>>

(* kevent with a list of changes and no room for answers: they are made in  *)
(* order up to the first that fails, the deletion of a filter not there.    *)
Change(filter, on) == [filter |-> filter, on |-> on]
Untouched(fs) == [now |-> fs, added |-> {}, ok |-> TRUE]
Made(acc, c) ==
  IF ~acc.ok THEN acc
  ELSE IF c.on THEN [now |-> acc.now \cup {c.filter}, added |-> acc.added \cup {c.filter}, ok |-> TRUE]
  ELSE [now |-> acc.now \ {c.filter}, added |-> acc.added, ok |-> c.filter \in acc.now]
BothMade(fs, changes) == Made(Made(Untouched(fs), changes[1]), changes[2])

(* The kernel looks at a filter when it is added.                           *)
Kevent(f, made) ==
  /\ filters' = [filters EXCEPT ![f] = made.now]
  /\ edges' = [edges EXCEPT ![f] = (@ \cap made.now) \cup (made.added \cap levels[f])]

NoKernel == UNCHANGED <<filters, edges>>

Open(f, fd) ==
  /\ Called /\ f \notin used /\ fileAt[fd] = NoPolled
  /\ fileAt' = [fileAt EXCEPT ![fd] = f] /\ used' = used \cup {f}
  /\ UNCHANGED <<pollRecords, filters, edges, levels, unheard, cut, stale>>

(* SockNum closes a number after delEvent; its filters go with it.          *)
CloseFile(f) ==
  /\ Called /\ f \in OpenFiles /\ ~IsRegistered(f)
  /\ fileAt' = [fileAt EXCEPT ![FdOf(f)] = NoPolled]
  /\ filters' = [filters EXCEPT ![f] = {}] /\ edges' = [edges EXCEPT ![f] = {}]
  /\ levels' = [levels EXCEPT ![f] = {}] /\ unheard' = [unheard EXCEPT ![f] = {}]
  /\ cut' = cut \ {f}
  /\ UNCHANGED <<used, pollRecords, stale>>

(* What is asked for anew and is ready is to be told.                       *)
Anew(f, before, mask) == unheard' = [unheard EXCEPT ![f] = @ \cup (levels[f] \cap (mask \ before))]

(* select refuses the numbers that do not fit into an fd_set.               *)
AddEvent(f, mask) ==
  /\ Called /\ f \in OpenFiles /\ ~IsRegistered(f) /\ mask # {}
  /\ backend = "select" => FdOf(f) \notin TooBig
  /\ pollRecords' = [pollRecords EXCEPT ![FdOf(f)] = [file |-> f, event |-> mask]]
  /\ IF backend = "select" THEN NoKernel
     ELSE Kevent(f, [now |-> filters[f] \cup mask, added |-> mask, ok |-> TRUE])
  /\ Anew(f, {}, mask) /\ cut' = cut \ {f}
  /\ UNCHANGED <<numberVars, levels, stale>>

(* Both filters are changed, that of READ first.                            *)
(* Mutant: WRITE is tested for by the flag of READ.                         *)
BothChangesByRead(mask) == <<Change("READ", "READ" \in mask), Change("WRITE", "READ" \in mask)>>
BothChanges(mask) == <<Change("READ", "READ" \in mask), Change("WRITE", "WRITE" \in mask)>>

(* kqueue does not ask whether the number is registered.                    *)
ModifyEvent(f, mask) ==
  /\ Called /\ f \in OpenFiles
  /\ pollRecords' = IF IsRegistered(f) THEN [pollRecords EXCEPT ![FdOf(f)].event = mask] ELSE pollRecords
  /\ IF backend = "select" THEN NoKernel /\ UNCHANGED cut
     ELSE /\ Kevent(f, BothMade(filters[f], BothChanges(mask)))
          /\ cut' = IF Made(Untouched(filters[f]), BothChanges(mask)[1]).ok THEN cut \ {f} ELSE cut \cup {f}
  /\ IF IsRegistered(f) THEN Anew(f, pollRecords[FdOf(f)].event, mask) ELSE UNCHANGED unheard
  /\ UNCHANGED <<numberVars, levels, stale>>

(* Mutant: the number is not marked as expired.                             *)
MarkedNever(fd) == stale
Marked(fd) == stale \cup {fd}

DelEvent(f) ==
  /\ Called /\ f \in OpenFiles /\ IsRegistered(f)
  /\ pollRecords' = [pollRecords EXCEPT ![FdOf(f)] = NoneYet]
  /\ stale' = Marked(FdOf(f))
  /\ IF backend = "select" THEN NoKernel
     ELSE Kevent(f, BothMade(filters[f], <<Change("READ", FALSE), Change("WRITE", FALSE)>>))
  /\ unheard' = [unheard EXCEPT ![f] = {}]
  /\ UNCHANGED <<numberVars, levels, cut>>

-----------------------------------------------------------------------------
(* The kernel, and a callback that reads or writes until nothing is left.   *)
BecomesReadyFor(f, e) ==
  /\ f \in OpenFiles /\ e \notin levels[f] /\ readied < MaxReady /\ readied' = readied + 1
  /\ levels' = [levels EXCEPT ![f] = @ \cup {e}]
  /\ edges' = [edges EXCEPT ![f] = @ \cup ({e} \cap filters[f])]
  /\ unheard' = [unheard EXCEPT ![f] = @ \cup {e}]
  /\ UNCHANGED <<backend, numberVars, pollRecords, filters, cut, batch, stale, loopAt, misled, pollCalls>>

Drain(f, e) ==
  /\ loopAt = "callback" /\ e \in levels[f]
  /\ levels' = [levels EXCEPT ![f] = @ \ {e}] /\ unheard' = [unheard EXCEPT ![f] = @ \ {e}]
  /\ UNCHANGED <<backend, numberVars, pollRecords, filters, edges, cut, batch, stale, loopAt, misled, pollCalls, readied>>

(* select, and the collection of the records that are ready; kevent, which  *)
(* reports each filter for itself, those of unregistered files too.         *)
Event(fd, f, attach) ==
  [fd |-> fd, file |-> f, attach |-> attach, known |-> pollRecords[fd].file # NoPolled]
Collected ==
  {Event(fd, pollRecords[fd].file, levels[pollRecords[fd].file] \cap pollRecords[fd].event) :
     fd \in {n \in PollFds : pollRecords[n].file # NoPolled /\ levels[pollRecords[n].file] \cap pollRecords[n].event # {}}}
Kevents ==
  UNION {{Event(fd, fileAt[fd], {e}) : e \in edges[fileAt[fd]]} : fd \in {n \in PollFds : fileAt[n] # NoPolled}}

WaitReports == IF backend = "select" THEN Collected ELSE Kevents

WaitReturns ==
  /\ loopAt = "wait" /\ batch' = WaitReports
  /\ batch' # {}
  /\ edges' = [f \in PollFiles |-> {}] /\ stale' = {} /\ loopAt' = "batch"
  /\ UNCHANGED <<backend, numberVars, pollRecords, filters, levels, unheard, cut, misled, pollCalls, readied>>

(* The callback that an event is for: select keeps the record itself.       *)
OwnerOf(e) == IF backend = "select" THEN e.file ELSE pollRecords[e.fd].file

(* An event whose number was deleted since is left out; one of a filter     *)
(* that nobody is registered for any more is deleted.                       *)
TakeNext(e) ==
  /\ loopAt = "batch" /\ e \in batch /\ batch' = batch \ {e}
  /\ LET called == OwnerOf(e)
     IN IF e.fd \in stale THEN UNCHANGED <<filters, edges, unheard, loopAt, misled>>
        ELSE IF called = NoPolled
        THEN /\ filters' = [f \in PollFiles |->
                              IF f = fileAt[e.fd] THEN filters[f] \ e.attach ELSE filters[f]]
             /\ edges' = [f \in PollFiles |-> edges[f] \cap filters'[f]]
             /\ UNCHANGED <<unheard, loopAt, misled>>
        ELSE /\ misled' = (misled \/ (e.known /\ (called # e.file \/ ~IsRegistered(e.file))))
             /\ unheard' = [unheard EXCEPT ![called] = @ \ e.attach]
             /\ loopAt' = "callback" /\ UNCHANGED <<filters, edges>>
  /\ UNCHANGED <<backend, numberVars, pollRecords, levels, cut, stale, pollCalls, readied>>

CallbackEnds ==
  /\ loopAt = "callback" /\ loopAt' = "batch"
  /\ UNCHANGED <<backend, numberVars, pollRecords, filters, edges, levels, unheard, cut, batch, stale, misled, pollCalls, readied>>

BatchEnds ==
  /\ loopAt = "batch" /\ batch = {} /\ loopAt' = "wait"
  /\ UNCHANGED <<backend, numberVars, pollRecords, filters, edges, levels, unheard, cut, batch, stale, misled, pollCalls, readied>>

BackendNext ==
  \/ \E f \in PollFiles :
       \/ \E fd \in PollFds : Open(f, fd)
       \/ \E mask \in SUBSET Filters : AddEvent(f, mask) \/ ModifyEvent(f, mask)
       \/ DelEvent(f) \/ CloseFile(f)
       \/ \E e \in Filters : BecomesReadyFor(f, e) \/ Drain(f, e)
  \/ WaitReturns \/ (\E e \in batch : TakeNext(e)) \/ CallbackEnds \/ BatchEnds

BackendSpec == BackendInit /\ [][BackendNext]_backendVars

-----------------------------------------------------------------------------
(* An event of a file that was registered when the wait returned reaches    *)
(* its callback, and only while it is registered, although callbacks of the *)
(* same batch delete and close files and their numbers are used again       *)
(* (EventPoller.cpp:475-504, 547-580).                                      *)
EventsReachOwner == ~misled

(* When the loop waits, what a registered file is ready for and was not     *)
(* told is something the wait will return, whatever masks were asked for in *)
(* between, save WRITE of a file whose last change kqueue cut short         *)
(* (EventPoller.cpp:187-201, 290-303, 522-566).                             *)
NothingUnheard ==
  loopAt = "wait" =>
    \A fd \in PollFds :
      LET f == pollRecords[fd].file
      IN f # NoPolled =>
           \A e \in pollRecords[fd].event \cap unheard[f] :
             \/ \E r \in WaitReports : r.file = f /\ e \in r.attach
             \/ e = "WRITE" /\ f \in cut

(* The loop over kqueue or select serves its files: no event goes astray    *)
(* and none is lost.                                                        *)
BackendsServe == EventsReachOwner /\ NothingUnheard
=============================================================================
