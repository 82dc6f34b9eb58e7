------------------------------- MODULE SqlPool -------------------------------
(***************************************************************************)
(* SqlPool (src/src/Util/SqlPool.h, SqlConnection.h): connections lent by  *)
(* a ResourcePool, statements that a thread executes itself, and           *)
(* statements left to one executor, which puts those that fail into        *)
(* _error_query, from where a timer takes them up again.  The server is    *)
(* external: any query may fail.                                           *)
(***************************************************************************)
EXTENDS ResourcePool

CONSTANTS
  Executor,   \* the thread of _threadPool
  Statements, \* texts
  Formats,    \* those with a percent sign
  MaxErrors,  \* bound: errors of the server
  NoJob

ASSUME SqlAssumption ==
  /\ Executor \in Threads /\ Formats \subseteq Statements /\ MaxErrors \in Nat
  /\ NoJob \notin [text : Statements, tryCnt : Nat, as : {"given", "formatted"}]

VARIABLES
  jobs,     \* tasks of the executor: [text, tryCnt, as]
  errors,   \* _error_query
  job,      \* of each thread, what it queries, NoJob when nothing
  issued,   \* statements given to asyncQuery or syncQuery (history)
  tries,    \* of each statement, attempts that failed (history)
  thrown,   \* statements whose syncQuery threw to the caller (history)
  done,     \* what the server executed: [text, as] (history)
  spoilt,   \* connections on which a query has failed (history)
  failures  \* number of errors

sqlOwn == <<jobs, errors, job, issued, tries, thrown, done, spoilt, failures>>
sqlVars == <<resVars, sqlOwn>>

SqlInit ==
  /\ ResInit
  /\ jobs = <<>> /\ errors = <<>> /\ job = [t \in Threads |-> NoJob]
  /\ issued = {} /\ tries = [s \in Statements |-> 0]
  /\ thrown = {} /\ done = {} /\ spoilt = {} /\ failures = 0

Job(text, tryCnt, as) == [text |-> text, tryCnt |-> tryCnt, as |-> as]

(* asyncQuery_l with the default of tryCnt.                                 *)
AsyncQuery(s) ==
  /\ s \notin issued
  /\ issued' = issued \cup {s}
  /\ jobs' = Append(jobs, Job(s, 3, "given"))
  /\ UNCHANGED <<resVars, errors, job, tries, thrown, done, spoilt, failures>>

(* syncQuery by the caller.                                                 *)
SyncQuery(t, s) ==
  /\ t # Executor /\ job[t] = NoJob /\ stage[t] = "idle" /\ s \notin issued
  /\ issued' = issued \cup {s}
  /\ job' = [job EXCEPT ![t] = Job(s, 0, "given")]
  /\ UNCHANGED <<resVars, jobs, errors, tries, thrown, done, spoilt, failures>>

RunJob ==
  /\ job[Executor] = NoJob /\ stage[Executor] = "idle" /\ jobs # <<>>
  /\ job' = [job EXCEPT ![Executor] = Head(jobs)] /\ jobs' = Tail(jobs)
  /\ UNCHANGED <<resVars, errors, issued, tries, thrown, done, spoilt, failures>>

(* One attempt of t is over.                                                *)
Failed(t) ==
  /\ failures < MaxErrors /\ failures' = failures + 1
  /\ tries' = [tries EXCEPT ![job[t].text] = @ + 1]
  /\ job' = [job EXCEPT ![t] = NoJob]

(* Mutant: the failed statement is forgotten.                               *)
ThrownForgets(t) ==
  /\ Failed(t)
  /\ UNCHANGED <<errors, thrown>>

(* The exception of syncQuery: to the caller, or to the executor's lambda.  *)
Thrown(t) ==
  /\ Failed(t)
  /\ IF t = Executor
     THEN /\ errors' = IF job[t].tryCnt - 1 > 0
                       THEN Append(errors, [job[t] EXCEPT !.tryCnt = @ - 1]) ELSE errors
          /\ UNCHANGED thrown
     ELSE thrown' = thrown \cup {job[t].text} /\ UNCHANGED errors

Rest == <<jobs, issued, done>>

(* obtain: a new connection is made, one is taken from the pool, or the     *)
(* constructor throws.                                                      *)
Takes(t) ==
  /\ job[t] # NoJob
  /\ Obtain(t) \/ GetPtr(t)
  /\ IF stage'[t] = "idle" THEN Thrown(t) /\ UNCHANGED spoilt
     ELSE UNCHANGED <<job, errors, tries, thrown, failures, spoilt>>
  /\ UNCHANGED Rest

(* The query succeeds; the pointer goes when syncQuery returns.             *)
QuerySucceeds(t) ==
  /\ job[t] # NoJob /\ stage[t] = "uses"
  /\ ReleasePtr(t)
  /\ done' = done \cup {[text |-> job[t].text, as |-> job[t].as]}
  /\ job' = [job EXCEPT ![t] = NoJob]
  /\ UNCHANGED <<jobs, errors, issued, tries, thrown, spoilt, failures>>

(* Mutant: syncQuery without mysql.quit().                                  *)
QueryFailsKept(t) ==
  /\ job[t] # NoJob /\ stage[t] = "uses"
  /\ spoilt' = spoilt \cup {lent[t]}
  /\ Thrown(t)
  /\ UNCHANGED <<resVars, Rest>>

(* query throws: mysql.quit(), and the pointer goes with the exception.     *)
QueryFails(t) ==
  /\ job[t] # NoJob /\ stage[t] = "uses"
  /\ Quit(t)
  /\ spoilt' = spoilt \cup {lent[t]}
  /\ Thrown(t)
  /\ UNCHANGED Rest

(* A pointer that outlives its query is released; a new connection may get  *)
(* the place of a deleted one.                                              *)
Returns(t) ==
  /\ job[t] = NoJob
  /\ ReleasePtr(t) \/ Recycle(t)
  /\ spoilt' = spoilt \cap exists'
  /\ UNCHANGED <<jobs, errors, job, issued, tries, thrown, done, failures>>

Formatted(j) == IF j.text \in Formats THEN "formatted" ELSE j.as

(* asyncQuery(query.sql_str, query.tryCnt): the count is an argument of the *)
(* format, and the statement starts again with the default.                 *)
FlushError ==
  /\ errors # <<>>
  /\ jobs' = jobs \o [i \in DOMAIN errors |-> Job(errors[i].text, 3, Formatted(errors[i]))]
  /\ errors' = <<>>
  /\ UNCHANGED <<resVars, job, issued, tries, thrown, done, spoilt, failures>>

SqlNext ==
  \/ (SetSize \/ EndReserve) /\ UNCHANGED sqlOwn
  \/ \E s \in Statements : AsyncQuery(s) \/ \E t \in Threads : SyncQuery(t, s)
  \/ RunJob \/ FlushError
  \/ \E t \in Threads : Takes(t) \/ QuerySucceeds(t) \/ QueryFails(t) \/ Returns(t)

SqlSpec == SqlInit /\ [][SqlNext]_sqlVars

-----------------------------------------------------------------------------
(* Properties.                                                              *)

SqlTypeOK == ResTypeOK /\ issued \subseteq Statements /\ spoilt \subseteq Objects

Waiting(s) ==
  \/ \E i \in DOMAIN jobs : jobs[i].text = s
  \/ \E i \in DOMAIN errors : errors[i].text = s
  \/ \E t \in Threads : job[t] # NoJob /\ job[t].text = s

(* Every statement given to the pool has been executed, is waiting for its  *)
(* first or another attempt, its caller got the exception, or it failed as  *)
(* often as the count of retries allows; it is never executed twice at a    *)
(* time, and only a retried one with a percent sign reaches the server in   *)
(* another form (asyncQuery_l, syncQuery and flushError).                   *)
NoStatementLost ==
  /\ \A s \in issued : \/ s \in thrown \/ Waiting(s) \/ tries[s] >= 3
                       \/ \E d \in done : d.text = s
  /\ \A d \in done : ~Waiting(d.text)
  /\ \A d \in done : d.as = "formatted" => d.text \in Formats /\ failures > 0

(* A connection on which a query failed is not used for another query       *)
(* (syncQuery's quit and the deleter of ResourcePool).                      *)
SpoiltNotReused ==
  /\ spoilt \cap Pooled = {}
  /\ \A t \in Threads : lent[t] \in spoilt => job[t] = NoJob

(* ResourcePool and SqlPool: an object has one user, a connection that      *)
(* failed is not used again, and no statement is dropped before its retries *)
(* are used up, as long as no reserve of setSize meets getPtr or recycle.   *)
LendingSafe == ~torn => LentToOne /\ SpoiltNotReused /\ NoStatementLost

(* "@param tryCnt Number of retries" (SqlPool.h:146, 3 by default): no      *)
(* statement fails more often than at its first attempt and three retries   *)
(* (asyncQuery_l and flushError).                                           *)
RetriesEnd == \A s \in Statements : tries[s] <= 1 + 3

=============================================================================
