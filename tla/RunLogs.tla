------------------------------ MODULE RunLogs ------------------------------
(***************************************************************************)
(* What users are told of a DAG's runs while these go on: the tasks and    *)
(* logs of the latest run, the log of one task of a given run, and the     *)
(* logs that were uploaded to blob storage.  Each answer is put together   *)
(* from several reads, between which the runs move on.                     *)
(*                                                                         *)
(* One DAG stands for all: the handlers treat theirs one after the other,  *)
(* and no read of one DAG depends on another.  Airflow is external: a try  *)
(* writes its log while it runs, and the log is uploaded some time after.  *)
(***************************************************************************)
EXTENDS Integers, FiniteSets

CONSTANTS
  MaxRuns,       \* bound: runs of the DAG, numbered in the order of their start
  Tasks,
  MaxTries,      \* tries of a task (retries + 1)
  Queries,       \* texts given as a run id to the search in blob storage
  RunNamed,      \* RunNamed[q]: the run whose id q is, 0 if it is no run's
  RunsIncluding  \* RunsIncluding[q]: the runs whose id includes the text q

DagRuns == 1 .. MaxRuns

ASSUME LogBoundsAssumption == MaxRuns \in Nat /\ MaxTries \in Nat \ {0}
ASSUME NamesAssumption ==
  /\ RunNamed \in [Queries -> 0 .. MaxRuns]
  /\ RunsIncluding \in [Queries -> SUBSET DagRuns]
  /\ \A q \in Queries : RunNamed[q] # 0 => RunNamed[q] \in RunsIncluding[q]

VARIABLES
  latest,    \* the runs started so far
  instance,  \* per run and task: its state and the number of its last try
  blobs,     \* the logs in blob storage: run, task and try
  report,    \* getLogsForTasksInLatestRun: the run, and what is known per task
  pipeline,  \* getPipelineLogs: its step, the run, the task picked, the log
  search     \* getLogsForSpecificRunAcrossDags: its step, the text, the logs

logVars == <<latest, instance, blobs, report, pipeline, search>>

Tries  == 0 .. MaxTries
States == {"none", "running", "up_for_retry", "success", "failed"}
Ended  == {"success", "failed"}

Log == [part : {"error", "partial", "whole"}, try : Tries]
NoLog == [part |-> "error", try |-> 0]
Blob == [run : DagRuns, task : Tasks, try : Tries]

Unread == [step |-> "unread", state |-> "none", try |-> 1, log |-> NoLog]
NoPipeline == [step |-> "idle"]
NoSearch == [step |-> "idle"]

LogTypeOK ==
  /\ latest \in 0 .. MaxRuns
  /\ instance \in [DagRuns -> [Tasks -> [state : States, try : Tries]]]
  /\ blobs \subseteq Blob
  /\ report \in [run   : 0 .. MaxRuns,
                 tasks : [Tasks -> [step : {"unread", "instance", "log"},
                                    state : States \cup {"null"}, try : Tries, log : Log]]]
  /\ pipeline \in {NoPipeline} \cup
       [step : {"listed", "shown"}, run : DagRuns, task : Tasks, state : States, log : Log]
  /\ search \in {NoSearch} \cup
       [step : {"exact", "done", "failed"}, text : Queries, before : SUBSET Blob, found : SUBSET Blob]

LogInit ==
  /\ latest = 0
  /\ instance = [r \in DagRuns |-> [t \in Tasks |-> [state |-> "none", try |-> 0]]]
  /\ blobs = {}
  /\ report = [run |-> 0, tasks |-> [t \in Tasks |-> Unread]]
  /\ pipeline = NoPipeline
  /\ search = NoSearch

----------------------------------------------------------------------------
(* Airflow.                                                                *)
StartRun ==
  /\ latest < MaxRuns
  /\ latest' = latest + 1
  /\ UNCHANGED <<instance, blobs, report, pipeline, search>>

StartTry(r, t) ==
  /\ r <= latest
  /\ instance[r][t].state \in {"none", "up_for_retry"}
  /\ instance' = [instance EXCEPT ![r][t] = [state |-> "running", try |-> @.try + 1]]
  /\ UNCHANGED <<latest, blobs, report, pipeline, search>>

EndTry(r, t, s) ==
  /\ instance[r][t].state = "running"
  /\ \/ s \in Ended
     \/ s = "up_for_retry" /\ instance[r][t].try < MaxTries
  /\ instance' = [instance EXCEPT ![r][t].state = s]
  /\ UNCHANGED <<latest, blobs, report, pipeline, search>>

(* Somebody clears a task, which is then tried again.                      *)
Clear(r, t) ==
  /\ instance[r][t].state \in Ended
  /\ instance[r][t].try < MaxTries
  /\ instance' = [instance EXCEPT ![r][t].state = "none"]
  /\ UNCHANGED <<latest, blobs, report, pipeline, search>>

(* What a request for the log of a try is answered with.                   *)
LogOf(r, t, n) ==
  LET last == instance[r][t]
  IN IF n = 0 \/ n > last.try THEN NoLog
     ELSE [part |-> IF n = last.try /\ last.state = "running" THEN "partial" ELSE "whole",
           try  |-> n]

Upload(b) ==
  /\ LogOf(b.run, b.task, b.try).part = "whole"
  /\ blobs' = blobs \cup {b}
  /\ UNCHANGED <<latest, instance, report, pipeline, search>>

----------------------------------------------------------------------------
(* getLogsForTasksInLatestRun: the latest run, or none yet, ...            *)
ReadLatestRun ==
  /\ report.run = 0
  /\ latest > 0
  /\ report' = [report EXCEPT !.run = latest]
  /\ UNCHANGED <<latest, instance, blobs, pipeline, search>>

(* ... then for all tasks side by side the instance, of which a failing    *)
(* read leaves the state open and the try at the first, ...                *)
ReadInstance(t) ==
  /\ report.run > 0
  /\ report.tasks[t].step = "unread"
  /\ LET last == instance[report.run][t]
     IN report' \in
          {[report EXCEPT !.tasks[t] = [step |-> "instance", state |-> last.state,
                                        try |-> last.try, log |-> NoLog]],
           [report EXCEPT !.tasks[t] = [step |-> "instance", state |-> "null",
                                        try |-> 1, log |-> NoLog]]}
  /\ UNCHANGED <<latest, instance, blobs, pipeline, search>>

(* Mutant of ReadLog: the log of the first try, as in getTaskLogs.         *)
ReadFirstLog(t) ==
  /\ report.tasks[t].step = "instance"
  /\ \E log \in {LogOf(report.run, t, 1), NoLog} :
       report' = [report EXCEPT !.tasks[t].step = "log", !.tasks[t].log = log]
  /\ UNCHANGED <<latest, instance, blobs, pipeline, search>>

(* ... and the log of that try, or the text of an error.                   *)
ReadLog(t) ==
  /\ report.tasks[t].step = "instance"
  /\ \E log \in {LogOf(report.run, t, report.tasks[t].try), NoLog} :
       report' = [report EXCEPT !.tasks[t].step = "log", !.tasks[t].log = log]
  /\ UNCHANGED <<latest, instance, blobs, pipeline, search>>

----------------------------------------------------------------------------
(* getPipelineLogs: of the tasks listed for a run one that failed, else    *)
(* one that is running, else one that is queued or the last of the list,   *)
(* which is in any order; all of these have the state "none" here.         *)
Picked(r) ==
  LET In(s) == {t \in Tasks : instance[r][t].state = s}
  IN IF In("failed") # {} THEN In("failed")
     ELSE IF In("running") # {} THEN In("running")
     ELSE Tasks

ListTasks(r) ==
  /\ pipeline.step = "idle"
  /\ r <= latest
  /\ \E t \in Picked(r) :
       pipeline' = [step |-> "listed", run |-> r, task |-> t,
                    state |-> instance[r][t].state, log |-> NoLog]
  /\ UNCHANGED <<latest, instance, blobs, report, search>>

(* The log it shows is that of the first try, which is the default.        *)
ShowLog ==
  /\ pipeline.step = "listed"
  /\ \E log \in {LogOf(pipeline.run, pipeline.task, 1), NoLog} :
       pipeline' = [pipeline EXCEPT !.step = "shown", !.log = log]
  /\ UNCHANGED <<latest, instance, blobs, report, search>>

----------------------------------------------------------------------------
BlobsOf(runs) == {b \in blobs : b.run \in runs}

(* Mutant of SearchExact: the broader search follows in any case.          *)
SearchExactAndBroad(q) ==
  /\ search.step = "idle"
  /\ search' = LET own == BlobsOf({RunNamed[q]})
               IN [step |-> "exact", text |-> q, before |-> own, found |-> own]
  /\ UNCHANGED <<latest, instance, blobs, report, pipeline>>

(* getLogsForSpecificRunAcrossDags: the blobs under the run's prefix, each *)
(* with its text or the error of its download, ...                         *)
SearchExact(q) ==
  /\ search.step = "idle"
  /\ search' = LET own == BlobsOf({RunNamed[q]})
               IN [step   |-> IF own = {} THEN "exact" ELSE "done",
                   text   |-> q,
                   before |-> own,
                   found  |-> own]
  /\ UNCHANGED <<latest, instance, blobs, report, pipeline>>

(* ... or, only if there are none, those whose names include the text and  *)
(* whose download does not fail.                                           *)
SearchBroad ==
  /\ search.step = "exact"
  /\ \E found \in SUBSET BlobsOf(RunsIncluding[search.text]) :
       search' = [search EXCEPT !.step = "done", !.found = found]
  /\ UNCHANGED <<latest, instance, blobs, report, pipeline>>

(* A listing that throws leaves one entry, the error, of all the others.   *)
ListingFails(q) ==
  /\ \/ search.step = "idle"
     \/ search.step = "exact" /\ q = search.text
  /\ search' = [step |-> "failed", text |-> q, before |-> {}, found |-> {}]
  /\ UNCHANGED <<latest, instance, blobs, report, pipeline>>

Airflow ==
  \/ StartRun
  \/ \E r \in DagRuns, t \in Tasks : StartTry(r, t) \/ Clear(r, t)
  \/ \E r \in DagRuns, t \in Tasks, s \in States : EndTry(r, t, s)

Reporting == ReadLatestRun \/ \E t \in Tasks : ReadInstance(t) \/ ReadLog(t)

Showing == ShowLog \/ \E r \in DagRuns : ListTasks(r)

Searching ==
  \/ \E b \in Blob : Upload(b)
  \/ \E q \in Queries : SearchExact(q) \/ ListingFails(q)
  \/ SearchBroad

LogNext == Airflow \/ Reporting \/ Showing \/ Searching

LogSpec == LogInit /\ [][LogNext]_logVars

----------------------------------------------------------------------------
(* The log next to a task that the report on the latest run calls ended    *)
(* is the whole of the try that ended so, or the text of an error, though  *)
(* state and log are read one after the other and the task may have been   *)
(* cleared in between; and the log shown as that of a failed task is       *)
(* never one that is still being written.                                  *)
ReportsAreTrue ==
  /\ \A t \in Tasks :
       LET told == report.tasks[t]
       IN told.step = "log" /\ told.state \in Ended =>
            /\ told.log \in {NoLog, [part |-> "whole", try |-> told.try]}
            /\ told.try = instance[report.run][t].try =>
                 instance[report.run][t].state \in {told.state, "none"}
  /\ pipeline.step = "shown" /\ pipeline.state = "failed" =>
       pipeline.log.part # "partial"

(* The search for a run's logs finds those that were uploaded before it    *)
(* began, and then no others; what it finds besides is of a run whose id   *)
(* includes the text, although the store is listed twice.                  *)
SearchFindsItsRun ==
  search.step = "done" =>
    /\ search.before \subseteq search.found
    /\ search.before # {} => \A b \in search.found : b.run = RunNamed[search.text]
    /\ \A b \in search.found : b.run \in RunsIncluding[search.text]
=============================================================================
