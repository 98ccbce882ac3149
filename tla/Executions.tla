----------------------------- MODULE Executions -----------------------------
(***************************************************************************)
(* Running a blueprint's agent and recording the result with the           *)
(* dashboard's figures: apps/ops/routers/execute.py, _piagent.py,          *)
(* db/_executions.py, the queries of db/_dashboard.py and journal.py.      *)
(*                                                                         *)
(* execute_task is a plain function in a thread of FastAPI's pool.  It     *)
(* looks the blueprint up, waits for OpenClaw's command, takes the time,   *)
(* and then writes the execution and every figure in one transaction: the  *)
(* INSERT takes SQLite's write lock, so the reads after it see no other    *)
(* writer.  It may have to wait for that lock, which every other request   *)
(* to the service may hold, and midnight may pass meanwhile; after five    *)
(* seconds it fails and records nothing.                                   *)
(***************************************************************************)
EXTENDS Integers, Sequences, FiniteSets, Functions

CONSTANTS
    Runners,      \* threads of the pool that run execute_task
    Blueprints,
    Tokens,       \* token counts that a run of the agent reports
    Baseline,     \* DASHBOARD_STATS_BASELINE: [tokens, tasks, ok]
    SeedDetail,   \* the seeded task_detail
    KeepDays,     \* 30 in the code
    MaxDay, MaxExecutions,   \* bounds
    NoRun

ASSUME ExecutionsAssumption ==
    /\ Tokens \subseteq Nat
    /\ Baseline \in [tokens : Nat, tasks : Nat, ok : Nat]
    /\ KeepDays \in Nat \ {0}
    /\ MaxDay \in Nat \ {0} /\ MaxExecutions \in Nat
    /\ IsFiniteSet(Runners)

\* The service starts on day 1, after the days of the seeded task_detail; a year is longer
\* than MaxDay.
Day == (1 - KeepDays)..MaxDay
Statuses == {"ok", "error"}   \* "error" is every status but 'ok'

Result    == [status : Statuses, tokens : Tokens \cup {0}]
Execution == [blueprint : Blueprints, status : Statuses, tokens : Nat, day : Day]
Figures   == [tokens : Nat, tasks : Nat, ok : Nat, today : Nat, yesterday : Nat]
Entry     == [day : Day, ok : Nat, failed : Nat]

Run == [pc : {"lookedup"}, blueprint : Blueprints]
       \cup [pc : {"stamped"}, blueprint : Blueprints, result : Result, day : Day]

ASSUME RunAssumption == NoRun \notin Run

\* The seed has days in their order, all before the first, and as many as are kept at most.
ASSUME SeedAssumption ==
    /\ SeedDetail \in Seq(Entry) \ {<<>>} /\ Len(SeedDetail) <= KeepDays
    /\ \A i, k \in DOMAIN SeedDetail : i < k => SeedDetail[i].day < SeedDetail[k].day
    /\ \A i \in DOMAIN SeedDetail : SeedDetail[i].day < 1

VARIABLES
    present,    \* the blueprints of the table
    runs,       \* requests between two of their steps
    executions, \* task_executions, oldest first
    figures,    \* dashboard_stats
    detail,     \* task_detail, one entry per day
    today,
    recordedOn, \* history: the day each execution was written
    unrecorded  \* history: requests that ended on a lock (timedOut) or in a crash (lost)

executionsVars == <<present, runs, executions, figures, detail, today, recordedOn, unrecorded>>

-----------------------------------------------------------------------------

TokensOf(xs) == SumFunctionOnSet([i \in DOMAIN xs |-> xs[i].tokens], DOMAIN xs)

\* COUNT( * ) over the executions of some days with some statuses.
Count(xs, days, statuses) ==
    Cardinality({i \in DOMAIN xs : xs[i].day \in days /\ xs[i].status \in statuses})

\* The total that list_executions gives for a filter on the status.
JournalTotal(statuses) == Count(executions, Day, statuses)

\* Mutant of Recalculated: the figures of a day are those of the last one.
RecalculatedOfToday(xs, d) ==
    [tokens |-> Baseline.tokens + TokensOf(xs), tasks |-> Baseline.tasks + Len(xs),
     ok |-> Baseline.ok + Count(xs, {d}, {"ok"}),
     today |-> Count(xs, {d}, Statuses), yesterday |-> Count(xs, {d - 1}, Statuses)]

\* The figures of _recalc_stats, from all executions.
Recalculated(xs, d) ==
    [tokens |-> Baseline.tokens + TokensOf(xs), tasks |-> Baseline.tasks + Len(xs),
     ok |-> Baseline.ok + Count(xs, Day, {"ok"}),
     today |-> Count(xs, {d}, Statuses), yesterday |-> Count(xs, {d - 1}, Statuses)]

\* The last KeepDays entries.
Trim(entries) ==
    IF Len(entries) > KeepDays
    THEN SubSeq(entries, Len(entries) - KeepDays + 1, Len(entries)) ELSE entries

\* Mutant of Extended: an entry of today is overwritten with the last execution.
ExtendedOverwrites(entries, xs, d) ==
    LET ok     == Count(<<xs[Len(xs)]>>, {d}, {"ok"})
        failed == Count(<<xs[Len(xs)]>>, {d}, {"error"})
        n      == Len(entries)
        e      == [day |-> d, ok |-> ok, failed |-> failed]
    IN  Trim(IF entries[n].day = d THEN [entries EXCEPT ![n] = e] ELSE Append(entries, e))

\* The task_detail of _recalc_stats.  After the first execution of a day its entry is
\* there already, and the whole count of the day is added to it each time.
Extended(entries, xs, d) ==
    LET ok     == Count(xs, {d}, {"ok"})
        failed == Count(xs, {d}, {"error"})
        n      == Len(entries)
    IN  Trim(IF entries[n].day = d
             THEN [entries EXCEPT ![n].ok = @ + ok, ![n].failed = @ + failed]
             ELSE Append(entries, [day |-> d, ok |-> ok, failed |-> failed]))

\* seed_all on an empty database.
ExecutionsInit ==
    /\ present = Blueprints
    /\ runs = [t \in Runners |-> NoRun]
    /\ executions = <<>>
    /\ figures = [tokens |-> Baseline.tokens, tasks |-> Baseline.tasks, ok |-> Baseline.ok,
                  today |-> 0, yesterday |-> 0]
    /\ detail = SeedDetail
    /\ today = 1
    /\ recordedOn = <<>>
    /\ unrecorded = [timedOut |-> 0, lost |-> 0]

\* execute_task finds the blueprint; without one it answers 404.
LookUp(t, b) ==
    /\ runs[t] = NoRun /\ b \in present
    /\ Len(executions) + unrecorded.timedOut + unrecorded.lost < MaxExecutions
    /\ runs' = [runs EXCEPT ![t] = [pc |-> "lookedup", blueprint |-> b]]
    /\ UNCHANGED <<present, executions, figures, detail, today, recordedOn, unrecorded>>

\* _run_piagent ends: the agent's answer, whatever status and usage it gives, or one of
\* the errors that have none (no command, no JSON, nothing, a timeout).  record_execution
\* then takes the time.
AgentEnds(t, result) ==
    /\ runs[t] # NoRun /\ runs[t].pc = "lookedup"
    /\ runs' = [runs EXCEPT ![t] = [pc |-> "stamped", blueprint |-> runs[t].blueprint,
                                    result |-> result, day |-> today]]
    /\ UNCHANGED <<present, executions, figures, detail, today, recordedOn, unrecorded>>

\* record_execution's transaction.  _recalc_stats takes the time again.
Record(t) ==
    /\ runs[t] # NoRun /\ runs[t].pc = "stamped"
    /\ LET xs == Append(executions, [blueprint |-> runs[t].blueprint,
                                     status |-> runs[t].result.status,
                                     tokens |-> runs[t].result.tokens, day |-> runs[t].day])
       IN  /\ executions' = xs
           /\ figures' = Recalculated(xs, today)
           /\ detail' = Extended(detail, xs, today)
    /\ recordedOn' = Append(recordedOn, today)
    /\ runs' = [runs EXCEPT ![t] = NoRun]
    /\ UNCHANGED <<present, today, unrecorded>>

\* "database is locked": some transaction on the database, of any router, is under way for
\* more than five seconds.
LockTimesOut(t) ==
    /\ runs[t] # NoRun /\ runs[t].pc = "stamped"
    /\ runs' = [runs EXCEPT ![t] = NoRun]
    /\ unrecorded' = [unrecorded EXCEPT !.timedOut = @ + 1]
    /\ UNCHANGED <<present, executions, figures, detail, today, recordedOn>>

\* delete_blueprint, which does not look for executions.
DeleteBlueprint(b) ==
    /\ b \in present
    /\ present' = present \ {b}
    /\ UNCHANGED <<runs, executions, figures, detail, today, recordedOn, unrecorded>>

Midnight ==
    /\ today < MaxDay
    /\ today' = today + 1
    /\ UNCHANGED <<present, runs, executions, figures, detail, recordedOn, unrecorded>>

\* The service stops: what its requests had not committed is lost.
ServiceStops ==
    /\ \E t \in Runners : runs[t] # NoRun
    /\ runs' = [t \in Runners |-> NoRun]
    /\ unrecorded' = [unrecorded EXCEPT
                         !.lost = @ + Cardinality({t \in Runners : runs[t] # NoRun})]
    /\ UNCHANGED <<present, executions, figures, detail, today, recordedOn>>

ExecutionsNext ==
    \/ Midnight \/ ServiceStops
    \/ \E b \in Blueprints : DeleteBlueprint(b)
    \/ \E t \in Runners :
          \/ \E b \in Blueprints : LookUp(t, b)
          \/ \E r \in Result : AgentEnds(t, r)
          \/ Record(t) \/ LockTimesOut(t)

ExecutionsSpec == ExecutionsInit /\ [][ExecutionsNext]_executionsVars

-----------------------------------------------------------------------------
(* Properties. *)

ExecutionsTypeOK ==
    /\ present \subseteq Blueprints
    /\ runs \in [Runners -> Run \cup {NoRun}]
    /\ executions \in Seq(Execution)
    /\ figures \in Figures
    /\ detail \in Seq(Entry)
    /\ today \in Day
    /\ recordedOn \in Seq(Day)
    /\ unrecorded \in [timedOut : Nat, lost : Nat]

\* The dashboard shows what the journal counts, over the baseline, whatever order the
\* requests are recorded in, whichever of them fail and whatever is deleted; its trend is
\* that of the day of the last recording, not of the last stamp.
FiguresAgree ==
    /\ figures.tasks = Baseline.tasks + JournalTotal(Statuses)
    /\ figures.ok = Baseline.ok + JournalTotal({"ok"})
    /\ figures.tokens = Baseline.tokens + TokensOf(executions)
    /\ recordedOn # <<>> =>
           LET d == recordedOn[Len(recordedOn)]
           IN  /\ figures.today = Count(executions, {d}, Statuses)
               /\ figures.yesterday = Count(executions, {d - 1}, Statuses)

\* One entry per day, in order, none of a day to come, and no more than KeepDays of them.
ChartIsChronological ==
    /\ \A i, k \in DOMAIN detail : i < k => detail[i].day < detail[k].day
    /\ \A i \in DOMAIN detail : detail[i].day <= today
    /\ Len(detail) <= KeepDays

OnTheDay(d, statuses) ==
    Cardinality({i \in DOMAIN executions :
                    /\ executions[i].day = d /\ recordedOn[i] = d
                    /\ executions[i].status \in statuses})

\* Although executions are recorded out of the order of their stamps, the chart is in the
\* order of days, and every execution that is recorded on the day of its stamp is in the
\* entry of that day.
ChartCountsEnough ==
    /\ ChartIsChronological
    /\ \A i \in DOMAIN detail : detail[i].day > 0 =>
        /\ detail[i].ok >= OnTheDay(detail[i].day, {"ok"})
        /\ detail[i].failed >= OnTheDay(detail[i].day, {"error"})

\* "Append today's counts to task_detail."
ChartIsExact ==
    \A i \in DOMAIN detail : detail[i].day > 0 =>
        detail[i].ok <= Count(executions, {detail[i].day}, {"ok"})

\* The inductive invariant.  There is always an entry for a recording to extend.
ExecutionsInv ==
    /\ ExecutionsTypeOK /\ FiguresAgree /\ ChartCountsEnough
    /\ detail # <<>>
    /\ Len(recordedOn) = Len(executions)
=============================================================================
