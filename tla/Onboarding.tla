----------------------------- MODULE Onboarding -----------------------------
(***************************************************************************)
(* Deploying, editing and deleting blueprints (digital employees):         *)
(* apps/ops/routers/onboarding.py and avatar.py, db/_blueprints.py,        *)
(* openclaw_registry.py, avatar_assembler.py, reset_seed_blueprints.       *)
(*                                                                         *)
(* Handlers are plain functions that FastAPI runs in a pool of threads.    *)
(* Each SQL statement of one is atomic, but a SELECT opens no transaction: *)
(* other requests run between the SELECT of a handler and its UPDATE, and  *)
(* between its database work and its work on OpenClaw's files.  A job is   *)
(* such a request between two of its steps.  Each step may fail, the       *)
(* database being locked for five seconds or a file not written: the       *)
(* request then ends, and what it has done stays.  The database, the agent *)
(* directories and openclaw.json survive a crash; the jobs do not.         *)
(***************************************************************************)
EXTENDS Integers, Sequences, Functions

CONSTANTS
    Threads,
    MaxSecond,      \* bound: a deployment takes the current second as its id
    SeedVersions, SeedUsed,   \* the versions and capacity.used of the seeded row
    Traffic,        \* traffic weights that clients ask for
    MinReplicas,    \* scaling.minReplicas of a deployment
    Fields,         \* soul_content, agents_content, user_content, tools_enabled
    Contents,       \* what clients put into a field
    Puts,           \* the put requests: values for some of the fields
    BodyIds,        \* the ids that a put may carry in its body
    MaxRequests,    \* bound on the requests that change something
    Empty,          \* "" and NULL
    Default,        \* the text a file gets for an empty field
    NoFile, NoRow, NoDir,
    Rewritten,      \* ids that OpenClaw normalises to something else
    Idle

Seed == 0               \* the seeded row
Ids  == 0..MaxSecond    \* deployed rows are numbered by the second they carry

Version == [traffic : Int, status : {"published", "testing", "deprecated"}, replicas : Nat]
Config  == [Fields -> Contents \cup {Empty}]
Row     == [versions : Seq(Version), used : Int, config : Config]
Files   == [Fields -> Contents \cup {Default, NoFile}]

Job == [op : {"insert"}, id : Ids]
       \cup [op : {"update"}, id : Ids, base : Seq(Version), versions : Seq(Version)]
       \cup [op : {"delete", "unlist", "rmtree"}, id : Ids]
       \cup [op : {"relist"}, id : Ids, list : SUBSET Ids]
       \cup [op : {"save", "write"}, id : Ids, read : Config, put : Puts, to : Ids]

ASSUME OnboardingAssumption ==
    /\ MaxSecond \in Nat /\ MaxRequests \in Nat
    /\ Puts \subseteq UNION {[S -> Contents \cup {Empty}] : S \in SUBSET Fields}
    /\ BodyIds \subseteq Ids
    /\ MinReplicas \in Nat
    /\ SeedVersions \in Seq(Version) /\ SeedUsed \in Int
    /\ Traffic \subseteq Int
    /\ "soul" \in Fields
    /\ Empty \notin Contents
    /\ NoRow \notin Row /\ NoDir \notin Files /\ Idle \notin Job

VARIABLES
    now,       \* the current second
    rows,      \* the blueprints table
    dirs,      \* agents/<id>/agent: its files
    listed,    \* agents.list of openclaw.json
    jobs,
    started,   \* how many requests have begun
    deployed,  \* history: ids that a deployment has taken
    edited,    \* history: ids whose files were last written by a put
    trouble    \* history, by id: the Troubles it has had

\* Two of its requests were under way at the same time, it was deployed again, the
\* service stopped in the middle of a request, a request failed after its first write,
\* or files of a put went to the directory of another id or of none.
Troubles == {"overlap", "twice", "crash", "failed", "astray"}

vars == <<now, rows, dirs, listed, jobs, started, deployed, edited, trouble>>

-----------------------------------------------------------------------------

UsedBy(versions) ==
    SumFunctionOnSet([i \in DOMAIN versions |-> versions[i].replicas],
                     {i \in DOMAIN versions : versions[i].traffic > 0})

\* assemble_soul, assemble_agents, assemble_user, assemble_tools.
Assemble(config) == [f \in Fields |-> IF config[f] = Empty THEN Default ELSE config[f]]

\* {**db_config, **config}.
Merge(config, put) == [f \in Fields |-> IF f \in DOMAIN put THEN put[f] ELSE config[f]]

Busy(id) == {t \in Threads : jobs[t] # Idle /\ jobs[t].id = id}

\* Thread t goes on to job, the last step of the request when it is Idle.
Continue(t, job) == jobs' = [jobs EXCEPT ![t] = job] /\ UNCHANGED <<started, trouble>>

\* A request on id starts in thread t; it overlaps when others on id are under way.
Begin(t, id, job, why) ==
    /\ jobs[t] = Idle /\ started < MaxRequests
    /\ started' = started + 1
    /\ jobs' = [jobs EXCEPT ![t] = job]
    /\ trouble' = [trouble EXCEPT ![id] =
                      @ \cup why \cup (IF Busy(id) = {} THEN {} ELSE {"overlap"})]

\* The last step of thread t's request, which leaves its trace on some ids.
EndWith(t, ids, why) ==
    /\ jobs' = [jobs EXCEPT ![t] = Idle]
    /\ trouble' = [id \in Ids |-> trouble[id] \cup (IF id \in ids THEN {why} ELSE {})]
    /\ UNCHANGED started

\* The seeded row and no agent of ours.
Init ==
    /\ now = 1
    /\ rows = [id \in Ids |->
                  IF id = Seed
                  THEN [versions |-> SeedVersions, used |-> SeedUsed,
                        config |-> [f \in Fields |-> Empty]]
                  ELSE NoRow]
    /\ dirs = [id \in Ids |-> NoDir]
    /\ listed = {}
    /\ jobs = [t \in Threads |-> Idle]
    /\ started = 0
    /\ deployed = {}
    /\ edited = {}
    /\ trouble = [id \in Ids |-> {}]

-----------------------------------------------------------------------------
(* Deployment.  Two of the same role in the same second have the same id.  *)

\* The second becomes the id of a deployment, which may have been one's before.
Taken(t, job, why) ==
    /\ now <= MaxSecond
    /\ Begin(t, now, job, why \cup (IF now \in deployed THEN {"twice"} ELSE {}))
    /\ deployed' = deployed \cup {now}

\* Mutant of RegisterAgent: the directory is left to the first put.
RegisterLater(t, soul) ==
    /\ Taken(t, [op |-> "insert", id |-> now], {})
    /\ listed' \in {listed, listed \cup {now}}
    /\ edited' = edited \ {now}
    /\ UNCHANGED <<now, rows, dirs>>

\* register_agent: directory, OpenClaw's command, SOUL.md.  The command may fail, or find
\* the agent registered; either is only logged.
RegisterAgent(t, soul) ==
    /\ Taken(t, [op |-> "insert", id |-> now], {})
    /\ dirs' = [dirs EXCEPT ![now] =
                   [f \in Fields |-> IF f = "soul" THEN soul
                                     ELSE IF dirs[now] = NoDir THEN NoFile
                                     ELSE dirs[now][f]]]
    /\ listed' \in {listed, listed \cup {now}}
    /\ edited' = edited \ {now}
    /\ UNCHANGED <<now, rows>>

\* It raises on SOUL.md: 500, and the directory stays.
RegisterFails(t) ==
    /\ Taken(t, Idle, {"failed"})
    /\ dirs' = [dirs EXCEPT ![now] = IF @ = NoDir THEN [f \in Fields |-> NoFile] ELSE @]
    /\ listed' \in {listed, listed \cup {now}}
    /\ UNCHANGED <<now, rows, edited>>

NewRow == [versions |-> <<[traffic |-> 100, status |-> "published", replicas |-> MinReplicas]>>,
           used |-> MinReplicas, config |-> [f \in Fields |-> Empty]]

\* The INSERT, which fails when the id is taken; what register_agent did stays.
InsertRow(t) ==
    /\ jobs[t] # Idle /\ jobs[t].op = "insert"
    /\ rows' = IF rows[jobs[t].id] = NoRow
               THEN [rows EXCEPT ![jobs[t].id] = NewRow] ELSE rows
    /\ Continue(t, Idle)
    /\ UNCHANGED <<now, dirs, listed, deployed, edited>>

\* No row after all: register_agent raises on the files it copies, the scaling of the
\* body has no maxReplicas, or the database is locked.  The directory stays.
DeployFails(t) ==
    /\ jobs[t] # Idle /\ jobs[t].op = "insert"
    /\ EndWith(t, {jobs[t].id}, "failed")
    /\ UNCHANGED <<now, rows, dirs, listed, deployed, edited>>

-----------------------------------------------------------------------------
(* Traffic and versions: the SELECT, then an UPDATE of the whole column.   *)

\* Mutant of ReadForTraffic: traffic publishes the version again.
TrafficRepublishes(t, id, i, traffic) ==
    /\ rows[id] # NoRow /\ i \in DOMAIN rows[id].versions
    /\ Begin(t, id, [op |-> "update", id |-> id, base |-> rows[id].versions,
                     versions |-> [rows[id].versions EXCEPT
                        ![i] = [@ EXCEPT !.traffic = traffic, !.status = "published"]]], {})
    /\ UNCHANGED <<now, rows, dirs, listed, deployed, edited>>

\* update_traffic finds the row and computes what it will write.
ReadForTraffic(t, id, i, traffic) ==
    /\ rows[id] # NoRow /\ i \in DOMAIN rows[id].versions
    /\ Begin(t, id, [op |-> "update", id |-> id, base |-> rows[id].versions,
                     versions |-> [rows[id].versions EXCEPT ![i].traffic = traffic]], {})
    /\ UNCHANGED <<now, rows, dirs, listed, deployed, edited>>

\* deprecate_version likewise.
ReadForDeprecation(t, id, i) ==
    /\ rows[id] # NoRow /\ i \in DOMAIN rows[id].versions
    /\ Begin(t, id, [op |-> "update", id |-> id, base |-> rows[id].versions,
                     versions |-> [rows[id].versions EXCEPT
                        ![i] = [@ EXCEPT !.traffic = 0, !.status = "deprecated"]]], {})
    /\ UNCHANGED <<now, rows, dirs, listed, deployed, edited>>

\* Their UPDATE of versions and capacity; it changes nothing when the row is gone.
UpdateVersions(t) ==
    /\ jobs[t] # Idle /\ jobs[t].op = "update"
    /\ LET id == jobs[t].id
       IN  rows' = IF rows[id] = NoRow THEN rows
                   ELSE [rows EXCEPT ![id] = [@ EXCEPT !.versions = jobs[t].versions,
                                                       !.used = UsedBy(jobs[t].versions)]]
    /\ Continue(t, Idle)
    /\ UNCHANGED <<now, dirs, listed, deployed, edited>>

\* "database is locked", in a request that has written nothing yet.
Locked(t) ==
    /\ jobs[t] # Idle /\ jobs[t].op \in {"update", "save", "delete"}
    /\ Continue(t, Idle)
    /\ UNCHANGED <<now, rows, dirs, listed, deployed, edited>>

\* reset_seed_blueprints: one transaction that reads nothing.
ResetSeeds ==
    /\ rows[Seed] # NoRow
    /\ rows' = [rows EXCEPT ![Seed] = [@ EXCEPT !.versions = SeedVersions,
                                                !.used = UsedBy(SeedVersions)]]
    /\ UNCHANGED <<now, dirs, listed, jobs, started, deployed, edited, trouble>>

-----------------------------------------------------------------------------
(* put_avatar_config: SELECT, UPDATE of the fields given, files.           *)

\* {**db_config, **config}: an id in the body replaces that of the path for the files.
ReadForPut(t, id, put, to) ==
    /\ rows[id] # NoRow /\ to \in {id} \cup BodyIds
    /\ Begin(t, id, [op |-> "save", id |-> id, read |-> rows[id].config, put |-> put,
                     to |-> to], {})
    /\ UNCHANGED <<now, rows, dirs, listed, deployed, edited>>

\* save_blueprint_config.
SaveConfig(t) ==
    /\ jobs[t] # Idle /\ jobs[t].op = "save"
    /\ LET id == jobs[t].id
       IN  rows' = IF rows[id] = NoRow THEN rows
                   ELSE [rows EXCEPT ![id].config = Merge(@, jobs[t].put)]
    /\ Continue(t, [jobs[t] EXCEPT !.op = "write"])
    /\ UNCHANGED <<now, dirs, listed, deployed, edited>>

\* The ids that the files of put j are wrong for.
Astray(j) ==
    IF j.to # j.id THEN {j.id, j.to} ELSE IF rows[j.id] = NoRow THEN {j.id} ELSE {}

\* Mutant of WriteFiles: only the fields of the request are assembled.
WriteRequestOnly(t) ==
    /\ jobs[t] # Idle /\ jobs[t].op = "write"
    /\ dirs' = [dirs EXCEPT ![jobs[t].to] =
                   Assemble(Merge([f \in Fields |-> Empty], jobs[t].put))]
    /\ edited' = edited \cup {jobs[t].to}
    /\ EndWith(t, Astray(jobs[t]), "astray")
    /\ UNCHANGED <<now, rows, listed, deployed>>

\* write_avatar_files with what the handler read at its start and the request; it makes
\* the directory if there is none (any more).
WriteFiles(t) ==
    /\ jobs[t] # Idle /\ jobs[t].op = "write"
    /\ dirs' = [dirs EXCEPT ![jobs[t].to] = Assemble(Merge(jobs[t].read, jobs[t].put))]
    /\ edited' = edited \cup {jobs[t].to}
    /\ EndWith(t, Astray(jobs[t]), "astray")
    /\ UNCHANGED <<now, rows, listed, deployed>>

\* It raises after some of the files.
WriteFails(t) ==
    /\ jobs[t] # Idle /\ jobs[t].op = "write"
    /\ LET to  == jobs[t].to
           new == Assemble(Merge(jobs[t].read, jobs[t].put))
           old == IF dirs[to] = NoDir THEN [f \in Fields |-> NoFile] ELSE dirs[to]
       IN  /\ \E W \in SUBSET Fields :
                 dirs' = [dirs EXCEPT ![to] = [f \in Fields |-> IF f \in W THEN new[f] ELSE old[f]]]
           /\ EndWith(t, {jobs[t].id, to}, "failed")
    /\ UNCHANGED <<now, rows, listed, deployed, edited>>

-----------------------------------------------------------------------------
(* delete_blueprint: SELECT, DELETE, then OpenClaw's list and directory.   *)

FindForDelete(t, id) ==
    /\ rows[id] # NoRow
    /\ Begin(t, id, [op |-> "delete", id |-> id], {})
    /\ UNCHANGED <<now, rows, dirs, listed, deployed, edited>>

DeleteRow(t) ==
    /\ jobs[t] # Idle /\ jobs[t].op = "delete"
    /\ rows' = [rows EXCEPT ![jobs[t].id] = NoRow]
    /\ Continue(t, [op |-> "unlist", id |-> jobs[t].id])
    /\ UNCHANGED <<now, dirs, listed, deployed, edited>>

\* Mutant of ReadList: an agent that is not listed needs no removal.
ReadListReturns(t) ==
    /\ jobs[t] # Idle /\ jobs[t].op = "unlist"
    /\ LET id == jobs[t].id
       IN  Continue(t, IF id \in listed \ Rewritten
                       THEN [op |-> "relist", id |-> id, list |-> listed \ {id}]
                       ELSE Idle)
    /\ UNCHANGED <<now, rows, dirs, listed, deployed, edited>>

\* remove_agent reads openclaw.json and looks for the id of the blueprint, under which
\* an agent with a normalised id is not found.
ReadList(t) ==
    /\ jobs[t] # Idle /\ jobs[t].op = "unlist"
    /\ LET id == jobs[t].id
       IN  Continue(t, IF id \in listed \ Rewritten
                       THEN [op |-> "relist", id |-> id, list |-> listed \ {id}]
                       ELSE [op |-> "rmtree", id |-> id])
    /\ UNCHANGED <<now, rows, dirs, listed, deployed, edited>>

\* It writes the file back, over whatever was added since.
WriteList(t) ==
    /\ jobs[t] # Idle /\ jobs[t].op = "relist"
    /\ listed' = jobs[t].list
    /\ Continue(t, [op |-> "rmtree", id |-> jobs[t].id])
    /\ UNCHANGED <<now, rows, dirs, deployed, edited>>

RemoveDirectory(t) ==
    /\ jobs[t] # Idle /\ jobs[t].op = "rmtree"
    /\ dirs' = [dirs EXCEPT ![jobs[t].id] = NoDir]
    /\ edited' = edited \ {jobs[t].id}
    /\ Continue(t, Idle)
    /\ UNCHANGED <<now, rows, listed, deployed>>

\* rmtree raises after some of the files.
RemoveFails(t) ==
    /\ jobs[t] # Idle /\ jobs[t].op = "rmtree" /\ dirs[jobs[t].id] # NoDir
    /\ \E gone \in SUBSET Fields :
          dirs' = [dirs EXCEPT ![jobs[t].id] =
                      [f \in Fields |-> IF f \in gone THEN NoFile ELSE dirs[jobs[t].id][f]]]
    /\ EndWith(t, {jobs[t].id}, "failed")
    /\ UNCHANGED <<now, rows, listed, deployed, edited>>

-----------------------------------------------------------------------------

Tick ==
    /\ now <= MaxSecond
    /\ now' = now + 1
    /\ UNCHANGED <<rows, dirs, listed, jobs, started, deployed, edited, trouble>>

\* The service stops and starts again: seed_all finds the tables filled.
Crash ==
    /\ \E t \in Threads : jobs[t] # Idle
    /\ jobs' = [t \in Threads |-> Idle]
    /\ trouble' = [id \in Ids |-> trouble[id] \cup (IF Busy(id) = {} THEN {} ELSE {"crash"})]
    /\ UNCHANGED <<now, rows, dirs, listed, started, deployed, edited>>

Next ==
    \/ Tick \/ Crash \/ ResetSeeds
    \/ \E t \in Threads :
          \/ \E soul \in Contents : RegisterAgent(t, soul)
          \/ RegisterFails(t) \/ DeployFails(t) \/ Locked(t)
          \/ \E id \in Ids :
                \/ \E i \in 1..Len(SeedVersions) :
                      \/ \E w \in Traffic : ReadForTraffic(t, id, i, w)
                      \/ ReadForDeprecation(t, id, i)
                \/ \E put \in Puts, to \in Ids : ReadForPut(t, id, put, to)
                \/ FindForDelete(t, id)
          \/ InsertRow(t) \/ UpdateVersions(t)
          \/ SaveConfig(t) \/ WriteFiles(t) \/ WriteFails(t)
          \/ DeleteRow(t) \/ ReadList(t) \/ WriteList(t)
          \/ RemoveDirectory(t) \/ RemoveFails(t)

Spec == Init /\ [][Next]_vars

-----------------------------------------------------------------------------
(* Properties. *)

TypeOK ==
    /\ now \in 1..(MaxSecond + 1)
    /\ rows \in [Ids -> Row \cup {NoRow}]
    /\ dirs \in [Ids -> Files \cup {NoDir}]
    /\ listed \subseteq Ids
    /\ jobs \in [Threads -> Job \cup {Idle}]
    /\ started \in 0..MaxRequests
    /\ deployed \subseteq Ids /\ edited \subseteq Ids
    /\ trouble \in [Ids -> SUBSET Troubles]

\* However requests overlap and whenever the service stops, a row that was deployed once
\* has its agent directory: it is made before the row and removed after it.
RowHasDirectory ==
    \A id \in Ids \ {Seed} :
        rows[id] # NoRow /\ "twice" \notin trouble[id] => dirs[id] # NoDir

\* The database and the files tell the same of a row.
Agree(id) ==
    /\ id # Seed => (dirs[id] # NoDir <=> rows[id] # NoRow)
    /\ id \in edited => rows[id] # NoRow /\ dirs[id] = Assemble(rows[id].config)

\* Requests that follow each other, on an id of their own, and none of which stops or
\* fails between its writes, leave the database and the files in agreement: there is a
\* directory just when there is a row, and when it was last written by put_avatar_config
\* its files are assembled from what the row says.  A request that finds the database
\* locked is among those that may: but for a deployment it has written nothing.
SerialRequestsAgree ==
    \A id \in Ids : trouble[id] = {} /\ Busy(id) = {} => Agree(id)

\* A directory without a row was left by a request that failed or was stopped, or was
\* written by a put that found no row or was not meant for it.  Requests that overlap and
\* deployments that share an id leave none: whoever deletes the row removes the directory.
LeaksAreExplained ==
    \A id \in Ids :
        dirs[id] # NoDir /\ rows[id] = NoRow /\ Busy(id) = {}
            => trouble[id] \cap {"crash", "failed", "astray"} # {}

\* Deprecation is undone only by a writer that has not seen it, or by a reset.
DeprecationUndoneUnseen ==
    [][\A id \in Ids : \A i \in 1..Len(SeedVersions) :
           (/\ rows[id] # NoRow /\ rows'[id] # NoRow /\ i \in DOMAIN rows[id].versions
            /\ rows[id].versions[i].status = "deprecated"
            /\ rows'[id].versions[i].status # "deprecated")
           => \/ ResetSeeds
              \/ \E t \in Busy(id) : /\ jobs[t].op = "update" /\ jobs'[t] = Idle
                                      /\ jobs[t].base[i].status # "deprecated"]_vars

\* "Remove agent from openclaw config and delete its directory."
DeletedIsUnlisted ==
    \A id \in listed : trouble[id] = {} /\ Busy(id) = {} => rows[id] # NoRow

-----------------------------------------------------------------------------
(* The inductive invariant.  What it says of an id is in three parts.      *)

VersionCount(id) == IF id = Seed THEN Len(SeedVersions) ELSE 1

\* No request adds or removes a version, and what an update writes is deprecated
\* wherever the row that it read was.
VersionsFit(id) ==
    /\ rows[id] # NoRow => Len(rows[id].versions) = VersionCount(id)
    /\ \A t \in Busy(id) : jobs[t].op = "update" =>
          /\ Len(jobs[t].base) = VersionCount(id)
          /\ Len(jobs[t].versions) = VersionCount(id)
          /\ \A i \in 1..VersionCount(id) :
                jobs[t].base[i].status = "deprecated"
                    => jobs[t].versions[i].status = "deprecated"

\* An id that is taken once: its deployment comes before every other request on it, and
\* the last steps of a deletion after every one that finds the row.
TakenOnce(id) ==
    /\ id # Seed /\ id \notin deployed => rows[id] = NoRow /\ Busy(id) = {}
    /\ id # Seed /\ rows[id] # NoRow => dirs[id] # NoDir
    /\ \A t \in Busy(id) :
          /\ jobs[t].op = "insert" => /\ Busy(id) = {t}
                                      /\ rows[id] = NoRow /\ dirs[id] # NoDir
          /\ jobs[t].op \in {"unlist", "relist", "rmtree"} => rows[id] = NoRow

\* A request that is alone on its id, between two of its steps.
Alone(id) ==
    /\ \A t, u \in Busy(id) : t = u
    /\ Busy(id) = {} => Agree(id)
    /\ \A t \in Busy(id) :
          /\ jobs[t].op \in {"update", "save", "delete"} => Agree(id)
          /\ jobs[t].op = "save" => rows[id] # NoRow /\ jobs[t].read = rows[id].config
          /\ jobs[t].op = "write" =>
                rows[id] # NoRow /\ rows[id].config = Merge(jobs[t].read, jobs[t].put)
          /\ jobs[t].op = "insert" => id \notin edited

\* A directory without a row is about to get one, or to be removed, unless it leaked.
Held(id) ==
    dirs[id] # NoDir /\ rows[id] = NoRow =>
        \/ \E t \in Busy(id) : jobs[t].op \in {"insert", "unlist", "relist", "rmtree"}
        \/ trouble[id] \cap {"crash", "failed", "astray"} # {}

Consistent(id) ==
    /\ VersionsFit(id)
    /\ Held(id)
    /\ \A t \in Busy(id) : jobs[t].op = "insert" => id # Seed
    /\ "twice" \notin trouble[id] => TakenOnce(id)
    /\ trouble[id] = {} => Alone(id)

OnboardingInv == TypeOK /\ \A id \in Ids : Consistent(id)
=============================================================================
