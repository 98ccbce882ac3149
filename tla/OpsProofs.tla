----------------------------- MODULE OpsProofs -----------------------------
(***************************************************************************)
(* Proofs about the operations service.                                    *)
(*                                                                         *)
(* First blueprints: deploying, editing and deleting them, for any         *)
(* threads, ids, seeded versions, fields and requests.  OnboardingInv      *)
(* speaks of each id by itself: a step of a request on one id leaves what  *)
(* it says of the others alone (UntouchedStays), so one lemma per step     *)
(* looks at one id.                                                        *)
(*                                                                         *)
(* Then executions and the dashboard, for any threads, blueprints, token   *)
(* counts, baseline, seeded chart and days to keep.                        *)
(***************************************************************************)
EXTENDS Onboarding, Executions, SumTheorems, FiniteSetTheorems, TLAPS

-----------------------------------------------------------------------------
(* Data.                                                                   *)

\* A record with one field replaced in a sequence of them.
LEMMA ReplaceInSeq ==
  ASSUME NEW S, NEW s \in Seq(S), NEW i \in DOMAIN s, NEW x \in S
  PROVE  /\ [s EXCEPT ![i] = x] \in Seq(S)
         /\ Len([s EXCEPT ![i] = x]) = Len(s)
         /\ \A k \in DOMAIN s : [s EXCEPT ![i] = x][k] = IF k = i THEN x ELSE s[k]
  OBVIOUS

\* The replicas in use are counted in natural numbers.
LEMMA UsedByType ==
  ASSUME NEW versions \in Seq(Version)
  PROVE  UsedBy(versions) \in Nat
  <1> DEFINE S == {i \in DOMAIN versions : versions[i].traffic > 0}
             f == [i \in DOMAIN versions |-> versions[i].replicas]
  <1>1. IsFiniteSet(1..Len(versions))
    BY FS_Interval
  <1>2. S \subseteq 1..Len(versions)
    OBVIOUS
  <1>3. IsFiniteSet(S)
    BY <1>1, <1>2, FS_Subset
  <1>4. \A i \in DOMAIN versions : versions[i] \in Version
    OBVIOUS
  <1>5. \A i \in S : f[i] \in Nat
    BY <1>4 DEF Version
  <1>6. 0 \in Nat /\ \A a, b \in Nat : a + b \in Nat
    OBVIOUS
  <1> HIDE DEF S, f
  <1>7. SumFunctionOnSet(f, S) \in Nat
    BY <1>3, <1>5, <1>6, SumType
  <1> QED
    BY <1>7 DEF UsedBy, S, f

\* Reading, merging and assembling configurations.
LEMMA MergeType ==
  ASSUME NEW config \in Config, NEW put \in Puts
  PROVE  Merge(config, put) \in Config
  <1>1. PICK S \in SUBSET Fields : put \in [S -> Contents \cup {Empty}]
    BY OnboardingAssumption
  <1>2. \A f \in Fields : (IF f \in DOMAIN put THEN put[f] ELSE config[f]) \in Contents \cup {Empty}
    BY <1>1 DEF Config
  <1> QED
    BY <1>2 DEF Merge, Config

LEMMA AssembleType ==
  ASSUME NEW config \in Config
  PROVE  Assemble(config) \in Files /\ Assemble(config) # NoDir
  <1>1. Assemble(config) \in Files
    BY DEF Assemble, Files, Config
  <1> QED
    BY <1>1, OnboardingAssumption

LEMMA NewRowType == NewRow \in Row /\ NewRow # NoRow /\ Len(NewRow.versions) = 1
  <1> DEFINE v == [traffic |-> 100, status |-> "published", replicas |-> MinReplicas]
  <1>1. v \in Version
    BY OnboardingAssumption DEF Version
  <1> HIDE DEF v
  <1>2. <<v>> \in Seq(Version) /\ Len(<<v>>) = 1
    BY <1>1
  <1>3. NewRow = [versions |-> <<v>>, used |-> MinReplicas, config |-> [f \in Fields |-> Empty]]
    BY DEF NewRow, v
  <1>4. [f \in Fields |-> Empty] \in Config
    BY DEF Config
  <1>5. MinReplicas \in Int
    BY OnboardingAssumption
  <1>6. NewRow \in Row
    BY <1>2, <1>3, <1>4, <1>5 DEF Row
  <1> QED
    BY <1>2, <1>3, <1>6, OnboardingAssumption

\* The fields of a job.
LEMMA JobFields ==
  ASSUME NEW job \in Job
  PROVE  /\ job # Idle
         /\ job.id \in Ids
         /\ job.op \in {"insert", "update", "delete", "unlist", "rmtree", "relist", "save", "write"}
         /\ job.op = "update" => job.base \in Seq(Version) /\ job.versions \in Seq(Version)
         /\ job.op = "relist" => job.list \subseteq Ids
         /\ job.op \in {"save", "write"} => /\ job.read \in Config /\ job.put \in Puts
                                            /\ job.to \in Ids
                                            /\ [job EXCEPT !.op = "write"] \in Job
  BY OnboardingAssumption DEF Job

LEMMA RowFields ==
  ASSUME NEW row \in Row
  PROVE  /\ row # NoRow
         /\ row.versions \in Seq(Version) /\ row.config \in Config
         /\ \A versions \in Seq(Version), used \in Int :
               /\ [row EXCEPT !.versions = versions, !.used = used] \in Row
               /\ [row EXCEPT !.versions = versions, !.used = used].versions = versions
               /\ [row EXCEPT !.versions = versions, !.used = used].config = row.config
         /\ \A config \in Config :
               /\ [row EXCEPT !.config = config] \in Row
               /\ [row EXCEPT !.config = config].config = config
               /\ [row EXCEPT !.config = config].versions = row.versions
  BY OnboardingAssumption DEF Row

-----------------------------------------------------------------------------
(* Threads.                                                                *)

\* The requests on an id and the threads that run them, once thread t begins one, which
\* is over at once when job is Idle.
LEMMA BeginMoves ==
  ASSUME TypeOK, NEW t \in Threads, NEW id \in Ids,
         NEW job \in Job \cup {Idle}, job # Idle => job.id = id,
         NEW why \in SUBSET Troubles, Begin(t, id, job, why)
  PROVE  /\ jobs' \in [Threads -> Job \cup {Idle}]
         /\ started' \in 0..MaxRequests
         /\ trouble' \in [Ids -> SUBSET Troubles]
         /\ t \notin Busy(id) /\ Busy(id)' = IF job = Idle THEN Busy(id) ELSE Busy(id) \cup {t}
         /\ jobs'[t] = job /\ \A u \in Busy(id) : jobs'[u] = jobs[u]
         /\ trouble'[id] = trouble[id] \cup why \cup (IF Busy(id) = {} THEN {} ELSE {"overlap"})
         /\ \A k \in Ids \ {id} :
               /\ Busy(k)' = Busy(k) /\ \A u \in Busy(k) : jobs'[u] = jobs[u]
               /\ trouble'[k] = trouble[k]
  <1>1. /\ jobs \in [Threads -> Job \cup {Idle}] /\ started \in 0..MaxRequests
        /\ trouble \in [Ids -> SUBSET Troubles]
        /\ MaxRequests \in Nat
    BY OnboardingAssumption DEF TypeOK
  <1>2. /\ jobs[t] = Idle /\ started < MaxRequests /\ started' = started + 1
        /\ jobs' = [jobs EXCEPT ![t] = job]
    BY DEF Begin
  <1>3. /\ jobs' \in [Threads -> Job \cup {Idle}] /\ jobs'[t] = job
        /\ \A u \in Threads \ {t} : jobs'[u] = jobs[u]
    BY <1>1, <1>2
  <1>4. /\ t \notin Busy(id) /\ Busy(id)' = IF job = Idle THEN Busy(id) ELSE Busy(id) \cup {t}
        /\ \A u \in Busy(id) : jobs'[u] = jobs[u]
    BY <1>2, <1>3 DEF Busy
  <1>5. \A k \in Ids \ {id} : Busy(k)' = Busy(k) /\ \A u \in Busy(k) : jobs'[u] = jobs[u]
    BY <1>2, <1>3 DEF Busy
  <1> DEFINE more == trouble[id] \cup why \cup (IF Busy(id) = {} THEN {} ELSE {"overlap"})
  <1>6. more \subseteq Troubles
    BY <1>1 DEF Troubles
  <1>7. trouble' = [trouble EXCEPT ![id] = more]
    BY DEF Begin
  <1>8. started' \in 0..MaxRequests
    BY <1>1, <1>2
  <1>9. /\ trouble' \in [Ids -> SUBSET Troubles]
        /\ trouble'[id] = more /\ \A k \in Ids \ {id} : trouble'[k] = trouble[k]
    <2> HIDE DEF more
    <2> QED
      BY <1>1, <1>6, <1>7
  <1> QED
    BY <1>3, <1>4, <1>5, <1>8, <1>9

\* The same when thread t goes on with its request.
LEMMA ContinueMoves ==
  ASSUME TypeOK, NEW t \in Threads, jobs[t] # Idle, NEW id, id = jobs[t].id,
         NEW job \in Job \cup {Idle}, job # Idle => job.id = id, Continue(t, job)
  PROVE  /\ jobs[t] \in Job /\ id \in Ids /\ t \in Busy(id)
         /\ jobs' \in [Threads -> Job \cup {Idle}]
         /\ started' = started /\ trouble' = trouble
         /\ Busy(id)' = IF job = Idle THEN Busy(id) \ {t} ELSE Busy(id)
         /\ jobs'[t] = job /\ \A u \in Busy(id) \ {t} : jobs'[u] = jobs[u]
         /\ \A k \in Ids \ {id} : Busy(k)' = Busy(k) /\ \A u \in Busy(k) : jobs'[u] = jobs[u]
  <1>1. jobs \in [Threads -> Job \cup {Idle}]
    BY DEF TypeOK
  <1>2. jobs[t] \in Job
    BY <1>1
  <1>3. id \in Ids
    BY <1>2, JobFields
  <1>4. jobs' = [jobs EXCEPT ![t] = job] /\ started' = started /\ trouble' = trouble
    BY DEF Continue
  <1>5. /\ jobs' \in [Threads -> Job \cup {Idle}] /\ jobs'[t] = job
        /\ \A u \in Threads \ {t} : jobs'[u] = jobs[u]
    BY <1>1, <1>4
  <1>6. t \in Busy(id)
    BY DEF Busy
  <1>7. Busy(id)' = IF job = Idle THEN Busy(id) \ {t} ELSE Busy(id)
    BY <1>5 DEF Busy
  <1>8. \A u \in Busy(id) \ {t} : jobs'[u] = jobs[u]
    BY <1>5 DEF Busy
  <1>9. \A k \in Ids \ {id} : Busy(k)' = Busy(k) /\ \A u \in Busy(k) : jobs'[u] = jobs[u]
    BY <1>5 DEF Busy
  <1> QED
    BY <1>2, <1>3, <1>4, <1>5, <1>6, <1>7, <1>8, <1>9

\* The same when thread t ends its request and leaves a trace on some ids.
LEMMA EndMoves ==
  ASSUME TypeOK, NEW t \in Threads, jobs[t] # Idle, NEW id, id = jobs[t].id,
         NEW ids, NEW why \in Troubles, EndWith(t, ids, why)
  PROVE  /\ jobs[t] \in Job /\ id \in Ids /\ t \in Busy(id)
         /\ jobs' \in [Threads -> Job \cup {Idle}]
         /\ started' = started
         /\ trouble' \in [Ids -> SUBSET Troubles]
         /\ \A k \in Ids : trouble'[k] = trouble[k] \cup (IF k \in ids THEN {why} ELSE {})
         /\ Busy(id)' = Busy(id) \ {t} /\ \A u \in Busy(id) \ {t} : jobs'[u] = jobs[u]
         /\ \A k \in Ids \ {id} : Busy(k)' = Busy(k) /\ \A u \in Busy(k) : jobs'[u] = jobs[u]
  <1>1. jobs \in [Threads -> Job \cup {Idle}] /\ trouble \in [Ids -> SUBSET Troubles]
    BY DEF TypeOK
  <1>2. jobs[t] \in Job
    BY <1>1
  <1>3. id \in Ids
    BY <1>2, JobFields
  <1>4. /\ jobs' = [jobs EXCEPT ![t] = Idle] /\ started' = started
        /\ trouble' = [k \in Ids |-> trouble[k] \cup (IF k \in ids THEN {why} ELSE {})]
    BY DEF EndWith
  <1>5. /\ jobs' \in [Threads -> Job \cup {Idle}] /\ jobs'[t] = Idle
        /\ \A u \in Threads \ {t} : jobs'[u] = jobs[u]
    BY <1>1, <1>4
  <1>6. t \in Busy(id)
    BY DEF Busy
  <1>7. Busy(id)' = Busy(id) \ {t} /\ \A u \in Busy(id) \ {t} : jobs'[u] = jobs[u]
    BY <1>5 DEF Busy
  <1>8. \A k \in Ids \ {id} : Busy(k)' = Busy(k) /\ \A u \in Busy(k) : jobs'[u] = jobs[u]
    BY <1>5 DEF Busy
  <1>9. \A k \in Ids : trouble[k] \cup (IF k \in ids THEN {why} ELSE {}) \in SUBSET Troubles
    BY <1>1
  <1>10. trouble' \in [Ids -> SUBSET Troubles]
    BY <1>4, <1>9
  <1>11. \A k \in Ids : trouble'[k] = trouble[k] \cup (IF k \in ids THEN {why} ELSE {})
    BY <1>4
  <1> QED
    BY <1>2, <1>3, <1>4, <1>5, <1>6, <1>7, <1>8, <1>10, <1>11

\* A step that touches nothing of an id leaves what the invariant says of it.
LEMMA UntouchedStays ==
  ASSUME NEW id, Consistent(id),
         rows'[id] = rows[id], dirs'[id] = dirs[id], trouble'[id] = trouble[id],
         id \in deployed' <=> id \in deployed, id \in edited' <=> id \in edited,
         Busy(id)' = Busy(id), \A u \in Busy(id) : jobs'[u] = jobs[u]
  PROVE  Consistent(id)'
  <1>1. VersionsFit(id)'
    BY DEF VersionsFit, Consistent, VersionCount
  <1>2. TakenOnce(id) => TakenOnce(id)'
    BY DEF TakenOnce
  <1>3. Agree(id) <=> Agree(id)'
    BY DEF Agree
  <1>4. Alone(id) => Alone(id)'
    BY <1>3 DEF Alone
  <1>5. Held(id) => Held(id)'
    BY DEF Held
  <1> QED
    BY <1>1, <1>2, <1>4, <1>5 DEF Consistent

\* A request that fails or goes astray leaves a directory where there was one, and marks
\* the ids that it leaves in doubt: for those there is little left to keep.
LEMMA SpoiledStays ==
  ASSUME NEW id, Consistent(id),
         rows'[id] = rows[id], dirs'[id] # NoDir \/ dirs'[id] = dirs[id],
         NEW why \in {"failed", "astray"}, trouble'[id] = trouble[id] \cup {why},
         id \in deployed' <=> id \in deployed,
         Busy(id)' \subseteq Busy(id), \A u \in Busy(id)' : jobs'[u] = jobs[u]
  PROVE  Consistent(id)'
  <1>1. VersionsFit(id)'
    BY DEF VersionsFit, Consistent, VersionCount
  <1>2. TakenOnce(id) => TakenOnce(id)'
    <2> SUFFICES ASSUME TakenOnce(id) PROVE TakenOnce(id)'
      OBVIOUS
    <2>1. id # Seed /\ id \notin deployed' => rows'[id] = NoRow /\ Busy(id)' = {}
      BY DEF TakenOnce
    <2>2. id # Seed /\ rows'[id] # NoRow => dirs'[id] # NoDir
      BY DEF TakenOnce
    <2>3. ASSUME NEW u \in Busy(id)'
          PROVE  /\ jobs'[u].op = "insert" => /\ Busy(id)' = {u}
                                              /\ rows'[id] = NoRow /\ dirs'[id] # NoDir
                 /\ jobs'[u].op \in {"unlist", "relist", "rmtree"} => rows'[id] = NoRow
      BY DEF TakenOnce
    <2> QED
      BY <2>1, <2>2, <2>3 DEF TakenOnce
  <1>3. Held(id)' /\ trouble'[id] # {}
    BY DEF Held
  <1>4. "twice" \notin trouble'[id] => "twice" \notin trouble[id]
    OBVIOUS
  <1>5. \A u \in Busy(id)' : jobs'[u].op = "insert" => id # Seed
    BY DEF Consistent
  <1> QED
    BY <1>1, <1>2, <1>3, <1>4, <1>5 DEF Consistent

-----------------------------------------------------------------------------
(* The steps, one lemma each.                                              *)

LEMMA OnboardingInitInv == Init => OnboardingInv
  <1> SUFFICES ASSUME Init PROVE OnboardingInv
    OBVIOUS
  <1> DEFINE row == [versions |-> SeedVersions, used |-> SeedUsed,
                     config |-> [f \in Fields |-> Empty]]
  <1>1. row \in Row /\ Len(row.versions) = Len(SeedVersions)
    BY OnboardingAssumption DEF Row, Config
  <1>2. rows = [id \in Ids |-> IF id = Seed THEN row ELSE NoRow]
    BY DEF Init
  <1> HIDE DEF row
  <1>3. /\ now = 1 /\ dirs = [id \in Ids |-> NoDir] /\ listed = {}
        /\ jobs = [t \in Threads |-> Idle] /\ started = 0
        /\ deployed = {} /\ edited = {} /\ trouble = [id \in Ids |-> {}]
    BY DEF Init
  <1>4. rows \in [Ids -> Row \cup {NoRow}] /\ now \in 1..(MaxSecond + 1) /\ started \in 0..MaxRequests
    BY <1>1, <1>2, <1>3, OnboardingAssumption
  <1>5. TypeOK
    BY <1>3, <1>4 DEF TypeOK
  <1>6. \A id \in Ids : Busy(id) = {}
    BY <1>3 DEF Busy
  <1>7. ASSUME NEW id \in Ids PROVE Consistent(id)
    <2>1. rows[id] = IF id = Seed THEN row ELSE NoRow
      BY <1>2
    <2>2. VersionsFit(id)
      BY <1>1, <1>6, <2>1 DEF VersionsFit, VersionCount
    <2>3. TakenOnce(id)
      BY <1>6, <2>1 DEF TakenOnce
    <2>4. Alone(id) /\ Held(id)
      BY <1>3, <1>6, <2>1 DEF Alone, Agree, Held
    <2> QED
      BY <1>6, <2>2, <2>3, <2>4 DEF Consistent
  <1> QED
    BY <1>5, <1>7 DEF OnboardingInv

\* A deployment begins: an id that is taken for the first time has neither a row nor a
\* request.
LEMMA RegisterKeeps ==
  ASSUME OnboardingInv, NEW t \in Threads, NEW soul \in Contents, RegisterAgent(t, soul)
  PROVE  OnboardingInv'
  <1>1. now \in Ids /\ now # Seed /\ now \in 1..(MaxSecond + 1)
    BY OnboardingAssumption DEF OnboardingInv, TypeOK, RegisterAgent, Taken, Ids, Seed
  <1>2. PICK id \in Ids : id = now /\ id # Seed
    BY <1>1
  <1> DEFINE job == [op |-> "insert", id |-> id]
             why == {} \cup (IF id \in deployed THEN {"twice"} ELSE {})
             files == [f \in Fields |-> IF f = "soul" THEN soul
                                        ELSE IF dirs[id] = NoDir THEN NoFile ELSE dirs[id][f]]
  <1>3. job \in Job /\ job.id = id /\ job.op = "insert" /\ job # Idle
    BY OnboardingAssumption DEF Job
  <1>4. why \in SUBSET Troubles
    BY DEF Troubles
  <1>5. Begin(t, id, job, why)
    BY <1>2 DEF RegisterAgent, Taken
  <1>6. /\ dirs' = [dirs EXCEPT ![id] = files] /\ deployed' = deployed \cup {id}
        /\ edited' = edited \ {id} /\ now' = now /\ rows' = rows
        /\ listed' \in {listed, listed \cup {id}}
    BY <1>2 DEF RegisterAgent, Taken
  <1>7. /\ rows \in [Ids -> Row \cup {NoRow}] /\ dirs \in [Ids -> Files \cup {NoDir}]
        /\ listed \subseteq Ids /\ deployed \subseteq Ids /\ edited \subseteq Ids
        /\ now \in 1..(MaxSecond + 1) /\ TypeOK
    BY DEF OnboardingInv, TypeOK
  <1>8. files \in Files /\ files # NoDir
    <2>1. dirs[id] # NoDir => dirs[id] \in Files
      BY <1>7
    <2>2. files \in Files
      BY <2>1 DEF Files
    <2> QED
      BY <2>2, OnboardingAssumption
  <1> HIDE DEF job, why, files
  <1>9. /\ jobs' \in [Threads -> Job \cup {Idle}]
        /\ started' \in 0..MaxRequests
        /\ trouble' \in [Ids -> SUBSET Troubles]
    BY <1>3, <1>4, <1>5, <1>7, BeginMoves
  <1>10. /\ t \notin Busy(id) /\ Busy(id)' = Busy(id) \cup {t}
         /\ jobs'[t] = job /\ \A u \in Busy(id) : jobs'[u] = jobs[u]
         /\ trouble'[id] = trouble[id] \cup why \cup (IF Busy(id) = {} THEN {} ELSE {"overlap"})
    BY <1>3, <1>4, <1>5, <1>7, BeginMoves
  <1>11. \A k \in Ids \ {id} :
            /\ Busy(k)' = Busy(k) /\ \A u \in Busy(k) : jobs'[u] = jobs[u]
            /\ trouble'[k] = trouble[k]
    BY <1>3, <1>4, <1>5, <1>7, BeginMoves
  <1>12. dirs' \in [Ids -> Files \cup {NoDir}] /\ dirs'[id] # NoDir
         /\ \A k \in Ids \ {id} : dirs'[k] = dirs[k]
    BY <1>6, <1>7, <1>8
  <1>13. TypeOK'
    BY <1>6, <1>7, <1>9, <1>12 DEF TypeOK
  <1>14. Consistent(id)
    BY DEF OnboardingInv
  <1>15. VersionsFit(id)'
    BY <1>3, <1>6, <1>10, <1>14 DEF VersionsFit, VersionCount, Consistent
  <1>16. ASSUME "twice" \notin trouble'[id]
         PROVE  Busy(id) = {} /\ Busy(id)' = {t} /\ rows[id] = NoRow
    <2>1. "twice" \notin trouble[id] /\ id \notin deployed
      BY <1>10, <1>16 DEF why
    <2>2. Busy(id) = {} /\ rows[id] = NoRow
      BY <2>1, <1>2, <1>14 DEF Consistent, TakenOnce
    <2> QED
      BY <2>2, <1>10
  <1>17. "twice" \notin trouble'[id] => TakenOnce(id)'
    BY <1>2, <1>3, <1>6, <1>10, <1>12, <1>16 DEF TakenOnce
  <1>18. trouble'[id] = {} => Alone(id)'
    BY <1>3, <1>6, <1>10, <1>16 DEF Alone
  <1>19. Held(id)'
    BY <1>3, <1>10 DEF Held
  <1>20. Consistent(id)'
    BY <1>2, <1>15, <1>17, <1>18, <1>10, <1>14, <1>19 DEF Consistent
  <1>21. ASSUME NEW k \in Ids \ {id} PROVE Consistent(k)'
    BY <1>6, <1>11, <1>12, UntouchedStays DEF OnboardingInv
  <1> QED
    BY <1>13, <1>20, <1>21 DEF OnboardingInv

\* A deployment fails at once, with a directory that no row will have.
LEMMA RegisterFailsKeeps ==
  ASSUME OnboardingInv, NEW t \in Threads, RegisterFails(t)
  PROVE  OnboardingInv'
  <1>1. now \in Ids /\ now # Seed /\ now \in 1..(MaxSecond + 1)
    BY OnboardingAssumption DEF OnboardingInv, TypeOK, RegisterFails, Taken, Ids, Seed
  <1>2. PICK id \in Ids : id = now /\ id # Seed
    BY <1>1
  <1> DEFINE why == {"failed"} \cup (IF id \in deployed THEN {"twice"} ELSE {})
             files == IF dirs[id] = NoDir THEN [f \in Fields |-> NoFile] ELSE dirs[id]
  <1>3. why \in SUBSET Troubles
    BY DEF Troubles
  <1>4. Begin(t, id, Idle, why)
    BY <1>2 DEF RegisterFails, Taken
  <1>5. /\ dirs' = [dirs EXCEPT ![id] = files] /\ deployed' = deployed \cup {id}
        /\ edited' = edited /\ now' = now /\ rows' = rows
        /\ listed' \in {listed, listed \cup {id}}
    BY <1>2 DEF RegisterFails, Taken
  <1>6. /\ rows \in [Ids -> Row \cup {NoRow}] /\ dirs \in [Ids -> Files \cup {NoDir}]
        /\ listed \subseteq Ids /\ deployed \subseteq Ids /\ TypeOK
    BY DEF OnboardingInv, TypeOK
  <1>7. files \in Files /\ files # NoDir
    <2>1. [f \in Fields |-> NoFile] \in Files
      BY DEF Files
    <2>2. dirs[id] # NoDir => dirs[id] \in Files
      BY <1>6
    <2> QED
      BY <2>1, <2>2, OnboardingAssumption
  <1> HIDE DEF why, files
  <1>8. /\ jobs' \in [Threads -> Job \cup {Idle}]
        /\ started' \in 0..MaxRequests
        /\ trouble' \in [Ids -> SUBSET Troubles]
    BY <1>3, <1>4, <1>6, BeginMoves
  <1>9. /\ Busy(id)' = Busy(id) /\ \A u \in Busy(id) : jobs'[u] = jobs[u]
        /\ trouble'[id] = trouble[id] \cup why \cup (IF Busy(id) = {} THEN {} ELSE {"overlap"})
    BY <1>3, <1>4, <1>6, BeginMoves
  <1>10. \A k \in Ids \ {id} :
            /\ Busy(k)' = Busy(k) /\ \A u \in Busy(k) : jobs'[u] = jobs[u]
            /\ trouble'[k] = trouble[k]
    BY <1>3, <1>4, <1>6, BeginMoves
  <1>11. dirs' \in [Ids -> Files \cup {NoDir}] /\ dirs'[id] # NoDir
         /\ \A k \in Ids \ {id} : dirs'[k] = dirs[k]
    BY <1>5, <1>6, <1>7
  <1>12. TypeOK'
    BY <1>5, <1>6, <1>8, <1>11 DEF TypeOK
  <1>13. Consistent(id)
    BY DEF OnboardingInv
  <1>14. VersionsFit(id)'
    BY <1>5, <1>9, <1>13 DEF VersionsFit, VersionCount, Consistent
  <1>15. "twice" \notin trouble'[id] => TakenOnce(id)'
    <2> SUFFICES ASSUME "twice" \notin trouble'[id] PROVE TakenOnce(id)'
      OBVIOUS
    <2>1. "twice" \notin trouble[id] /\ id \notin deployed
      BY <1>9 DEF why
    <2>2. Busy(id) = {} /\ rows[id] = NoRow
      BY <2>1, <1>2, <1>13 DEF Consistent, TakenOnce
    <2> QED
      BY <2>2, <1>5, <1>9 DEF TakenOnce
  <1>16. "failed" \in trouble'[id]
    BY <1>9 DEF why
  <1>17. Held(id)' /\ trouble'[id] # {}
    BY <1>16 DEF Held
  <1>18. Consistent(id)'
    BY <1>2, <1>14, <1>15, <1>17, <1>9, <1>13 DEF Consistent
  <1>19. ASSUME NEW k \in Ids \ {id} PROVE Consistent(k)'
    BY <1>5, <1>10, <1>11, UntouchedStays DEF OnboardingInv
  <1> QED
    BY <1>12, <1>18, <1>19 DEF OnboardingInv

\* A request that finds the row begins: the deployment of the id is over.
LEMMA FoundRowKeeps ==
  ASSUME OnboardingInv, NEW t \in Threads, NEW id \in Ids, rows[id] # NoRow,
         NEW job \in Job, job.id = id, job.op \in {"update", "save", "delete"},
         job.op = "update" =>
            /\ Len(job.base) = VersionCount(id) /\ Len(job.versions) = VersionCount(id)
            /\ \A i \in 1..VersionCount(id) :
                  job.base[i].status = "deprecated" => job.versions[i].status = "deprecated",
         job.op = "save" => job.read = rows[id].config,
         Begin(t, id, job, {}),
         UNCHANGED <<now, rows, dirs, listed, deployed, edited>>
  PROVE  OnboardingInv'
  <1>1. TypeOK /\ Consistent(id) /\ \A k \in Ids : Consistent(k)
    BY DEF OnboardingInv
  <1>2. {} \in SUBSET Troubles /\ job # Idle
    BY JobFields
  <1>3. /\ jobs' \in [Threads -> Job \cup {Idle}]
        /\ started' \in 0..MaxRequests
        /\ trouble' \in [Ids -> SUBSET Troubles]
    BY <1>1, <1>2, BeginMoves
  <1>4. /\ t \notin Busy(id) /\ Busy(id)' = Busy(id) \cup {t}
        /\ jobs'[t] = job /\ \A u \in Busy(id) : jobs'[u] = jobs[u]
        /\ trouble'[id] = trouble[id] \cup {} \cup (IF Busy(id) = {} THEN {} ELSE {"overlap"})
    BY <1>1, <1>2, BeginMoves
  <1>5. \A k \in Ids \ {id} :
           /\ Busy(k)' = Busy(k) /\ \A u \in Busy(k) : jobs'[u] = jobs[u]
           /\ trouble'[k] = trouble[k]
    BY <1>1, <1>2, BeginMoves
  <1>6. TypeOK'
    BY <1>1, <1>3 DEF TypeOK
  <1>7. VersionsFit(id)'
    BY <1>1, <1>4 DEF VersionsFit, VersionCount, Consistent
  <1>8. "twice" \notin trouble'[id] => TakenOnce(id)'
    BY <1>1, <1>4 DEF TakenOnce, Consistent
  <1>9. trouble'[id] = {} => Alone(id)'
    <2> SUFFICES ASSUME trouble'[id] = {} PROVE Alone(id)'
      OBVIOUS
    <2>1. Busy(id) = {} /\ trouble[id] = {}
      BY <1>4
    <2>2. Busy(id)' = {t} /\ jobs'[t] = job
      BY <1>4, <2>1
    <2>3. Agree(id)'
      BY <1>1, <2>1 DEF Agree, Consistent, Alone
    <2> QED
      BY <2>2, <2>3 DEF Alone
  <1>10. \A u \in Busy(id)' : jobs'[u].op = "insert" => id # Seed
    BY <1>1, <1>4 DEF Consistent
  <1>11. Held(id)'
    BY DEF Held
  <1>12. Consistent(id)'
    BY <1>7, <1>8, <1>9, <1>10, <1>11 DEF Consistent
  <1>13. ASSUME NEW k \in Ids \ {id} PROVE Consistent(k)'
    BY <1>1, <1>5, UntouchedStays
  <1> QED
    BY <1>6, <1>12, <1>13 DEF OnboardingInv

\* What thread t does in the middle or at the end of a request on id leaves the other
\* ids alone, so it keeps the invariant when it does so for id.
LEMMA StepKeeps ==
  ASSUME OnboardingInv, NEW t \in Threads, jobs[t] # Idle, NEW id, id = jobs[t].id,
         NEW job \in Job \cup {Idle}, job # Idle => job.id = id, Continue(t, job),
         rows' \in [Ids -> Row \cup {NoRow}], \A k \in Ids \ {id} : rows'[k] = rows[k],
         dirs' \in [Ids -> Files \cup {NoDir}], \A k \in Ids \ {id} : dirs'[k] = dirs[k],
         edited' \subseteq Ids, \A k \in Ids \ {id} : k \in edited' <=> k \in edited,
         listed' \subseteq Ids, UNCHANGED <<now, deployed>>,
         Consistent(id)'
  PROVE  OnboardingInv'
  <1>1. TypeOK /\ \A k \in Ids : Consistent(k)
    BY DEF OnboardingInv
  <1>2. /\ jobs' \in [Threads -> Job \cup {Idle}]
        /\ started' = started /\ trouble' = trouble
        /\ \A k \in Ids \ {id} : Busy(k)' = Busy(k) /\ \A u \in Busy(k) : jobs'[u] = jobs[u]
    BY <1>1, ContinueMoves
  <1>3. TypeOK'
    BY <1>1, <1>2 DEF TypeOK
  <1>4. ASSUME NEW k \in Ids \ {id} PROVE Consistent(k)'
    BY <1>1, <1>2, UntouchedStays
  <1> QED
    BY <1>3, <1>4 DEF OnboardingInv

\* The row of a deployment is new, or the id has been taken twice.
LEMMA InsertRowKeeps ==
  ASSUME OnboardingInv, NEW t \in Threads, InsertRow(t)
  PROVE  OnboardingInv'
  <1>0. PICK id : id = jobs[t].id
    OBVIOUS
  <1>1. jobs[t] # Idle /\ jobs[t].op = "insert" /\ Continue(t, Idle)
    BY DEF InsertRow
  <1>2. TypeOK
    BY DEF OnboardingInv
  <1>3. /\ id \in Ids /\ t \in Busy(id) /\ trouble' = trouble
        /\ Busy(id)' = Busy(id) \ {t} /\ \A u \in Busy(id) \ {t} : jobs'[u] = jobs[u]
    BY <1>0, <1>1, <1>2, ContinueMoves
  <1>4. Consistent(id) /\ id # Seed
    BY <1>1, <1>3 DEF OnboardingInv, Consistent
  <1>5. /\ rows' = IF rows[id] = NoRow THEN [rows EXCEPT ![id] = NewRow] ELSE rows
        /\ UNCHANGED <<now, dirs, listed, deployed, edited>>
    BY <1>0 DEF InsertRow
  <1>6. /\ rows \in [Ids -> Row \cup {NoRow}] /\ dirs \in [Ids -> Files \cup {NoDir}]
        /\ listed \subseteq Ids /\ edited \subseteq Ids
    BY <1>2 DEF TypeOK
  <1>7. /\ rows' \in [Ids -> Row \cup {NoRow}] /\ \A k \in Ids \ {id} : rows'[k] = rows[k]
        /\ rows'[id] = IF rows[id] = NoRow THEN NewRow ELSE rows[id]
    BY <1>3, <1>5, <1>6, NewRowType
  <1>8. VersionsFit(id)'
    BY <1>3, <1>4, <1>7, NewRowType DEF VersionsFit, VersionCount, Consistent
  <1>9. ASSUME "twice" \notin trouble[id]
        PROVE  Busy(id)' = {} /\ dirs[id] # NoDir /\ rows'[id] = NewRow /\ id \in deployed
    <2>1. Busy(id) = {t} /\ rows[id] = NoRow /\ dirs[id] # NoDir /\ id \in deployed
      BY <1>1, <1>3, <1>4, <1>9 DEF Consistent, TakenOnce
    <2> QED
      BY <2>1, <1>3, <1>7
  <1>10. "twice" \notin trouble'[id] => TakenOnce(id)'
    BY <1>3, <1>5, <1>9 DEF TakenOnce
  <1>11. trouble'[id] = {} => Alone(id)'
    <2> SUFFICES ASSUME trouble[id] = {} PROVE Alone(id)'
      BY <1>3
    <2>1. Busy(id)' = {} /\ dirs[id] # NoDir /\ rows'[id] = NewRow
      BY <1>9
    <2>2. id \notin edited
      BY <1>1, <1>3, <1>4 DEF Consistent, Alone
    <2> QED
      BY <2>1, <2>2, <1>5, NewRowType DEF Alone, Agree
  <1>12. Consistent(id)'
    <2>1. Held(id)'
      BY <1>7, NewRowType DEF Held
    <2> QED
      BY <1>3, <1>4, <1>8, <1>10, <1>11, <2>1 DEF Consistent
  <1>13. listed' \subseteq Ids /\ edited' \subseteq Ids /\ dirs' \in [Ids -> Files \cup {NoDir}]
    BY <1>5, <1>6
  <1> QED
    BY <1>0, <1>1, <1>5, <1>7, <1>12, <1>13, StepKeeps

\* The UPDATE writes as many versions as there were, over a row that is still there.
LEMMA UpdateVersionsKeeps ==
  ASSUME OnboardingInv, NEW t \in Threads, UpdateVersions(t)
  PROVE  OnboardingInv'
  <1>0. PICK id : id = jobs[t].id
    OBVIOUS
  <1> DEFINE versions == jobs[t].versions
             used == UsedBy(versions)
  <1>1. jobs[t] # Idle /\ jobs[t].op = "update" /\ Continue(t, Idle)
    BY DEF UpdateVersions
  <1>2. TypeOK
    BY DEF OnboardingInv
  <1>3. /\ jobs[t] \in Job /\ id \in Ids /\ t \in Busy(id) /\ trouble' = trouble
        /\ Busy(id)' = Busy(id) \ {t} /\ \A u \in Busy(id) \ {t} : jobs'[u] = jobs[u]
    BY <1>0, <1>1, <1>2, ContinueMoves
  <1>4. versions \in Seq(Version)
    BY <1>1, <1>3, JobFields
  <1>5. used \in Int
    BY <1>4, UsedByType
  <1>6. Consistent(id)
    BY <1>3 DEF OnboardingInv
  <1>7. Len(versions) = VersionCount(id)
    BY <1>1, <1>3, <1>6 DEF Consistent, VersionsFit
  <1>8. /\ rows' = IF rows[id] = NoRow THEN rows
                   ELSE [rows EXCEPT ![id] = [@ EXCEPT !.versions = versions, !.used = used]]
        /\ UNCHANGED <<now, dirs, listed, deployed, edited>>
    BY <1>0 DEF UpdateVersions
  <1> HIDE DEF versions, used
  <1>9. /\ rows \in [Ids -> Row \cup {NoRow}] /\ dirs \in [Ids -> Files \cup {NoDir}]
        /\ listed \subseteq Ids /\ edited \subseteq Ids
    BY <1>2 DEF TypeOK
  <1> DEFINE row == [rows[id] EXCEPT !.versions = versions, !.used = used]
  <1>10. rows[id] # NoRow =>
            row \in Row /\ row # NoRow /\ row.versions = versions /\ row.config = rows[id].config
    <2> SUFFICES ASSUME rows[id] # NoRow
                 PROVE  row \in Row /\ row # NoRow /\ row.versions = versions
                        /\ row.config = rows[id].config
      OBVIOUS
    <2>1. rows[id] \in Row
      BY <1>3, <1>9
    <2>2. \A vs \in Seq(Version), n \in Int :
             /\ [rows[id] EXCEPT !.versions = vs, !.used = n] \in Row
             /\ [rows[id] EXCEPT !.versions = vs, !.used = n].versions = vs
             /\ [rows[id] EXCEPT !.versions = vs, !.used = n].config = rows[id].config
      BY <2>1, RowFields
    <2>3. row \in Row /\ row.versions = versions /\ row.config = rows[id].config
      BY <2>2, <1>4, <1>5
    <2> QED
      BY <2>3, RowFields
  <1>11. rows' = IF rows[id] = NoRow THEN rows ELSE [rows EXCEPT ![id] = row]
    BY <1>8
  <1> HIDE DEF row
  <1>12. /\ rows' \in [Ids -> Row \cup {NoRow}] /\ \A k \in Ids \ {id} : rows'[k] = rows[k]
         /\ rows'[id] = IF rows[id] = NoRow THEN NoRow ELSE row
    BY <1>3, <1>9, <1>10, <1>11
  <1>13. VersionsFit(id)'
    <2>1. rows'[id] # NoRow => Len(rows'[id].versions) = VersionCount(id)
      BY <1>7, <1>10, <1>12
    <2>2. VersionsFit(id)
      BY <1>6 DEF Consistent
    <2> QED
      BY <1>3, <2>1, <2>2 DEF VersionsFit, VersionCount
  <1>14. rows'[id] = NoRow <=> rows[id] = NoRow
    BY <1>10, <1>12
  <1>15. TakenOnce(id) => TakenOnce(id)'
    BY <1>1, <1>3, <1>8, <1>14 DEF TakenOnce
  <1>16. Alone(id) => Alone(id)'
    <2> SUFFICES ASSUME Alone(id) PROVE Alone(id)'
      OBVIOUS
    <2>1. Busy(id) = {t} /\ Agree(id)
      BY <1>1, <1>3 DEF Alone
    <2>2. Busy(id)' = {}
      BY <2>1, <1>3
    <2>3. Agree(id)'
      BY <2>1, <1>8, <1>10, <1>12, <1>14 DEF Agree
    <2> QED
      BY <2>2, <2>3 DEF Alone
  <1>17. Consistent(id)'
    <2>1. Held(id)'
      BY <1>1, <1>3, <1>6, <1>8, <1>14 DEF Held, Consistent
    <2> QED
      BY <1>3, <1>6, <1>13, <1>15, <1>16, <2>1 DEF Consistent
  <1>18. listed' \subseteq Ids /\ edited' \subseteq Ids /\ dirs' \in [Ids -> Files \cup {NoDir}]
    BY <1>8, <1>9
  <1> QED
    BY <1>0, <1>1, <1>8, <1>12, <1>17, <1>18, StepKeeps

\* save_blueprint_config merges the request into the row; alone, into what was read.
LEMMA SaveConfigKeeps ==
  ASSUME OnboardingInv, NEW t \in Threads, SaveConfig(t)
  PROVE  OnboardingInv'
  <1>0. PICK id : id = jobs[t].id
    OBVIOUS
  <1> DEFINE put == jobs[t].put
             job == [jobs[t] EXCEPT !.op = "write"]
             config == Merge(rows[id].config, put)
  <1>1. jobs[t] # Idle /\ jobs[t].op = "save" /\ Continue(t, job)
    BY DEF SaveConfig
  <1>2. TypeOK
    BY DEF OnboardingInv
  <1>3. jobs[t] \in Job
    BY <1>1, <1>2 DEF TypeOK
  <1>4. put \in Puts /\ job \in Job
    BY <1>1, <1>3, JobFields
  <1>5. job.id = id /\ job.op = "write" /\ job.read = jobs[t].read /\ job.put = put
    BY <1>0, <1>1, <1>3 DEF Job
  <1>6. job # Idle
    BY <1>4, JobFields
  <1>7. /\ id \in Ids /\ t \in Busy(id) /\ trouble' = trouble
        /\ Busy(id)' = Busy(id) /\ jobs'[t] = job /\ \A u \in Busy(id) \ {t} : jobs'[u] = jobs[u]
    <2> HIDE DEF job
    <2> QED
      BY <1>0, <1>1, <1>2, <1>4, <1>5, <1>6, ContinueMoves
  <1>8. /\ rows' = IF rows[id] = NoRow THEN rows
                   ELSE [rows EXCEPT ![id] = [@ EXCEPT !.config = config]]
        /\ UNCHANGED <<now, dirs, listed, deployed, edited>>
    BY <1>0 DEF SaveConfig
  <1>9. /\ rows \in [Ids -> Row \cup {NoRow}] /\ dirs \in [Ids -> Files \cup {NoDir}]
        /\ listed \subseteq Ids /\ edited \subseteq Ids
    BY <1>2 DEF TypeOK
  <1> DEFINE row == [rows[id] EXCEPT !.config = config]
  <1>10. rows[id] # NoRow =>
            row \in Row /\ row # NoRow /\ row.versions = rows[id].versions /\ row.config = config
    <2> SUFFICES ASSUME rows[id] # NoRow
                 PROVE  row \in Row /\ row # NoRow /\ row.versions = rows[id].versions
                        /\ row.config = config
      OBVIOUS
    <2>1. rows[id] \in Row
      BY <1>7, <1>9
    <2>2. rows[id].config \in Config
      BY <2>1, RowFields
    <2>3. config \in Config
      BY <2>2, <1>4, MergeType
    <2> HIDE DEF config
    <2>4. row \in Row /\ row.versions = rows[id].versions /\ row.config = config
      BY <2>1, <2>3, RowFields
    <2> QED
      BY <2>4, RowFields
  <1>11. rows' = IF rows[id] = NoRow THEN rows ELSE [rows EXCEPT ![id] = row]
    BY <1>8
  <1>12. Consistent(id)
    BY <1>7 DEF OnboardingInv
  <1>13. Alone(id) => rows[id] # NoRow /\ config = Merge(job.read, job.put)
    BY <1>1, <1>5, <1>7 DEF Alone
  <1> HIDE DEF row, config, put, job
  <1>14. /\ rows' \in [Ids -> Row \cup {NoRow}] /\ \A k \in Ids \ {id} : rows'[k] = rows[k]
         /\ rows'[id] = IF rows[id] = NoRow THEN NoRow ELSE row
    BY <1>7, <1>9, <1>10, <1>11
  <1>15. rows'[id] = NoRow <=> rows[id] = NoRow
    BY <1>10, <1>14
  <1>16. VersionsFit(id)'
    BY <1>5, <1>7, <1>10, <1>12, <1>14 DEF VersionsFit, VersionCount, Consistent
  <1>17. TakenOnce(id) => TakenOnce(id)'
    BY <1>1, <1>5, <1>7, <1>8, <1>15 DEF TakenOnce
  <1>18. Alone(id) => Alone(id)'
    <2> SUFFICES ASSUME Alone(id) PROVE Alone(id)'
      OBVIOUS
    <2>1. Busy(id) = {t}
      BY <1>7 DEF Alone
    <2>2. Busy(id)' = {t} /\ jobs'[t].op = "write"
      BY <2>1, <1>5, <1>7
    <2>3. rows'[id] # NoRow /\ rows'[id].config = Merge(jobs'[t].read, jobs'[t].put)
      BY <1>7, <1>10, <1>13, <1>14
    <2> QED
      BY <2>2, <2>3 DEF Alone
  <1>19. \A u \in Busy(id)' : jobs'[u].op = "insert" => id # Seed
    BY <1>5, <1>7, <1>12 DEF Consistent
  <1>20. Consistent(id)'
    <2>1. Held(id)'
      BY <1>1, <1>5, <1>7, <1>8, <1>12, <1>15 DEF Held, Consistent
    <2> QED
      BY <1>7, <1>12, <1>16, <1>17, <1>18, <1>19, <2>1 DEF Consistent
  <1>21. listed' \subseteq Ids /\ edited' \subseteq Ids /\ dirs' \in [Ids -> Files \cup {NoDir}]
    BY <1>8, <1>9
  <1> QED
    BY <1>0, <1>1, <1>4, <1>5, <1>8, <1>14, <1>20, <1>21, StepKeeps

\* What thread t does in the last step of a request on id to the directory of `to' keeps
\* the invariant, when both are marked or the directory is its own and all is well.
LEMMA EndKeeps ==
  ASSUME OnboardingInv, NEW t \in Threads, jobs[t] # Idle, NEW id, id = jobs[t].id,
         NEW to \in Ids, NEW ids \in SUBSET {id, to}, to # id => ids = {id, to},
         NEW why \in {"failed", "astray"}, EndWith(t, ids, why),
         dirs' \in [Ids -> Files \cup {NoDir}], \A k \in Ids \ {to} : dirs'[k] = dirs[k],
         dirs'[to] # NoDir \/ dirs'[to] = dirs[to],
         edited' \subseteq Ids, \A k \in Ids \ {to} : k \in edited' <=> k \in edited,
         UNCHANGED <<now, rows, listed, deployed>>,
         ids = {} => Consistent(id)'
  PROVE  OnboardingInv'
  <1>1. TypeOK /\ \A k \in Ids : Consistent(k)
    BY DEF OnboardingInv
  <1>2. why \in Troubles
    BY DEF Troubles
  <1>3. /\ jobs' \in [Threads -> Job \cup {Idle}]
        /\ started' = started /\ trouble' \in [Ids -> SUBSET Troubles]
    BY <1>1, <1>2, EndMoves
  <1>4. /\ id \in Ids
        /\ \A k \in Ids : trouble'[k] = trouble[k] \cup (IF k \in ids THEN {why} ELSE {})
        /\ Busy(id)' = Busy(id) \ {t} /\ \A u \in Busy(id) \ {t} : jobs'[u] = jobs[u]
    BY <1>1, <1>2, EndMoves
  <1>5. \A k \in Ids \ {id} : Busy(k)' = Busy(k) /\ \A u \in Busy(k) : jobs'[u] = jobs[u]
    BY <1>1, <1>2, EndMoves
  <1>6. \A k \in Ids : Busy(k)' \subseteq Busy(k) /\ \A u \in Busy(k)' : jobs'[u] = jobs[u]
    BY <1>4, <1>5
  <1>7. TypeOK'
    BY <1>1, <1>3 DEF TypeOK
  <1>8. ASSUME NEW k \in Ids PROVE Consistent(k)'
    <2>1. CASE k \in ids
      <3>1. trouble'[k] = trouble[k] \cup {why}
        BY <2>1, <1>4
      <3>2. dirs'[k] # NoDir \/ dirs'[k] = dirs[k]
        OBVIOUS
      <3> QED
        BY <3>1, <3>2, <1>1, <1>6, SpoiledStays
    <2>2. CASE k \notin ids /\ k # id
      <3>1. k # to
        BY <2>2
      <3>2. trouble'[k] = trouble[k]
        <4>1. trouble'[k] = trouble[k] \cup {}
          BY <2>2, <1>4
        <4>2. trouble[k] \cup {} = trouble[k]
          OBVIOUS
        <4> QED
          BY <4>1, <4>2
      <3>3. k \in Ids \ {id} /\ k \in Ids \ {to}
        BY <3>1, <2>2
      <3>4. dirs'[k] = dirs[k] /\ rows'[k] = rows[k]
        BY <3>3
      <3> QED
        BY <3>2, <3>3, <3>4, <1>1, <1>5, UntouchedStays
    <2>3. CASE k \notin ids /\ k = id
      <3>1. ids = {}
        BY <2>3
      <3> QED
        BY <3>1, <2>3
    <2> QED
      BY <2>1, <2>2, <2>3
  <1> QED
    BY <1>7, <1>8 DEF OnboardingInv

\* Alone and under its own id, write_avatar_files writes what the row says.
LEMMA WriteFilesKeeps ==
  ASSUME OnboardingInv, NEW t \in Threads, WriteFiles(t)
  PROVE  OnboardingInv'
  <1>0. PICK id, to, ids : id = jobs[t].id /\ to = jobs[t].to /\ ids = Astray(jobs[t])
    OBVIOUS
  <1> DEFINE files == Assemble(Merge(jobs[t].read, jobs[t].put))
  <1>1. jobs[t] # Idle /\ jobs[t].op = "write" /\ EndWith(t, ids, "astray")
    BY <1>0 DEF WriteFiles
  <1>2. TypeOK /\ "astray" \in Troubles
    BY DEF OnboardingInv, Troubles
  <1>3. /\ jobs[t] \in Job /\ id \in Ids /\ t \in Busy(id)
        /\ trouble'[id] = trouble[id] \cup (IF id \in ids THEN {"astray"} ELSE {})
        /\ Busy(id)' = Busy(id) \ {t} /\ \A u \in Busy(id) \ {t} : jobs'[u] = jobs[u]
    BY <1>0, <1>1, <1>2, EndMoves
  <1>4. jobs[t].read \in Config /\ jobs[t].put \in Puts /\ to \in Ids
    BY <1>0, <1>1, <1>3, JobFields
  <1>5. files \in Files /\ files # NoDir
    BY <1>4, MergeType, AssembleType
  <1>6. /\ dirs' = [dirs EXCEPT ![to] = files] /\ edited' = edited \cup {to}
        /\ UNCHANGED <<now, rows, listed, deployed>>
    BY <1>0 DEF WriteFiles
  <1>7. dirs \in [Ids -> Files \cup {NoDir}] /\ edited \subseteq Ids
    BY <1>2 DEF TypeOK
  <1>8. Consistent(id)
    BY <1>3 DEF OnboardingInv
  <1>9. Alone(id) => files = Assemble(rows[id].config)
    BY <1>0, <1>1, <1>3 DEF Alone
  <1>10. /\ ids \in SUBSET {id, to} /\ (to # id => ids = {id, to})
         /\ ids = {} => to = id /\ rows[id] # NoRow
    BY <1>0 DEF Astray
  <1> HIDE DEF files
  <1>11. /\ dirs' \in [Ids -> Files \cup {NoDir}] /\ \A k \in Ids \ {to} : dirs'[k] = dirs[k]
         /\ dirs'[to] = files
    BY <1>4, <1>5, <1>6, <1>7
  <1>12. ASSUME ids = {} PROVE Consistent(id)'
    <2>1. to = id /\ rows[id] # NoRow /\ trouble'[id] = trouble[id]
      BY <1>3, <1>10, <1>12
    <2>2. VersionsFit(id)'
      BY <1>3, <1>6, <1>8 DEF VersionsFit, VersionCount, Consistent
    <2>3. TakenOnce(id) => TakenOnce(id)'
      BY <1>1, <1>3, <1>5, <1>6, <1>11, <2>1 DEF TakenOnce
    <2>4. Alone(id) => Alone(id)'
      <3> SUFFICES ASSUME Alone(id) PROVE Alone(id)'
        OBVIOUS
      <3>1. Busy(id)' = {}
        BY <1>3 DEF Alone
      <3>2. Agree(id)'
        BY <1>5, <1>6, <1>9, <1>11, <2>1 DEF Agree
      <3> QED
        BY <3>1, <3>2 DEF Alone
    <2>5. Held(id)'
      BY <1>6, <2>1 DEF Held
    <2> QED
      BY <1>3, <1>8, <2>1, <2>2, <2>3, <2>4, <2>5 DEF Consistent
  <1>13. edited' \subseteq Ids /\ \A k \in Ids \ {to} : k \in edited' <=> k \in edited
    BY <1>4, <1>6, <1>7
  <1> QED
    BY <1>0, <1>1, <1>4, <1>5, <1>6, <1>10, <1>11, <1>12, <1>13, EndKeeps

\* Some of the files have been written, in a directory that is there now.
LEMMA WriteFailsKeeps ==
  ASSUME OnboardingInv, NEW t \in Threads, WriteFails(t)
  PROVE  OnboardingInv'
  <1>0. PICK id, to : id = jobs[t].id /\ to = jobs[t].to
    OBVIOUS
  <1> DEFINE new == Assemble(Merge(jobs[t].read, jobs[t].put))
             old == IF dirs[to] = NoDir THEN [f \in Fields |-> NoFile] ELSE dirs[to]
  <1>1. jobs[t] # Idle /\ jobs[t].op = "write" /\ EndWith(t, {id, to}, "failed")
    BY <1>0 DEF WriteFails
  <1>2. jobs[t] \in Job /\ dirs \in [Ids -> Files \cup {NoDir}] /\ edited \subseteq Ids
    BY <1>1 DEF OnboardingInv, TypeOK
  <1>3. jobs[t].read \in Config /\ jobs[t].put \in Puts /\ to \in Ids
    BY <1>0, <1>1, <1>2, JobFields
  <1>4. new \in Files
    BY <1>3, MergeType, AssembleType
  <1>5. old \in Files
    <2>1. [f \in Fields |-> NoFile] \in Files
      BY DEF Files
    <2> QED
      BY <2>1, <1>2, <1>3
  <1>6. PICK W \in SUBSET Fields :
           dirs' = [dirs EXCEPT ![to] = [f \in Fields |-> IF f \in W THEN new[f] ELSE old[f]]]
    BY <1>0 DEF WriteFails
  <1>7. UNCHANGED <<now, rows, listed, deployed, edited>>
    BY DEF WriteFails
  <1> DEFINE files == [f \in Fields |-> IF f \in W THEN new[f] ELSE old[f]]
  <1> HIDE DEF new, old
  <1>8. files \in Files
    BY <1>4, <1>5 DEF Files
  <1>9. files # NoDir
    BY <1>8, OnboardingAssumption
  <1>10. dirs' = [dirs EXCEPT ![to] = files]
    BY <1>6
  <1> HIDE DEF files
  <1>11. /\ dirs' \in [Ids -> Files \cup {NoDir}] /\ \A k \in Ids \ {to} : dirs'[k] = dirs[k]
         /\ dirs'[to] # NoDir
    BY <1>2, <1>3, <1>8, <1>9, <1>10
  <1>12. /\ edited' \subseteq Ids /\ \A k \in Ids \ {to} : k \in edited' <=> k \in edited
         /\ {id, to} \in SUBSET {id, to} /\ {id, to} # {}
    BY <1>2, <1>7
  <1>13. PICK ids : ids = {id, to}
    OBVIOUS
  <1> QED
    BY <1>0, <1>1, <1>3, <1>7, <1>11, <1>12, <1>13, EndKeeps

\* Some of the files are gone, the directory is not.
LEMMA RemoveFailsKeeps ==
  ASSUME OnboardingInv, NEW t \in Threads, RemoveFails(t)
  PROVE  OnboardingInv'
  <1>0. PICK id, ids : id = jobs[t].id /\ ids = {id}
    OBVIOUS
  <1>1. /\ jobs[t] # Idle /\ jobs[t].op = "rmtree" /\ dirs[id] # NoDir
        /\ EndWith(t, ids, "failed")
    BY <1>0 DEF RemoveFails
  <1>2. jobs[t] \in Job /\ dirs \in [Ids -> Files \cup {NoDir}] /\ edited \subseteq Ids
    BY <1>1 DEF OnboardingInv, TypeOK
  <1>3. id \in Ids
    BY <1>0, <1>2, JobFields
  <1>4. PICK gone \in SUBSET Fields :
           dirs' = [dirs EXCEPT ![id] = [f \in Fields |-> IF f \in gone THEN NoFile ELSE dirs[id][f]]]
    BY <1>0 DEF RemoveFails
  <1>5. UNCHANGED <<now, rows, listed, deployed, edited>>
    BY DEF RemoveFails
  <1> DEFINE files == [f \in Fields |-> IF f \in gone THEN NoFile ELSE dirs[id][f]]
  <1>6. dirs[id] \in Files
    BY <1>1, <1>2, <1>3
  <1>7. files \in Files
    BY <1>6 DEF Files
  <1>8. files # NoDir
    BY <1>7, OnboardingAssumption
  <1>9. dirs' = [dirs EXCEPT ![id] = files]
    BY <1>4
  <1> HIDE DEF files
  <1>10. /\ dirs' \in [Ids -> Files \cup {NoDir}] /\ \A k \in Ids \ {id} : dirs'[k] = dirs[k]
         /\ dirs'[id] # NoDir
    BY <1>2, <1>3, <1>7, <1>8, <1>9
  <1>11. /\ edited' \subseteq Ids /\ \A k \in Ids \ {id} : k \in edited' <=> k \in edited
         /\ ids \in SUBSET {id, id} /\ ids # {}
    BY <1>0, <1>2, <1>5
  <1> QED
    BY <1>0, <1>1, <1>3, <1>5, <1>10, <1>11, EndKeeps

\* The deployment ends with no row.
LEMMA DeployFailsKeeps ==
  ASSUME OnboardingInv, NEW t \in Threads, DeployFails(t)
  PROVE  OnboardingInv'
  <1>0. PICK id, ids : id = jobs[t].id /\ ids = {id}
    OBVIOUS
  <1>1. /\ jobs[t] # Idle /\ EndWith(t, ids, "failed")
        /\ UNCHANGED <<now, rows, dirs, listed, deployed, edited>>
    BY <1>0 DEF DeployFails
  <1>2. jobs[t] \in Job /\ dirs \in [Ids -> Files \cup {NoDir}] /\ edited \subseteq Ids
    BY <1>1 DEF OnboardingInv, TypeOK
  <1>3. id \in Ids /\ ids \in SUBSET {id, id} /\ ids # {}
    BY <1>0, <1>2, JobFields
  <1> QED
    BY <1>0, <1>1, <1>2, <1>3, EndKeeps

\* A request that has written nothing yet ends, and leaves its id as it was.
LEMMA LockedKeeps ==
  ASSUME OnboardingInv, NEW t \in Threads, Locked(t)
  PROVE  OnboardingInv'
  <1>0. PICK id : id = jobs[t].id
    OBVIOUS
  <1>1. /\ jobs[t] # Idle /\ jobs[t].op \in {"update", "save", "delete"} /\ Continue(t, Idle)
        /\ UNCHANGED <<now, rows, dirs, listed, deployed, edited>>
    BY DEF Locked
  <1>2. TypeOK
    BY DEF OnboardingInv
  <1>3. /\ id \in Ids /\ t \in Busy(id) /\ trouble' = trouble
        /\ Busy(id)' = Busy(id) \ {t} /\ \A u \in Busy(id) \ {t} : jobs'[u] = jobs[u]
    BY <1>0, <1>1, <1>2, ContinueMoves
  <1>4. Consistent(id)
    BY <1>3 DEF OnboardingInv
  <1>5. VersionsFit(id)'
    BY <1>1, <1>3, <1>4 DEF VersionsFit, VersionCount, Consistent
  <1>6. TakenOnce(id) => TakenOnce(id)'
    BY <1>1, <1>3 DEF TakenOnce
  <1>7. Alone(id) => Alone(id)'
    <2> SUFFICES ASSUME Alone(id) PROVE Alone(id)'
      OBVIOUS
    <2>1. Busy(id)' = {} /\ Agree(id)
      BY <1>1, <1>3 DEF Alone
    <2>2. Agree(id)'
      BY <2>1, <1>1 DEF Agree
    <2> QED
      BY <2>1, <2>2 DEF Alone
  <1>8. Held(id)'
    BY <1>1, <1>3, <1>4 DEF Held, Consistent
  <1>9. Consistent(id)'
    BY <1>3, <1>4, <1>5, <1>6, <1>7, <1>8 DEF Consistent
  <1>10. /\ rows' \in [Ids -> Row \cup {NoRow}] /\ dirs' \in [Ids -> Files \cup {NoDir}]
         /\ listed' \subseteq Ids /\ edited' \subseteq Ids
    BY <1>1, <1>2 DEF TypeOK
  <1> QED
    BY <1>0, <1>1, <1>9, <1>10, StepKeeps

\* Once a deletion has removed the row, nothing of it is left for its next steps to lose.
LEMMA DeleteRowKeeps ==
  ASSUME OnboardingInv, NEW t \in Threads, DeleteRow(t)
  PROVE  OnboardingInv'
  <1>0. PICK id : id = jobs[t].id
    OBVIOUS
  <1> DEFINE job == [op |-> "unlist", id |-> id]
  <1>1. jobs[t] # Idle /\ jobs[t].op = "delete" /\ Continue(t, job)
    BY <1>0 DEF DeleteRow
  <1>2. TypeOK
    BY DEF OnboardingInv
  <1>3. jobs[t] \in Job /\ id \in Ids
    BY <1>0, <1>1, <1>2, JobFields DEF TypeOK
  <1>4. job \in Job /\ job.id = id /\ job.op = "unlist"
    BY <1>3 DEF Job
  <1>5. job # Idle
    BY <1>4, JobFields
  <1> HIDE DEF job
  <1>6. /\ t \in Busy(id) /\ trouble' = trouble
        /\ Busy(id)' = Busy(id) /\ jobs'[t] = job /\ \A u \in Busy(id) \ {t} : jobs'[u] = jobs[u]
    BY <1>0, <1>1, <1>2, <1>4, <1>5, ContinueMoves
  <1>7. /\ rows' = [rows EXCEPT ![id] = NoRow]
        /\ UNCHANGED <<now, dirs, listed, deployed, edited>>
    BY <1>0 DEF DeleteRow
  <1>8. /\ rows \in [Ids -> Row \cup {NoRow}] /\ dirs \in [Ids -> Files \cup {NoDir}]
        /\ listed \subseteq Ids /\ edited \subseteq Ids
    BY <1>2 DEF TypeOK
  <1>9. /\ rows' \in [Ids -> Row \cup {NoRow}] /\ \A k \in Ids \ {id} : rows'[k] = rows[k]
        /\ rows'[id] = NoRow
    BY <1>3, <1>7, <1>8
  <1>10. Consistent(id)
    BY <1>3 DEF OnboardingInv
  <1>11. VersionsFit(id)'
    BY <1>4, <1>6, <1>9, <1>10 DEF VersionsFit, VersionCount, Consistent
  <1>12. TakenOnce(id) => TakenOnce(id)'
    BY <1>1, <1>4, <1>6, <1>7, <1>9 DEF TakenOnce
  <1>13. Alone(id) => Alone(id)'
    BY <1>4, <1>6, <1>7, <1>9 DEF Alone
  <1>14. \A u \in Busy(id)' : jobs'[u].op = "insert" => id # Seed
    BY <1>4, <1>6, <1>10 DEF Consistent
  <1>15. Consistent(id)'
    <2>1. Held(id)'
      BY <1>4, <1>6 DEF Held
    <2> QED
      BY <1>6, <1>10, <1>11, <1>12, <1>13, <1>14, <2>1 DEF Consistent
  <1>16. listed' \subseteq Ids /\ edited' \subseteq Ids /\ dirs' \in [Ids -> Files \cup {NoDir}]
    BY <1>7, <1>8
  <1> QED
    BY <1>0, <1>1, <1>4, <1>7, <1>9, <1>15, <1>16, StepKeeps

\* Reading and writing OpenClaw's list goes from one late step of a deletion to the next.
LEMMA DeletionGoesOn ==
  ASSUME OnboardingInv, NEW t \in Threads, NEW id, id = jobs[t].id,
         jobs[t] # Idle, jobs[t].op \in {"unlist", "relist"},
         NEW job \in Job, job.id = id, job.op \in {"relist", "rmtree"}, Continue(t, job),
         listed' \subseteq Ids, UNCHANGED <<now, rows, dirs, deployed, edited>>
  PROVE  OnboardingInv'
  <1>1. TypeOK
    BY DEF OnboardingInv
  <1>2. job # Idle
    BY JobFields
  <1>3. /\ id \in Ids /\ t \in Busy(id) /\ trouble' = trouble
        /\ Busy(id)' = Busy(id) /\ jobs'[t] = job /\ \A u \in Busy(id) \ {t} : jobs'[u] = jobs[u]
    BY <1>1, <1>2, ContinueMoves
  <1>4. Consistent(id)
    BY <1>3 DEF OnboardingInv
  <1>5. VersionsFit(id)'
    BY <1>3, <1>4 DEF VersionsFit, VersionCount, Consistent
  <1>6. TakenOnce(id) => TakenOnce(id)'
    BY <1>3 DEF TakenOnce
  <1>7. Alone(id) => Alone(id)'
    BY <1>3 DEF Alone
  <1>8. \A u \in Busy(id)' : jobs'[u].op = "insert" => id # Seed
    BY <1>3, <1>4 DEF Consistent
  <1>9. Consistent(id)'
    <2>1. Held(id)'
      BY <1>3 DEF Held
    <2> QED
      BY <1>3, <1>4, <1>5, <1>6, <1>7, <1>8, <2>1 DEF Consistent
  <1>10. /\ rows' \in [Ids -> Row \cup {NoRow}] /\ \A k \in Ids \ {id} : rows'[k] = rows[k]
         /\ dirs' \in [Ids -> Files \cup {NoDir}] /\ edited' \subseteq Ids
    BY <1>1 DEF TypeOK
  <1> QED
    BY <1>9, <1>10, StepKeeps

LEMMA ReadListKeeps ==
  ASSUME OnboardingInv, NEW t \in Threads, ReadList(t)
  PROVE  OnboardingInv'
  <1>0. PICK id : id = jobs[t].id
    OBVIOUS
  <1>1. jobs[t] # Idle /\ jobs[t].op = "unlist"
    BY DEF ReadList
  <1>2. id \in Ids /\ listed \subseteq Ids
    BY <1>0, <1>1, JobFields DEF OnboardingInv, TypeOK
  <1> DEFINE job == IF id \in listed \ Rewritten
                    THEN [op |-> "relist", id |-> id, list |-> listed \ {id}]
                    ELSE [op |-> "rmtree", id |-> id]
  <1>3. job \in Job /\ job.id = id /\ job.op \in {"relist", "rmtree"}
    BY <1>2 DEF Job
  <1>4. Continue(t, job) /\ UNCHANGED <<now, rows, dirs, listed, deployed, edited>>
    BY <1>0 DEF ReadList
  <1> HIDE DEF job
  <1> QED
    BY <1>0, <1>1, <1>2, <1>3, <1>4, DeletionGoesOn

LEMMA WriteListKeeps ==
  ASSUME OnboardingInv, NEW t \in Threads, WriteList(t)
  PROVE  OnboardingInv'
  <1>0. PICK id : id = jobs[t].id
    OBVIOUS
  <1>1. jobs[t] # Idle /\ jobs[t].op = "relist"
    BY DEF WriteList
  <1>2. jobs[t] \in Job
    BY <1>1 DEF OnboardingInv, TypeOK
  <1>3. id \in Ids /\ jobs[t].list \subseteq Ids
    BY <1>0, <1>1, <1>2, JobFields
  <1> DEFINE job == [op |-> "rmtree", id |-> id]
  <1>4. job \in Job /\ job.id = id /\ job.op = "rmtree"
    BY <1>3 DEF Job
  <1>5. Continue(t, job) /\ listed' = jobs[t].list /\ UNCHANGED <<now, rows, dirs, deployed, edited>>
    BY <1>0 DEF WriteList
  <1> HIDE DEF job
  <1> QED
    BY <1>0, <1>1, <1>3, <1>4, <1>5, DeletionGoesOn

\* The directory goes when the row is gone.
LEMMA RemoveDirectoryKeeps ==
  ASSUME OnboardingInv, NEW t \in Threads, RemoveDirectory(t)
  PROVE  OnboardingInv'
  <1>0. PICK id : id = jobs[t].id
    OBVIOUS
  <1>1. jobs[t] # Idle /\ jobs[t].op = "rmtree" /\ Continue(t, Idle)
    BY DEF RemoveDirectory
  <1>2. TypeOK
    BY DEF OnboardingInv
  <1>3. /\ id \in Ids /\ t \in Busy(id) /\ trouble' = trouble
        /\ Busy(id)' = Busy(id) \ {t} /\ \A u \in Busy(id) \ {t} : jobs'[u] = jobs[u]
    BY <1>0, <1>1, <1>2, ContinueMoves
  <1>4. /\ dirs' = [dirs EXCEPT ![id] = NoDir] /\ edited' = edited \ {id}
        /\ UNCHANGED <<now, rows, listed, deployed>>
    BY <1>0 DEF RemoveDirectory
  <1>5. /\ rows \in [Ids -> Row \cup {NoRow}] /\ dirs \in [Ids -> Files \cup {NoDir}]
        /\ listed \subseteq Ids /\ edited \subseteq Ids
    BY <1>2 DEF TypeOK
  <1>6. /\ dirs' \in [Ids -> Files \cup {NoDir}] /\ \A k \in Ids \ {id} : dirs'[k] = dirs[k]
        /\ dirs'[id] = NoDir
    BY <1>3, <1>4, <1>5
  <1>7. Consistent(id)
    BY <1>3 DEF OnboardingInv
  <1>8. VersionsFit(id)'
    BY <1>3, <1>4, <1>7 DEF VersionsFit, VersionCount, Consistent
  <1>9. TakenOnce(id) => rows[id] = NoRow /\ TakenOnce(id)'
    BY <1>1, <1>3, <1>4 DEF TakenOnce
  <1>10. TakenOnce(id) /\ Alone(id) => Alone(id)'
    BY <1>3, <1>4, <1>6, <1>9 DEF Alone, Agree
  <1>11. Consistent(id)'
    <2>1. Held(id)'
      BY <1>6 DEF Held
    <2> QED
      BY <1>3, <1>7, <1>8, <1>9, <1>10, <2>1 DEF Consistent
  <1>12. /\ rows' \in [Ids -> Row \cup {NoRow}] /\ \A k \in Ids \ {id} : rows'[k] = rows[k]
         /\ edited' \subseteq Ids /\ \A k \in Ids \ {id} : k \in edited' <=> k \in edited
         /\ listed' \subseteq Ids
    BY <1>4, <1>5
  <1> QED
    BY <1>0, <1>1, <1>4, <1>6, <1>11, <1>12, StepKeeps

\* reset_seed_blueprints writes as many versions as the seeded row has.
LEMMA ResetSeedsKeeps ==
  ASSUME OnboardingInv, ResetSeeds
  PROVE  OnboardingInv'
  <1> DEFINE used == UsedBy(SeedVersions)
             row  == [rows[Seed] EXCEPT !.versions = SeedVersions, !.used = used]
  <1>1. TypeOK /\ \A k \in Ids : Consistent(k)
    BY DEF OnboardingInv
  <1>2. SeedVersions \in Seq(Version) /\ used \in Int
    BY UsedByType, OnboardingAssumption
  <1>3. Seed \in Ids
    BY OnboardingAssumption DEF Seed, Ids
  <1>4. /\ rows[Seed] # NoRow /\ rows' = [rows EXCEPT ![Seed] = row]
        /\ UNCHANGED <<now, dirs, listed, jobs, started, deployed, edited, trouble>>
    BY DEF ResetSeeds
  <1> HIDE DEF used
  <1>5. rows \in [Ids -> Row \cup {NoRow}]
    BY <1>1 DEF TypeOK
  <1>6. rows[Seed] \in Row
    BY <1>3, <1>4, <1>5
  <1>7. \A vs \in Seq(Version), n \in Int :
           /\ [rows[Seed] EXCEPT !.versions = vs, !.used = n] \in Row
           /\ [rows[Seed] EXCEPT !.versions = vs, !.used = n].versions = vs
           /\ [rows[Seed] EXCEPT !.versions = vs, !.used = n].config = rows[Seed].config
    BY <1>6, RowFields
  <1>8. row \in Row /\ row.versions = SeedVersions /\ row.config = rows[Seed].config
    BY <1>2, <1>7
  <1>9. row # NoRow
    BY <1>8, RowFields
  <1> HIDE DEF row
  <1>10. /\ rows' \in [Ids -> Row \cup {NoRow}] /\ rows'[Seed] = row
         /\ \A k \in Ids \ {Seed} : rows'[k] = rows[k]
    BY <1>3, <1>4, <1>5, <1>8
  <1>11. \A k : Busy(k)' = Busy(k)
    BY <1>4 DEF Busy
  <1>12. TypeOK'
    BY <1>1, <1>4, <1>10 DEF TypeOK
  <1>13. Consistent(Seed)
    BY <1>1, <1>3
  <1>14. VersionsFit(Seed)'
    BY <1>4, <1>8, <1>10, <1>11, <1>13 DEF VersionsFit, VersionCount, Consistent, Seed
  <1>15. TakenOnce(Seed) => TakenOnce(Seed)'
    BY <1>4, <1>11 DEF TakenOnce, Seed
  <1>16. Alone(Seed) => Alone(Seed)'
    <2>1. Agree(Seed) => Agree(Seed)'
      BY <1>4, <1>8, <1>9, <1>10 DEF Agree, Seed
    <2> QED
      BY <2>1, <1>4, <1>8, <1>9, <1>10, <1>11 DEF Alone, Seed
  <1>17. Consistent(Seed)'
    <2>1. Held(Seed)'
      BY <1>9, <1>10 DEF Held
    <2> QED
      BY <1>4, <1>11, <1>13, <1>14, <1>15, <1>16, <2>1 DEF Consistent, Seed
  <1>18. ASSUME NEW k \in Ids \ {Seed} PROVE Consistent(k)'
    BY <1>1, <1>4, <1>10, <1>11, UntouchedStays
  <1> QED
    BY <1>12, <1>17, <1>18 DEF OnboardingInv

\* A crash ends every request, and marks the ids that had one.
LEMMA CrashKeeps ==
  ASSUME OnboardingInv, Crash
  PROVE  OnboardingInv'
  <1>1. TypeOK /\ \A k \in Ids : Consistent(k)
    BY DEF OnboardingInv
  <1>2. /\ jobs' = [t \in Threads |-> Idle]
        /\ trouble' = [id \in Ids |-> trouble[id] \cup (IF Busy(id) = {} THEN {} ELSE {"crash"})]
        /\ UNCHANGED <<now, rows, dirs, listed, started, deployed, edited>>
    BY DEF Crash
  <1>3. \A id \in Ids : trouble'[id] = trouble[id] \cup (IF Busy(id) = {} THEN {} ELSE {"crash"})
    BY <1>2
  <1>4. trouble \in [Ids -> SUBSET Troubles] /\ "crash" \in Troubles
    BY <1>1 DEF TypeOK, Troubles
  <1>5. trouble' \in [Ids -> SUBSET Troubles]
    <2>1. ASSUME NEW id \in Ids
          PROVE  trouble[id] \cup (IF Busy(id) = {} THEN {} ELSE {"crash"})
                    \in SUBSET Troubles
      BY <1>4
    <2> QED
      BY <1>2, <2>1
  <1>6. TypeOK'
    BY <1>1, <1>2, <1>5 DEF TypeOK
  <1>7. \A id : Busy(id)' = {}
    BY <1>2 DEF Busy
  <1>8. ASSUME NEW id \in Ids PROVE Consistent(id)'
    <2>1. Consistent(id)
      BY <1>1
    <2>2. VersionsFit(id)'
      BY <1>2, <1>7, <2>1 DEF VersionsFit, VersionCount, Consistent
    <2>3. TakenOnce(id) => TakenOnce(id)'
      BY <1>2, <1>7 DEF TakenOnce
    <2>4. trouble'[id] = {} => Alone(id)'
      <3>1. trouble'[id] = {} => trouble[id] = {} /\ Busy(id) = {}
        BY <1>3
      <3>2. Agree(id) => Agree(id)'
        BY <1>2 DEF Agree
      <3> QED
        BY <3>1, <3>2, <1>7, <2>1 DEF Consistent, Alone
    <2>5. "twice" \in trouble'[id] <=> "twice" \in trouble[id]
      BY <1>3
    <2>6. Held(id)'
      <3>1. CASE Busy(id) = {}
        BY <3>1, <1>2, <1>3, <2>1 DEF Held, Consistent
      <3>2. CASE Busy(id) # {}
        BY <3>2, <1>3 DEF Held
      <3> QED
        BY <3>1, <3>2
    <2> QED
      BY <1>7, <2>1, <2>2, <2>3, <2>4, <2>5, <2>6 DEF Consistent
  <1> QED
    BY <1>6, <1>8 DEF OnboardingInv

\* Time passes, or nothing happens.
LEMMA TickKeeps ==
  ASSUME OnboardingInv, Tick \/ UNCHANGED vars
  PROVE  OnboardingInv'
  <1>1. UNCHANGED <<rows, dirs, listed, jobs, started, deployed, edited, trouble>>
    BY DEF Tick, vars
  <1>2. now' \in 1..(MaxSecond + 1)
    BY OnboardingAssumption DEF Tick, vars, OnboardingInv, TypeOK
  <1>3. TypeOK'
    BY <1>1, <1>2 DEF OnboardingInv, TypeOK
  <1>4. ASSUME NEW k \in Ids PROVE Consistent(k)'
    <2>1. Busy(k)' = Busy(k)
      BY <1>1 DEF Busy
    <2> QED
      BY <1>1, <2>1, UntouchedStays DEF OnboardingInv
  <1> QED
    BY <1>3, <1>4 DEF OnboardingInv

LEMMA VersionEdits ==
  ASSUME NEW v \in Version, NEW n \in Int
  PROVE  /\ [v EXCEPT !.traffic = n] \in Version
         /\ [v EXCEPT !.traffic = n].status = v.status
         /\ [v EXCEPT !.traffic = n, !.status = "deprecated"] \in Version
         /\ [v EXCEPT !.traffic = n, !.status = "deprecated"].status = "deprecated"
  BY DEF Version

\* update_traffic and deprecate_version replace one version, and publish none again.
LEMMA ReplacingVersionKeeps ==
  ASSUME OnboardingInv, NEW t \in Threads, NEW id \in Ids, rows[id] # NoRow,
         NEW i \in DOMAIN rows[id].versions, NEW v \in Version,
         v.status \in {rows[id].versions[i].status, "deprecated"},
         Begin(t, id, [op |-> "update", id |-> id, base |-> rows[id].versions,
                       versions |-> [rows[id].versions EXCEPT ![i] = v]], {}),
         UNCHANGED <<now, rows, dirs, listed, deployed, edited>>
  PROVE  OnboardingInv'
  <1> DEFINE s   == rows[id].versions
             new == [s EXCEPT ![i] = v]
             job == [op |-> "update", id |-> id, base |-> s, versions |-> new]
  <1>1. rows[id] \in Row
    BY DEF OnboardingInv, TypeOK
  <1>2. s \in Seq(Version) /\ Len(s) = VersionCount(id)
    BY <1>1, RowFields DEF OnboardingInv, Consistent, VersionsFit
  <1> HIDE DEF s
  <1>3. i \in DOMAIN s
    BY DEF s
  <1>4. /\ new \in Seq(Version) /\ Len(new) = Len(s)
        /\ \A k \in DOMAIN s : new[k] = IF k = i THEN v ELSE s[k]
    BY <1>2, <1>3, ReplaceInSeq
  <1>5. v.status \in {s[i].status, "deprecated"}
    BY DEF s
  <1>6. \A k \in 1..VersionCount(id) : s[k].status = "deprecated" => new[k].status = "deprecated"
    BY <1>2, <1>4, <1>5
  <1> HIDE DEF new
  <1>7. /\ job \in Job /\ job.id = id /\ job.op = "update"
        /\ job.base = s /\ job.versions = new
    BY <1>2, <1>4 DEF Job
  <1>8. Begin(t, id, job, {})
    BY DEF s, new
  <1> HIDE DEF job
  <1> QED
    BY <1>2, <1>4, <1>6, <1>7, <1>8, FoundRowKeeps

LEMMA ReadForTrafficKeeps ==
  ASSUME OnboardingInv, NEW t \in Threads, NEW id \in Ids, NEW i, NEW traffic \in Traffic,
         ReadForTraffic(t, id, i, traffic)
  PROVE  OnboardingInv'
  <1> DEFINE s == rows[id].versions
             v == [s[i] EXCEPT !.traffic = traffic]
  <1>1. /\ rows[id] # NoRow /\ i \in DOMAIN s
        /\ Begin(t, id, [op |-> "update", id |-> id, base |-> s, versions |-> [s EXCEPT ![i] = v]], {})
        /\ UNCHANGED <<now, rows, dirs, listed, deployed, edited>>
    BY DEF ReadForTraffic
  <1>2. rows[id] \in Row
    BY <1>1 DEF OnboardingInv, TypeOK
  <1>3. s \in Seq(Version)
    BY <1>2, RowFields
  <1>4. s[i] \in Version /\ traffic \in Int
    BY <1>1, <1>3, OnboardingAssumption
  <1>5. v \in Version /\ v.status = s[i].status
    BY <1>4, VersionEdits
  <1> HIDE DEF v
  <1> QED
    BY <1>1, <1>5, ReplacingVersionKeeps

LEMMA ReadForDeprecationKeeps ==
  ASSUME OnboardingInv, NEW t \in Threads, NEW id \in Ids, NEW i, ReadForDeprecation(t, id, i)
  PROVE  OnboardingInv'
  <1> DEFINE s == rows[id].versions
             v == [s[i] EXCEPT !.traffic = 0, !.status = "deprecated"]
  <1>1. /\ rows[id] # NoRow /\ i \in DOMAIN s
        /\ Begin(t, id, [op |-> "update", id |-> id, base |-> s, versions |-> [s EXCEPT ![i] = v]], {})
        /\ UNCHANGED <<now, rows, dirs, listed, deployed, edited>>
    BY DEF ReadForDeprecation
  <1>2. rows[id] \in Row
    BY <1>1 DEF OnboardingInv, TypeOK
  <1>3. s \in Seq(Version)
    BY <1>2, RowFields
  <1>4. s[i] \in Version
    BY <1>1, <1>3
  <1>5. v \in Version /\ v.status = "deprecated"
    <2>1. 0 \in Int
      OBVIOUS
    <2> QED
      BY <1>4, <2>1, VersionEdits, Zenon
  <1> HIDE DEF v
  <1> QED
    BY <1>1, <1>5, ReplacingVersionKeeps

LEMMA ReadForPutKeeps ==
  ASSUME OnboardingInv, NEW t \in Threads, NEW id \in Ids, NEW put \in Puts, NEW to \in Ids,
         ReadForPut(t, id, put, to)
  PROVE  OnboardingInv'
  <1> DEFINE job == [op |-> "save", id |-> id, read |-> rows[id].config, put |-> put, to |-> to]
  <1>1. rows[id] # NoRow /\ Begin(t, id, job, {}) /\ UNCHANGED <<now, rows, dirs, listed, deployed, edited>>
    BY DEF ReadForPut
  <1>2. rows[id] \in Row
    BY <1>1 DEF OnboardingInv, TypeOK
  <1>3. rows[id].config \in Config
    BY <1>2, RowFields
  <1>4. job \in Job /\ job.id = id /\ job.op = "save" /\ job.read = rows[id].config
    BY <1>3 DEF Job
  <1> HIDE DEF job
  <1> QED
    BY <1>1, <1>4, FoundRowKeeps

LEMMA FindForDeleteKeeps ==
  ASSUME OnboardingInv, NEW t \in Threads, NEW id \in Ids, FindForDelete(t, id)
  PROVE  OnboardingInv'
  <1> DEFINE job == [op |-> "delete", id |-> id]
  <1>1. rows[id] # NoRow /\ Begin(t, id, job, {}) /\ UNCHANGED <<now, rows, dirs, listed, deployed, edited>>
    BY DEF FindForDelete
  <1>2. job \in Job /\ job.id = id /\ job.op = "delete"
    BY DEF Job
  <1> HIDE DEF job
  <1> QED
    BY <1>1, <1>2, FoundRowKeeps

\* Every step keeps the invariant.
LEMMA OnboardingNextInv == OnboardingInv /\ [Next]_vars => OnboardingInv'
  <1> SUFFICES ASSUME OnboardingInv, [Next]_vars PROVE OnboardingInv'
    OBVIOUS
  <1>1. CASE Tick \/ UNCHANGED vars
    BY <1>1, TickKeeps
  <1>2. CASE Crash
    BY <1>2, CrashKeeps
  <1>3. CASE ResetSeeds
    BY <1>3, ResetSeedsKeeps
  <1>4. ASSUME NEW t \in Threads, NEW soul \in Contents, RegisterAgent(t, soul)
        PROVE  OnboardingInv'
    BY <1>4, RegisterKeeps
  <1>5. ASSUME NEW t \in Threads, NEW id \in Ids, NEW i \in 1..Len(SeedVersions),
               (\E w \in Traffic : ReadForTraffic(t, id, i, w)) \/ ReadForDeprecation(t, id, i)
        PROVE  OnboardingInv'
    BY <1>5, ReadForTrafficKeeps, ReadForDeprecationKeeps
  <1>6. ASSUME NEW t \in Threads, NEW id \in Ids,
               (\E put \in Puts, to \in Ids : ReadForPut(t, id, put, to)) \/ FindForDelete(t, id)
        PROVE  OnboardingInv'
    BY <1>6, ReadForPutKeeps, FindForDeleteKeeps
  <1>7. ASSUME NEW t \in Threads,
               \/ InsertRow(t) \/ UpdateVersions(t) \/ SaveConfig(t) \/ WriteFiles(t)
               \/ DeleteRow(t) \/ ReadList(t) \/ WriteList(t) \/ RemoveDirectory(t)
        PROVE  OnboardingInv'
    BY <1>7, InsertRowKeeps, UpdateVersionsKeeps, SaveConfigKeeps, WriteFilesKeeps,
       DeleteRowKeeps, ReadListKeeps, WriteListKeeps, RemoveDirectoryKeeps
  <1>8. ASSUME NEW t \in Threads,
               \/ RegisterFails(t) \/ DeployFails(t) \/ Locked(t)
               \/ WriteFails(t) \/ RemoveFails(t)
        PROVE  OnboardingInv'
    BY <1>8, RegisterFailsKeeps, DeployFailsKeeps, LockedKeeps, WriteFailsKeeps,
       RemoveFailsKeeps
  <1> QED
    BY <1>1, <1>2, <1>3, <1>4, <1>5, <1>6, <1>7, <1>8 DEF Next

-----------------------------------------------------------------------------
(* Theorems.                                                               *)

\* The invariant holds in every behaviour.
THEOREM OnboardingInvariant == Spec => []OnboardingInv
  BY OnboardingInitInv, OnboardingNextInv, PTL DEF Spec

\* The database, the files, OpenClaw's list and the requests keep their types.
THEOREM OnboardingTypeCorrect == Spec => []TypeOK
  <1>1. OnboardingInv => TypeOK
    BY DEF OnboardingInv
  <1> QED
    BY <1>1, OnboardingInvariant, PTL

\* A deployment makes the directory before the row and a deletion removes it after, so
\* however requests overlap and crash an id that was taken once has no row without one.
THEOREM RowsHaveDirectories == Spec => []RowHasDirectory
  <1>1. OnboardingInv => RowHasDirectory
    BY DEF OnboardingInv, Consistent, TakenOnce, RowHasDirectory
  <1> QED
    BY <1>1, OnboardingInvariant, PTL

\* A directory without a row is held by a request that is about to make the row or to
\* remove the directory, or it was left by a failure, a stop or a put gone astray.
THEOREM LeaksHaveCauses == Spec => []LeaksAreExplained
  <1>1. OnboardingInv => LeaksAreExplained
    BY DEF OnboardingInv, Consistent, Held, LeaksAreExplained
  <1> QED
    BY <1>1, OnboardingInvariant, PTL

\* Requests on an id that neither overlap, nor stop or fail between their writes, nor
\* share it leave its row and its files agreeing.
THEOREM RequestsInTurnAgree == Spec => []SerialRequestsAgree
  <1>1. OnboardingInv => SerialRequestsAgree
    BY DEF OnboardingInv, Consistent, Alone, SerialRequestsAgree
  <1> QED
    BY <1>1, OnboardingInvariant, PTL

\* A version that is deprecated comes back only by a reset, or by the UPDATE of a request
\* that read it before.
THEOREM DeprecationStays == Spec => DeprecationUndoneUnseen
  <1> DEFINE Undone(id, i) ==
               /\ rows[id] # NoRow /\ rows'[id] # NoRow /\ i \in DOMAIN rows[id].versions
               /\ rows[id].versions[i].status = "deprecated"
               /\ rows'[id].versions[i].status # "deprecated"
             Unseen(id, i) ==
               \E t \in Busy(id) : /\ jobs[t].op = "update" /\ jobs'[t] = Idle
                                   /\ jobs[t].base[i].status # "deprecated"
  <1>1. ASSUME OnboardingInv, [Next]_vars, NEW id \in Ids, NEW i \in 1..Len(SeedVersions),
               Undone(id, i), ~ResetSeeds
        PROVE  Unseen(id, i)
    <2>1. /\ rows \in [Ids -> Row \cup {NoRow}] /\ jobs \in [Threads -> Job \cup {Idle}]
          /\ VersionsFit(id)
      BY <1>1 DEF OnboardingInv, TypeOK, Consistent
    <2>2. rows[id] \in Row /\ rows'[id] # rows[id]
      BY <1>1, <2>1
    <2>3. i \in 1..VersionCount(id)
      <3>1. rows[id].versions \in Seq(Version)
        BY <2>2, RowFields
      <3>2. Len(rows[id].versions) = VersionCount(id)
        BY <1>1, <2>1 DEF VersionsFit
      <3> QED
        BY <1>1, <3>1, <3>2
    <2>4. PICK t \in Threads : InsertRow(t) \/ UpdateVersions(t) \/ SaveConfig(t) \/ DeleteRow(t)
      BY <1>1, <2>2 DEF Next, vars, Tick, Crash, RegisterAgent, ReadForTraffic,
         ReadForDeprecation, ReadForPut, FindForDelete, WriteFiles, ReadList, WriteList,
         RemoveDirectory, RegisterFails, DeployFails, Locked, WriteFails, RemoveFails
    <2>5. jobs[t] \in Job /\ jobs[t].id \in Ids
      BY <2>1, <2>4, JobFields DEF InsertRow, UpdateVersions, SaveConfig, DeleteRow
    <2>6. CASE InsertRow(t)
      BY <1>1, <2>1, <2>2, <2>5, <2>6 DEF InsertRow
    <2>7. CASE DeleteRow(t)
      BY <1>1, <2>1, <2>2, <2>5, <2>7 DEF DeleteRow
    <2>8. CASE SaveConfig(t)
      <3>1. rows'[id] = rows[id] \/ \E c : rows'[id] = [rows[id] EXCEPT !.config = c]
        BY <2>1, <2>5, <2>8 DEF SaveConfig
      <3>2. rows'[id].versions = rows[id].versions
        BY <3>1, <2>2 DEF Row
      <3> QED
        BY <1>1, <3>2
    <2>9. CASE UpdateVersions(t)
      <3>1. jobs[t].id = id /\ jobs[t] # Idle /\ jobs[t].op = "update" /\ jobs' = [jobs EXCEPT ![t] = Idle]
        BY <1>1, <2>1, <2>2, <2>5, <2>9 DEF UpdateVersions, Continue
      <3>2. t \in Busy(id) /\ jobs'[t] = Idle
        BY <2>1, <3>1 DEF Busy
      <3>3. \E used : rows'[id] = [rows[id] EXCEPT !.versions = jobs[t].versions, !.used = used]
        BY <1>1, <2>1, <2>5, <2>9, <3>1 DEF UpdateVersions
      <3>4. rows'[id].versions = jobs[t].versions
        BY <2>2, <3>3 DEF Row
      <3>5. jobs[t].base[i].status = "deprecated" => jobs[t].versions[i].status = "deprecated"
        BY <2>1, <2>3, <3>1, <3>2 DEF VersionsFit
      <3> QED
        BY <1>1, <3>1, <3>2, <3>4, <3>5
    <2> QED
      BY <2>4, <2>6, <2>7, <2>8, <2>9
  <1>2. ASSUME OnboardingInv, [Next]_vars
        PROVE  \A id \in Ids : \A i \in 1..Len(SeedVersions) :
                  Undone(id, i) => ResetSeeds \/ Unseen(id, i)
    <2> HIDE DEF Undone, Unseen
    <2> QED
      BY <1>1, <1>2
  <1>3. OnboardingInv /\ [Next]_vars =>
          [\A id \in Ids : \A i \in 1..Len(SeedVersions) :
             (/\ rows[id] # NoRow /\ rows'[id] # NoRow /\ i \in DOMAIN rows[id].versions
              /\ rows[id].versions[i].status = "deprecated"
              /\ rows'[id].versions[i].status # "deprecated")
             => \/ ResetSeeds
                \/ \E t \in Busy(id) : /\ jobs[t].op = "update" /\ jobs'[t] = Idle
                                        /\ jobs[t].base[i].status # "deprecated"]_vars
    BY <1>2
  <1> QED
    BY <1>3, OnboardingInvariant, PTL DEF Spec, DeprecationUndoneUnseen

-----------------------------------------------------------------------------
(* Executions and statistics: what the figures count.                      *)

\* Places of a sequence are counted in natural numbers, and of two sets of them the
\* smaller one to at most as much.
LEMMA PlacesCount ==
  ASSUME NEW X, NEW xs \in Seq(X), NEW A \in SUBSET DOMAIN xs, NEW B \in SUBSET A
  PROVE  /\ Cardinality(A) \in Nat /\ Cardinality(B) \in Nat
         /\ Cardinality(B) <= Cardinality(A)
         /\ Cardinality(DOMAIN xs) = Len(xs)
  <1>1. DOMAIN xs = 1..Len(xs) /\ Len(xs) \in Nat
    OBVIOUS
  <1>2. IsFiniteSet(1..Len(xs)) /\ Cardinality(1..Len(xs)) = Len(xs)
    <2>1. ASSUME NEW n \in Nat PROVE IsFiniteSet(1..n) /\ Cardinality(1..n) = n
      BY FS_Interval
    <2> QED
      BY <1>1, <2>1
  <1>3. IsFiniteSet(A)
    BY <1>1, <1>2, FS_Subset
  <1>4. IsFiniteSet(B) /\ Cardinality(B) <= Cardinality(A)
    BY <1>3, FS_Subset
  <1> QED
    BY <1>1, <1>2, <1>3, <1>4, FS_CardinalityType

LEMMA CountType ==
  ASSUME NEW X, NEW xs \in Seq(X), NEW days, NEW statuses
  PROVE  Count(xs, days, statuses) \in Nat
  <1> DEFINE A == {i \in DOMAIN xs : xs[i].day \in days /\ xs[i].status \in statuses}
  <1>1. A \in SUBSET DOMAIN xs
    OBVIOUS
  <1> HIDE DEF A
  <1>2. Cardinality(A) \in Nat
    BY <1>1, PlacesCount
  <1> QED
    BY <1>2 DEF Count, A

\* Every execution has a day and a status.
LEMMA CountOfAll ==
  ASSUME NEW xs \in Seq(Execution)
  PROVE  Count(xs, Day, Statuses) = Len(xs)
  <1>1. \A i \in DOMAIN xs : xs[i] \in Execution
    OBVIOUS
  <1>2. {i \in DOMAIN xs : xs[i].day \in Day /\ xs[i].status \in Statuses} = DOMAIN xs
    BY <1>1 DEF Execution
  <1>3. Cardinality(DOMAIN xs) = Len(xs)
    BY PlacesCount
  <1> QED
    BY <1>2, <1>3 DEF Count

LEMMA TokensType ==
  ASSUME NEW xs \in Seq(Execution)
  PROVE  TokensOf(xs) \in Nat
  <1> DEFINE f == [i \in DOMAIN xs |-> xs[i].tokens]
             S == DOMAIN xs
  <1>1. DOMAIN xs = 1..Len(xs)
    OBVIOUS
  <1>2. IsFiniteSet(S)
    BY <1>1, FS_Interval
  <1>3. \A i \in DOMAIN xs : xs[i] \in Execution
    OBVIOUS
  <1>4. \A i \in S : f[i] \in Nat
    BY <1>3 DEF Execution
  <1>5. 0 \in Nat /\ \A a, b \in Nat : a + b \in Nat
    OBVIOUS
  <1> HIDE DEF f, S
  <1>6. SumFunctionOnSet(f, S) \in Nat
    BY <1>2, <1>4, <1>5, SumType
  <1> QED
    BY <1>6 DEF TokensOf, f, S

LEMMA TokensOfNone == TokensOf(<<>>) = 0
  <1>1. DOMAIN <<>> = {}
    OBVIOUS
  <1> DEFINE f == [i \in DOMAIN <<>> |-> <<>>[i].tokens]
  <1>2. SumFunctionOnSet(f, {}) = 0
    <2> HIDE DEF f
    <2> QED
      BY SumStep
  <1> QED
    BY <1>1, <1>2 DEF TokensOf

LEMMA CountOfNone ==
  ASSUME NEW days, NEW statuses
  PROVE  Count(<<>>, days, statuses) = 0
  <1>1. {i \in DOMAIN <<>> : <<>>[i].day \in days /\ <<>>[i].status \in statuses} = {}
    OBVIOUS
  <1> QED
    BY <1>1, FS_EmptySet DEF Count

LEMMA FiguresType ==
  ASSUME NEW xs \in Seq(Execution), NEW d \in Day
  PROVE  Recalculated(xs, d) \in Figures
  <1>1. /\ Count(xs, Day, {"ok"}) \in Nat /\ Count(xs, {d}, Statuses) \in Nat
        /\ Count(xs, {d - 1}, Statuses) \in Nat /\ TokensOf(xs) \in Nat /\ Len(xs) \in Nat
    BY CountType, TokensType
  <1>2. /\ Baseline.tokens \in Nat /\ Baseline.tasks \in Nat /\ Baseline.ok \in Nat
    BY ExecutionsAssumption
  <1> QED
    BY <1>1, <1>2 DEF Recalculated, Figures

-----------------------------------------------------------------------------
(* The chart.                                                              *)

\* A chart in the order of days, none of them after d.
Chronological(entries, d) ==
  /\ \A i, k \in DOMAIN entries : i < k => entries[i].day < entries[k].day
  /\ \A i \in DOMAIN entries : entries[i].day <= d

\* What is left of a chart are its last entries.
LEMMA TrimKeepsLast ==
  ASSUME NEW entries \in Seq(Entry), entries # <<>>
  PROVE  /\ Trim(entries) \in Seq(Entry) /\ Trim(entries) # <<>>
         /\ Len(Trim(entries)) <= KeepDays
         /\ \E n \in Nat : \A i \in DOMAIN Trim(entries) :
               i + n \in DOMAIN entries /\ Trim(entries)[i] = entries[i + n]
  <1>1. KeepDays \in Nat \ {0} /\ Len(entries) \in Nat \ {0}
    BY ExecutionsAssumption
  <1>2. CASE Len(entries) > KeepDays
    <2> DEFINE n == Len(entries) - KeepDays
               s == SubSeq(entries, n + 1, Len(entries))
    <2>1. n \in Nat /\ n + 1 \in 1..Len(entries) /\ Len(entries) - (n + 1) + 1 = KeepDays
      BY <1>1, <1>2
    <2>2. s \in Seq(Entry) /\ Len(s) = KeepDays /\ \A i \in 1..KeepDays : s[i] = entries[n + 1 + i - 1]
      BY <1>1, <2>1
    <2>3. \A i \in DOMAIN s : i + n \in DOMAIN entries /\ s[i] = entries[i + n]
      BY <1>1, <2>1, <2>2
    <2>4. Trim(entries) = s
      BY <1>2 DEF Trim
    <2> HIDE DEF s, n
    <2>5. s # <<>> /\ Len(s) <= KeepDays
      BY <1>1, <2>2
    <2> QED
      BY <2>1, <2>2, <2>3, <2>4, <2>5
  <1>3. CASE ~(Len(entries) > KeepDays)
    <2>1. Trim(entries) = entries
      BY <1>3 DEF Trim
    <2>2. PICK n \in Nat : n = 0
      OBVIOUS
    <2>3. \A i \in DOMAIN entries : i + n \in DOMAIN entries /\ entries[i] = entries[i + n]
      BY <2>2
    <2>4. Len(entries) <= KeepDays
      BY <1>1, <1>3
    <2> QED
      BY <2>1, <2>3, <2>4, Zenon
  <1> QED
    BY <1>2, <1>3

\* A chart that a recording on day d made of another: in order, with the count of the day
\* in its entry, and its other entries as they were.
Extends(new, entries, xs, d) ==
  /\ new \in Seq(Entry) /\ new # <<>> /\ Len(new) <= KeepDays
  /\ Chronological(new, d)
  /\ \A i \in DOMAIN new :
        \/ /\ new[i].day = d
           /\ new[i].ok >= Count(xs, {d}, {"ok"}) /\ new[i].failed >= Count(xs, {d}, {"error"})
        \/ /\ new[i].day # d
           /\ \E k \in DOMAIN entries : new[i] = entries[k]

\* Such is the chart that _recalc_stats leaves.
LEMMA ExtendedInOrder ==
  ASSUME NEW entries \in Seq(Entry), entries # <<>>, NEW xs \in Seq(Execution), NEW d \in Day,
         Chronological(entries, d)
  PROVE  Extends(Extended(entries, xs, d), entries, xs, d)
  <1> DEFINE ok     == Count(xs, {d}, {"ok"})
             failed == Count(xs, {d}, {"error"})
             n      == Len(entries)
             more   == [entries[n] EXCEPT !.ok = @ + ok, !.failed = @ + failed]
             fresh  == [day |-> d, ok |-> ok, failed |-> failed]
             whole  == IF entries[n].day = d THEN [entries EXCEPT ![n] = more]
                       ELSE Append(entries, fresh)
             Fine(e) == \/ e.day = d /\ e.ok >= ok /\ e.failed >= failed
                        \/ e.day # d /\ \E k \in DOMAIN entries : e = entries[k]
  <1>1. ok \in Nat /\ failed \in Nat
    BY CountType
  <1>2. Extended(entries, xs, d) = Trim(whole)
    <2>1. [entries EXCEPT ![n].ok = @ + ok, ![n].failed = @ + failed] = [entries EXCEPT ![n] = more]
      OBVIOUS
    <2> QED
      BY <2>1 DEF Extended
  <1> HIDE DEF ok, failed
  <1>3. n \in Nat /\ n \in 1..n /\ DOMAIN entries = 1..n /\ d \in Int
    BY ExecutionsAssumption DEF Day
  <1>4. \A i \in 1..n : entries[i] \in Entry /\ entries[i].day \in Int
    <2>1. \A i \in 1..n : entries[i] \in Entry
      BY <1>3
    <2>2. \A e \in Entry : e.day \in Int
      BY ExecutionsAssumption DEF Entry, Day
    <2> QED
      BY <2>1, <2>2
  <1>5. fresh \in Entry /\ fresh.day = d /\ Fine(fresh)
    BY <1>1 DEF Entry
  <1>6. more \in Entry /\ more.day = entries[n].day /\ more.ok >= ok /\ more.failed >= failed
    <2> DEFINE e == entries[n]
    <2>1. e \in Entry
      BY <1>3, <1>4
    <2>2. e.ok \in Nat /\ e.failed \in Nat
      BY <2>1 DEF Entry
    <2>3. more = [e EXCEPT !.ok = e.ok + ok, !.failed = e.failed + failed]
      OBVIOUS
    <2> HIDE DEF e, more
    <2>4. more = [day |-> e.day, ok |-> e.ok + ok, failed |-> e.failed + failed]
      BY <2>1, <2>3 DEF Entry
    <2>5. more \in Entry /\ more.day = e.day /\ more.ok = e.ok + ok /\ more.failed = e.failed + failed
      BY <1>1, <2>1, <2>2, <2>4 DEF Entry
    <2>6. more.ok >= ok /\ more.failed >= failed
      BY <1>1, <2>2, <2>5
    <2> QED
      BY <2>5, <2>6 DEF e
  <1> HIDE DEF more, fresh
  <1>7. /\ whole \in Seq(Entry) /\ whole # <<>>
        /\ Chronological(whole, d) /\ \A i \in DOMAIN whole : Fine(whole[i])
    <2>1. CASE entries[n].day = d
      <3>1. /\ whole \in Seq(Entry) /\ Len(whole) = n /\ DOMAIN whole = 1..n
            /\ \A i \in 1..n : whole[i] = IF i = n THEN more ELSE entries[i]
        BY <1>3, <1>6, <2>1
      <3> HIDE DEF whole
      <3>2. \A i \in 1..n : whole[i].day = entries[i].day
        BY <1>6, <3>1
      <3>3. Chronological(whole, d)
        BY <1>3, <3>1, <3>2 DEF Chronological
      <3>4. \A i \in 1..n : i # n => entries[i].day # d
        <4>1. \A i \in 1..n : i # n => entries[i].day < entries[n].day
          <5> HIDE DEF n
          <5> QED
            BY <1>3, <1>4 DEF Chronological
        <4> HIDE DEF n
        <4> QED
          BY <1>3, <1>4, <2>1, <4>1
      <3>5. \A i \in DOMAIN whole : Fine(whole[i])
        BY <1>3, <1>6, <2>1, <3>1, <3>4
      <3>6. whole # <<>>
        <4> HIDE DEF n
        <4>1. n # 0
          BY <1>3
        <4>2. Len(whole) # 0
          BY <3>1, <4>1
        <4> QED
          BY <4>2
      <3> QED
        BY <3>1, <3>3, <3>5, <3>6
    <2>2. CASE entries[n].day # d
      <3>1. /\ whole \in Seq(Entry) /\ Len(whole) = n + 1 /\ DOMAIN whole = 1..(n + 1)
            /\ \A i \in 1..n : whole[i] = entries[i]
            /\ whole[n + 1] = fresh
        BY <1>3, <1>5, <2>2
      <3> HIDE DEF whole
      <3>2. \A i \in 1..n : entries[i].day < d
        <4>1. entries[n].day < d
          BY <1>3, <1>4, <2>2 DEF Chronological
        <4> QED
          BY <1>3, <1>4, <4>1 DEF Chronological
      <3>3. Chronological(whole, d)
        <4>1. ASSUME NEW i \in 1..(n + 1), NEW k \in 1..(n + 1), i < k
              PROVE  whole[i].day < whole[k].day
          <5>1. CASE k = n + 1
            BY <1>3, <1>5, <3>1, <3>2, <4>1, <5>1
          <5>2. CASE k # n + 1
            <6> HIDE DEF n
            <6>1. i \in 1..n /\ k \in 1..n
              BY <1>3, <4>1, <5>2
            <6>2. whole[i] = entries[i] /\ whole[k] = entries[k]
              BY <3>1, <6>1
            <6>3. entries[i].day < entries[k].day
              BY <1>3, <4>1, <6>1 DEF Chronological
            <6> QED
              BY <6>2, <6>3
          <5> QED
            BY <5>1, <5>2
        <4>2. \A i \in 1..(n + 1) : whole[i].day <= d
          BY <1>3, <1>4, <1>5, <3>1, <3>2
        <4> QED
          BY <3>1, <4>1, <4>2 DEF Chronological
      <3>4. \A i \in 1..n : Fine(entries[i])
        BY <1>3, <1>4, <3>2
      <3>5. \A i \in DOMAIN whole : Fine(whole[i])
        <4> HIDE DEF Fine
        <4> QED
          BY <1>3, <1>5, <3>1, <3>4
      <3> QED
        BY <1>3, <3>1, <3>3, <3>5
    <2> QED
      BY <2>1, <2>2
  <1> HIDE DEF whole, Fine
  <1>8. /\ Trim(whole) \in Seq(Entry) /\ Trim(whole) # <<>> /\ Len(Trim(whole)) <= KeepDays
    BY <1>7, TrimKeepsLast
  <1>9. PICK m \in Nat : \A i \in DOMAIN Trim(whole) :
            i + m \in DOMAIN whole /\ Trim(whole)[i] = whole[i + m]
    BY <1>7, TrimKeepsLast
  <1>10. DOMAIN Trim(whole) \subseteq Nat
    BY <1>8
  <1>11. Chronological(Trim(whole), d)
    <2>1. ASSUME NEW i \in DOMAIN Trim(whole), NEW k \in DOMAIN Trim(whole), i < k
          PROVE  Trim(whole)[i].day < Trim(whole)[k].day
      <3>1. i + m < k + m
        BY <1>10, <2>1
      <3> QED
        BY <1>7, <1>9, <3>1 DEF Chronological
    <2> QED
      BY <1>7, <1>9, <2>1 DEF Chronological
  <1>12. \A i \in DOMAIN Trim(whole) : Fine(Trim(whole)[i])
    BY <1>7, <1>9
  <1> QED
    BY <1>2, <1>8, <1>11, <1>12 DEF Extends, Fine, ok, failed

\* A recording on one day leaves the executions of another that were recorded on it.
LEMMA OnTheDayGrows ==
  ASSUME executions \in Seq(Execution), recordedOn \in Seq(Day), Len(recordedOn) = Len(executions),
         NEW x \in Execution, NEW d \in Day,
         executions' = Append(executions, x), recordedOn' = Append(recordedOn, d),
         NEW e, NEW statuses
  PROVE  /\ e # d => OnTheDay(e, statuses)' = OnTheDay(e, statuses)
         /\ OnTheDay(e, statuses)' <= Count(executions', {e}, statuses)
         /\ OnTheDay(e, statuses)' \in Nat
  <1> DEFINE n == Len(executions)
             old == {i \in DOMAIN executions : /\ executions[i].day = e /\ recordedOn[i] = e
                                               /\ executions[i].status \in statuses}
             new == {i \in DOMAIN executions' : /\ executions'[i].day = e /\ recordedOn'[i] = e
                                                /\ executions'[i].status \in statuses}
             all == {i \in DOMAIN executions' : /\ executions'[i].day \in {e}
                                                /\ executions'[i].status \in statuses}
  <1>1. /\ executions' \in Seq(Execution) /\ n \in Nat
        /\ DOMAIN executions = 1..n /\ DOMAIN executions' = 1..(n + 1)
        /\ \A i \in 1..n : executions'[i] = executions[i] /\ recordedOn'[i] = recordedOn[i]
        /\ recordedOn'[n + 1] = d
    OBVIOUS
  <1>2. e # d => new = old
    <2> HIDE DEF n
    <2>1. \A i \in 1..(n + 1) : i \in 1..n \/ i = n + 1
      BY <1>1
    <2>2. 1..n \subseteq 1..(n + 1)
      BY <1>1
    <2> QED
      BY <1>1, <2>1, <2>2
  <1>3. new \subseteq all /\ all \subseteq DOMAIN executions'
    OBVIOUS
  <1>4. OnTheDay(e, statuses)' = Cardinality(new) /\ OnTheDay(e, statuses) = Cardinality(old)
    BY DEF OnTheDay
  <1>5. Count(executions', {e}, statuses) = Cardinality(all)
    BY DEF Count
  <1> HIDE DEF new, old, all, n
  <1>6. Cardinality(new) \in Nat /\ Cardinality(new) <= Cardinality(all)
    BY <1>1, <1>3, PlacesCount
  <1> QED
    BY <1>2, <1>4, <1>5, <1>6

-----------------------------------------------------------------------------
(* The steps.                                                              *)

LEMMA ExecutionsInitInv == ExecutionsInit => ExecutionsInv
  <1> SUFFICES ASSUME ExecutionsInit PROVE ExecutionsInv
    OBVIOUS
  <1> USE DEF ExecutionsInit
  <1>1. ExecutionsTypeOK
    <2>1. [tokens |-> Baseline.tokens, tasks |-> Baseline.tasks, ok |-> Baseline.ok,
           today |-> 0, yesterday |-> 0] \in Figures
      BY ExecutionsAssumption DEF Figures
    <2>2. today \in Day
      BY ExecutionsAssumption DEF Day
    <2> QED
      BY <2>1, <2>2, SeedAssumption DEF ExecutionsTypeOK
  <1>2. FiguresAgree
    BY TokensOfNone, CountOfNone, ExecutionsAssumption DEF FiguresAgree, JournalTotal
  <1>3. ASSUME NEW d, NEW statuses PROVE OnTheDay(d, statuses) = 0
    <2>1. {i \in DOMAIN executions : /\ executions[i].day = d /\ recordedOn[i] = d
                                     /\ executions[i].status \in statuses} = {}
      OBVIOUS
    <2> QED
      BY <2>1, FS_EmptySet DEF OnTheDay
  <1>4. ChartCountsEnough
    <2>1. \A i \in DOMAIN detail : detail[i].ok \in Nat /\ detail[i].failed \in Nat /\ detail[i].day \in Int
      <3>1. \A i \in DOMAIN detail : detail[i] \in Entry
        BY SeedAssumption
      <3>2. \A e \in Entry : e.ok \in Nat /\ e.failed \in Nat /\ e.day \in Int
        BY ExecutionsAssumption DEF Entry, Day
      <3> QED
        BY <3>1, <3>2
    <2>2. ChartIsChronological
      BY <2>1, SeedAssumption DEF ChartIsChronological
    <2>3. \A i \in DOMAIN detail : /\ OnTheDay(detail[i].day, {"ok"}) = 0
                                   /\ OnTheDay(detail[i].day, {"error"}) = 0
      BY <1>3
    <2> QED
      BY <2>1, <2>2, <2>3 DEF ChartCountsEnough
  <1> QED
    BY <1>1, <1>2, <1>4, SeedAssumption DEF ExecutionsInv

\* A step that records nothing.
LEMMA UnrecordedKeeps ==
  ASSUME ExecutionsInv, UNCHANGED <<executions, figures, detail, recordedOn>>,
         today' \in Day, today' >= today, present' \subseteq Blueprints,
         runs' \in [Runners -> Run \cup {NoRun}], unrecorded' \in [timedOut : Nat, lost : Nat]
  PROVE  ExecutionsInv'
  <1>1. ExecutionsTypeOK'
    BY DEF ExecutionsInv, ExecutionsTypeOK
  <1>2. FiguresAgree'
    BY DEF ExecutionsInv, FiguresAgree, JournalTotal
  <1>3. ChartIsChronological'
    <2>1. \A i \in DOMAIN detail : detail[i] \in Entry /\ today \in Day
      BY DEF ExecutionsInv, ExecutionsTypeOK
    <2>2. \A i \in DOMAIN detail : detail[i].day \in Int /\ today \in Int /\ today' \in Int
      BY <2>1, ExecutionsAssumption DEF Entry, Day
    <2> QED
      BY <2>2 DEF ExecutionsInv, ChartCountsEnough, ChartIsChronological
  <1>4. \A d, statuses : OnTheDay(d, statuses)' = OnTheDay(d, statuses)
    BY DEF OnTheDay
  <1>5. ChartCountsEnough'
    BY <1>3, <1>4 DEF ExecutionsInv, ChartCountsEnough
  <1> QED
    BY <1>1, <1>2, <1>5 DEF ExecutionsInv

\* record_execution: every figure is counted anew and the entry of today is extended.
LEMMA RecordKeeps ==
  ASSUME ExecutionsInv, NEW t \in Runners, Record(t)
  PROVE  ExecutionsInv'
  <1> DEFINE x  == [blueprint |-> runs[t].blueprint, status |-> runs[t].result.status,
                    tokens |-> runs[t].result.tokens, day |-> runs[t].day]
             xs == Append(executions, x)
  <1>1. /\ runs[t] # NoRun /\ runs[t].pc = "stamped"
        /\ executions' = xs /\ figures' = Recalculated(xs, today)
        /\ detail' = Extended(detail, xs, today)
        /\ recordedOn' = Append(recordedOn, today) /\ runs' = [runs EXCEPT ![t] = NoRun]
        /\ UNCHANGED <<present, today, unrecorded>>
    BY DEF Record
  <1>2. /\ runs \in [Runners -> Run \cup {NoRun}] /\ executions \in Seq(Execution)
        /\ detail \in Seq(Entry) /\ today \in Day /\ recordedOn \in Seq(Day) /\ detail # <<>>
        /\ Len(recordedOn) = Len(executions)
    BY DEF ExecutionsInv, ExecutionsTypeOK
  <1>3. x \in Execution
    <2>1. runs[t] \in [pc : {"stamped"}, blueprint : Blueprints, result : Result, day : Day]
      BY <1>1, <1>2 DEF Run
    <2>2. runs[t].result \in Result
      BY <2>1
    <2>3. \A r \in Result : r.status \in Statuses /\ r.tokens \in Nat
      <3>1. Tokens \cup {0} \subseteq Nat
        BY ExecutionsAssumption
      <3>2. \A r \in Result : r.status \in Statuses /\ r.tokens \in Tokens \cup {0}
        BY DEF Result
      <3> QED
        BY <3>1, <3>2
    <2> QED
      BY <2>1, <2>2, <2>3 DEF Execution
  <1> HIDE DEF x
  <1>4. xs \in Seq(Execution) /\ Len(xs) = Len(executions) + 1
    BY <1>2, <1>3
  <1>5. Chronological(detail, today)
    BY DEF ExecutionsInv, ChartCountsEnough, ChartIsChronological, Chronological
  <1>6. recordedOn' \in Seq(Day) /\ Len(recordedOn') = Len(recordedOn) + 1
        /\ recordedOn'[Len(recordedOn')] = today /\ recordedOn' # <<>>
    BY <1>1, <1>2
  <1> HIDE DEF xs
  <1>7. Extends(detail', detail, xs, today)
    BY <1>1, <1>2, <1>4, <1>5, ExtendedInOrder
  <1>8. figures' \in Figures
    BY <1>1, <1>2, <1>4, FiguresType
  <1>9. runs' \in [Runners -> Run \cup {NoRun}]
    BY <1>1, <1>2
  <1>10. ExecutionsTypeOK'
    BY <1>1, <1>4, <1>6, <1>7, <1>8, <1>9 DEF ExecutionsInv, ExecutionsTypeOK, Extends
  <1>11. FiguresAgree'
    <2>1. JournalTotal(Statuses)' = Len(xs)
      BY <1>1, <1>4, CountOfAll DEF JournalTotal
    <2>2. JournalTotal({"ok"})' = Count(xs, Day, {"ok"})
      BY <1>1 DEF JournalTotal
    <2>3. /\ figures'.tasks = Baseline.tasks + Len(xs)
          /\ figures'.ok = Baseline.ok + Count(xs, Day, {"ok"})
          /\ figures'.tokens = Baseline.tokens + TokensOf(xs)
          /\ figures'.today = Count(xs, {today}, Statuses)
          /\ figures'.yesterday = Count(xs, {today - 1}, Statuses)
      BY <1>1 DEF Recalculated
    <2> QED
      BY <1>1, <1>6, <2>1, <2>2, <2>3 DEF FiguresAgree
  <1>12. ChartIsChronological'
    BY <1>1, <1>7 DEF ChartIsChronological, Chronological, Extends
  <1>13. ASSUME NEW i \in DOMAIN detail', detail'[i].day > 0
         PROVE  /\ detail'[i].ok >= OnTheDay(detail[i].day, {"ok"})'
                /\ detail'[i].failed >= OnTheDay(detail[i].day, {"error"})'
    <2>1. PICK e : e = detail'[i]
      OBVIOUS
    <2>2. PICK d : d = e.day
      OBVIOUS
    <2>3. e \in Entry
      BY <1>7, <2>1 DEF Extends
    <2>4. e.ok \in Nat /\ e.failed \in Nat
      BY <2>3 DEF Entry
    <2>5. \A statuses : /\ d # today => OnTheDay(d, statuses)' = OnTheDay(d, statuses)
                        /\ OnTheDay(d, statuses)' <= Count(xs, {d}, statuses)
                        /\ OnTheDay(d, statuses)' \in Nat
      BY <1>1, <1>2, <1>3, OnTheDayGrows DEF xs
    <2>6. \A statuses : Count(xs, {d}, statuses) \in Nat
      BY <1>4, CountType
    <2>7. e.ok >= OnTheDay(d, {"ok"})' /\ e.failed >= OnTheDay(d, {"error"})'
      <3>1. CASE d = today
        <4>1. e.ok >= Count(xs, {d}, {"ok"}) /\ e.failed >= Count(xs, {d}, {"error"})
          BY <1>7, <2>1, <2>2, <3>1 DEF Extends
        <4> QED
          BY <2>4, <2>5, <2>6, <4>1
      <3>2. CASE d # today
        <4>1. PICK k \in DOMAIN detail : e = detail[k]
          BY <1>7, <2>1, <2>2, <3>2 DEF Extends
        <4>2. detail[k].day > 0
          BY <1>13, <2>1, <4>1
        <4>3. e.ok >= OnTheDay(d, {"ok"}) /\ e.failed >= OnTheDay(d, {"error"})
          BY <2>2, <4>1, <4>2 DEF ExecutionsInv, ChartCountsEnough
        <4> QED
          BY <2>5, <3>2, <4>3
      <3> QED
        BY <3>1, <3>2
    <2>8. \A statuses : OnTheDay(detail[i].day, statuses)' = OnTheDay(d, statuses)'
      BY <2>1, <2>2 DEF OnTheDay
    <2> QED
      BY <2>1, <2>7, <2>8
  <1>14. ChartCountsEnough'
    BY <1>12, <1>13 DEF ChartCountsEnough
  <1>15. Len(recordedOn') = Len(executions')
    BY <1>1, <1>2, <1>4, <1>6
  <1> QED
    BY <1>7, <1>10, <1>11, <1>14, <1>15 DEF ExecutionsInv, Extends

\* The other steps of a request, the clock and the end of the service.
LEMMA ExecutionsNextInv == ExecutionsInv /\ [ExecutionsNext]_executionsVars => ExecutionsInv'
  <1> SUFFICES ASSUME ExecutionsInv, [ExecutionsNext]_executionsVars PROVE ExecutionsInv'
    OBVIOUS
  <1>1. /\ runs \in [Runners -> Run \cup {NoRun}] /\ today \in Day /\ present \subseteq Blueprints
        /\ unrecorded \in [timedOut : Nat, lost : Nat]
    BY DEF ExecutionsInv, ExecutionsTypeOK
  <1>2. today \in Int /\ MaxDay \in Int /\ 1 - KeepDays \in Int
    BY <1>1, ExecutionsAssumption DEF Day
  <1>3. CASE Midnight
    <2>1. today' \in Day /\ today' >= today
      BY <1>1, <1>2, <1>3 DEF Midnight, Day
    <2> QED
      BY <1>1, <1>3, <2>1, UnrecordedKeeps DEF Midnight
  <1>4. CASE ServiceStops
    <2> DEFINE open == {t \in Runners : runs[t] # NoRun}
    <2>1. Cardinality(open) \in Nat
      BY ExecutionsAssumption, FS_Subset, FS_CardinalityType
    <2>2. unrecorded' = [unrecorded EXCEPT !.lost = @ + Cardinality(open)]
      BY <1>4 DEF ServiceStops
    <2> HIDE DEF open
    <2>3. unrecorded' \in [timedOut : Nat, lost : Nat]
      BY <1>1, <2>1, <2>2
    <2>4. runs' \in [Runners -> Run \cup {NoRun}]
      BY <1>4 DEF ServiceStops
    <2> QED
      BY <1>1, <1>2, <1>4, <2>3, <2>4, UnrecordedKeeps DEF ServiceStops
  <1>5. ASSUME NEW b \in Blueprints, DeleteBlueprint(b) PROVE ExecutionsInv'
    BY <1>1, <1>2, <1>5, UnrecordedKeeps DEF DeleteBlueprint
  <1>6. ASSUME NEW t \in Runners, NEW b \in Blueprints, LookUp(t, b) PROVE ExecutionsInv'
    <2>1. [pc |-> "lookedup", blueprint |-> b] \in Run
      BY DEF Run
    <2>2. runs' \in [Runners -> Run \cup {NoRun}]
      BY <1>1, <1>6, <2>1 DEF LookUp
    <2> QED
      BY <1>1, <1>2, <1>6, <2>2, UnrecordedKeeps DEF LookUp
  <1>7. ASSUME NEW t \in Runners, NEW r \in Result, AgentEnds(t, r) PROVE ExecutionsInv'
    <2>1. runs[t] \in Run
      BY <1>1, <1>7 DEF AgentEnds
    <2>2. [pc |-> "stamped", blueprint |-> runs[t].blueprint, result |-> r, day |-> today] \in Run
      BY <1>1, <2>1 DEF Run
    <2>3. runs' \in [Runners -> Run \cup {NoRun}]
      BY <1>1, <1>7, <2>2 DEF AgentEnds
    <2> QED
      BY <1>1, <1>2, <1>7, <2>3, UnrecordedKeeps DEF AgentEnds
  <1>8. ASSUME NEW t \in Runners, Record(t) PROVE ExecutionsInv'
    BY <1>8, RecordKeeps
  <1>9. ASSUME NEW t \in Runners, LockTimesOut(t) PROVE ExecutionsInv'
    <2>1. runs' \in [Runners -> Run \cup {NoRun}]
      BY <1>1, <1>9 DEF LockTimesOut
    <2>2. unrecorded' \in [timedOut : Nat, lost : Nat]
      BY <1>1, <1>9 DEF LockTimesOut
    <2> QED
      BY <1>1, <1>2, <1>9, <2>1, <2>2, UnrecordedKeeps DEF LockTimesOut
  <1>10. CASE UNCHANGED executionsVars
    BY <1>1, <1>2, <1>10, UnrecordedKeeps DEF executionsVars
  <1> QED
    BY <1>3, <1>4, <1>5, <1>6, <1>7, <1>8, <1>9, <1>10 DEF ExecutionsNext

\* The invariant holds in every behaviour.
THEOREM ExecutionsInvariant == ExecutionsSpec => []ExecutionsInv
  BY ExecutionsInitInv, ExecutionsNextInv, PTL DEF ExecutionsSpec

\* The dashboard shows what the journal counts over the baseline, whatever order requests
\* are recorded in, whichever of them fail and however often the service stops.
THEOREM DashboardAgrees == ExecutionsSpec => []FiguresAgree
  <1>1. ExecutionsInv => FiguresAgree
    BY DEF ExecutionsInv
  <1> QED
    BY <1>1, ExecutionsInvariant, PTL

\* The chart stays in the order of days and counts every execution that is recorded on the
\* day of its stamp.
THEOREM ChartCountsAll == ExecutionsSpec => []ChartCountsEnough
  <1>1. ExecutionsInv => ChartCountsEnough
    BY DEF ExecutionsInv
  <1> QED
    BY <1>1, ExecutionsInvariant, PTL
=============================================================================
