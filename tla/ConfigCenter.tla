---------------------------- MODULE ConfigCenter ----------------------------
(***************************************************************************)
(* The configuration centre: apps/config_center/store.py, push.py and the  *)
(* handlers of main.py, with the services that subscribe to it.            *)
(*                                                                         *)
(* Every handler runs on one event loop and has no await, so it is one     *)
(* step.  A push is not: publish and delete leave it to a background task, *)
(* which carries the item as it was, and while push_sync calls the         *)
(* subscribers one after the other it blocks the event loop, rollback's    *)
(* own push included, so that no request is served meanwhile, a request    *)
(* that a subscriber makes from its callback included.                     *)
(***************************************************************************)
EXTENDS Naturals, Sequences, FiniteSets

CONSTANTS
    Namespaces, Names,
    Values, NoValue,     \* JSON values; NoValue is Python's None
    Services, NoService, \* the services that may subscribe
    Tasks, NoJob,        \* bound: background tasks that wait at a time
    NoItem, NotSubscribed,
    Seed,                \* seed_defaults: the values of the keys it creates
    MaxChanges           \* bound: entries of a key in the audit trail

Keys == Namespaces \X Names

VARIABLES
    namespaces,  \* _namespaces
    items,       \* _items
    versions,    \* _versions
    changes,     \* _changes, the audit trail, by key and oldest first
    subs,        \* _subscribers: the namespaces each asks for, {} for all
    notified,    \* last_notified_at and last_success_at: how the last call went
    tasks,       \* background tasks that have yet to push
    pushing,     \* the item push_sync is pushing, NoJob when the loop is free
    todo,        \* the subscribers it has yet to call
    pulling,     \* the one of them whose callback waits for an answer of ours
    views        \* views[s][k]: what service s has last been told of k

store == <<namespaces, items, versions, changes>>
push  == <<pushing, todo, pulling>>
vars  == <<store, subs, notified, tasks, push, views>>

JSON == Values \cup {NoValue}

Item == [value : JSON, status : {"draft", "published", "deprecated"},
         version : Nat \ {0}]

ChangeType == {"created", "updated", "published", "deleted", "rolled_back"}

ConfigVersion == [version : Nat \ {0}, value : JSON,
                  status : {"draft", "published", "deprecated"},
                  type : ChangeType \ {"deleted"}]

ConfigChange == [version : Nat \ {0}, type : ChangeType,
                 old : JSON, new : JSON]

Job == [key : Keys, item : Item]

ASSUME ConfigAssumption ==
    /\ NoValue \notin Values
    /\ NoService \notin Services
    /\ NoItem \notin Item
    /\ NoJob \notin Job
    /\ \A ns \in SUBSET Namespaces : ns # NotSubscribed
    /\ DOMAIN Seed \subseteq Keys
    /\ \A k \in DOMAIN Seed : Seed[k] \in Values
    /\ MaxChanges \in [Keys -> Nat]

TypeOK ==
    /\ namespaces \in SUBSET Namespaces
    /\ items \in [Keys -> Item \cup {NoItem}]
    /\ versions \in [Keys -> Seq(ConfigVersion)]
    /\ changes \in [Keys -> Seq(ConfigChange)]
    /\ subs \in [Services -> {NotSubscribed} \cup SUBSET Namespaces]
    /\ notified \in [Services -> {"never", "failed", "ok"}]
    /\ tasks \in [Tasks -> Job \cup {NoJob}]
    /\ pushing \in Job \cup {NoJob}
    /\ todo \in SUBSET Services
    /\ pulling \in Services \cup {NoService}
    /\ views \in [Services -> [Keys -> Item \cup {NoItem}]]

Snapshot(item, type) == [version |-> item.version, value |-> item.value,
                         status |-> item.status, type |-> type]

Change(item, type, old, new) ==
    [version |-> item.version, type |-> type, old |-> old, new |-> new]

\* seed_defaults creates and publishes each default.
SeedDraft(k) == [value |-> Seed[k], status |-> "draft", version |-> 1]
SeedItem(k)  == [value |-> Seed[k], status |-> "published", version |-> 1]

IfSeeded(k, x, otherwise) == IF k \in DOMAIN Seed THEN x ELSE otherwise

Init ==
    /\ namespaces = {k[1] : k \in DOMAIN Seed}
    /\ items = [k \in Keys |-> IfSeeded(k, SeedItem(k), NoItem)]
    /\ versions = [k \in Keys |->
           IfSeeded(k, <<Snapshot(SeedDraft(k), "created"),
                         Snapshot(SeedItem(k), "published")>>, <<>>)]
    /\ changes = [k \in Keys |->
           IfSeeded(k, <<Change(SeedDraft(k), "created", NoValue, Seed[k]),
                         Change(SeedItem(k), "published", NoValue, Seed[k])>>, <<>>)]
    /\ subs = [s \in Services |-> NotSubscribed]
    /\ notified = [s \in Services |-> "never"]
    /\ tasks = [t \in Tasks |-> NoJob]
    /\ pushing = NoJob
    /\ todo = {}
    /\ pulling = NoService
    /\ views = [s \in Services |-> [k \in Keys |-> NoItem]]

-----------------------------------------------------------------------------
(* The store. *)

\* The event loop serves requests and tasks only while no push blocks it.
Free == pushing = NoJob

\* Mutant of Record: "if old_value:" around the audit entry.
RecordUnaudited(k, item, type, old) ==
    /\ Len(changes[k]) < MaxChanges[k]
    /\ items' = [items EXCEPT ![k] = item]
    /\ versions' = [versions EXCEPT ![k] = Append(@, Snapshot(item, type))]
    /\ changes' = IF old = NoValue THEN changes
                  ELSE [changes EXCEPT ![k] = Append(@, Change(item, type, old, item.value))]

\* What set_item, publish_item and rollback_to_version have in common: the item
\* is replaced, and the version history and the audit trail each get an entry.
Record(k, item, type, old) ==
    /\ Len(changes[k]) < MaxChanges[k]
    /\ items' = [items EXCEPT ![k] = item]
    /\ versions' = [versions EXCEPT ![k] = Append(@, Snapshot(item, type))]
    /\ changes' = [changes EXCEPT ![k] = Append(@, Change(item, type, old, item.value))]

\* Mutant of SetItem: a draft is edited under the number that it has.
SetItemInPlace(k, v) ==
    IF items[k] = NoItem
    THEN Record(k, [value |-> v, status |-> "draft", version |-> 1],
                "created", NoValue)
    ELSE Record(k, [value |-> v, status |-> items[k].status,
                    version |-> items[k].version + (IF items[k].status = "draft" THEN 0 ELSE 1)],
                "updated", items[k].value)

\* set_item: a new item is a draft, an old one keeps its status.
SetItem(k, v) ==
    IF items[k] = NoItem
    THEN Record(k, [value |-> v, status |-> "draft", version |-> 1],
                "created", NoValue)
    ELSE Record(k, [value |-> v, status |-> items[k].status,
                    version |-> items[k].version + 1], "updated", items[k].value)

\* BackgroundTasks.add_task: the task carries the item as it is now.
AddTask(k, item) ==
    \E t \in Tasks :
        /\ tasks[t] = NoJob
        /\ tasks' = [tasks EXCEPT ![t] = [key |-> k, item |-> item]]

\* notify_subscribers: the subscriptions that cover the namespace of k.
Relevant(k) ==
    {s \in Services : /\ subs[s] # NotSubscribed
                      /\ subs[s] = {} \/ k[1] \in subs[s]}

StartPush(k, item) ==
    /\ pushing' = [key |-> k, item |-> item]
    /\ todo' = Relevant(k)
    /\ UNCHANGED pulling

-----------------------------------------------------------------------------
(* The handlers of main.py.  404 answers change nothing and are left out. *)

CreateNamespace(n) ==
    /\ Free
    /\ namespaces' = namespaces \cup {n}
    /\ UNCHANGED <<items, versions, changes, subs, notified, tasks, push, views>>

\* create_config sets the item before it finds out that it was there already,
\* and then answers 409.
CreateConfig(k, v) ==
    /\ Free
    /\ SetItem(k, v)
    /\ namespaces' = namespaces \cup {k[1]}
    /\ UNCHANGED <<subs, notified, tasks, push, views>>

\* update_config: a request without a value sets it to None.
UpdateConfig(k, v) ==
    /\ Free
    /\ items[k] # NoItem
    /\ SetItem(k, v)
    /\ UNCHANGED <<namespaces, subs, notified, tasks, push, views>>

\* Mutant of PublishConfig: publish_item, like deprecate_item, writes no version.
PublishUnversioned(k) ==
    /\ Free
    /\ items[k] # NoItem
    /\ Len(changes[k]) < MaxChanges[k]
    /\ LET item == [items[k] EXCEPT !.status = "published"] IN
           /\ items' = [items EXCEPT ![k] = item]
           /\ changes' = [changes EXCEPT ![k] =
                  Append(@, Change(item, "published", NoValue, item.value))]
           /\ AddTask(k, item)
    /\ UNCHANGED <<namespaces, versions, subs, notified, push, views>>

\* publish_config, of an item in any status.
PublishConfig(k) ==
    /\ Free
    /\ items[k] # NoItem
    /\ LET item == [items[k] EXCEPT !.status = "published"] IN
           Record(k, item, "published", NoValue) /\ AddTask(k, item)
    /\ UNCHANGED <<namespaces, subs, notified, push, views>>

\* delete_config: deprecate_item writes no version.
DeleteConfig(k) ==
    /\ Free
    /\ items[k] # NoItem
    /\ Len(changes[k]) < MaxChanges[k]
    /\ LET item == [items[k] EXCEPT !.status = "deprecated"] IN
           /\ items' = [items EXCEPT ![k] = item]
           /\ changes' = [changes EXCEPT ![k] =
                  Append(@, Change(item, "deleted", item.value, NoValue))]
           /\ AddTask(k, item)
    /\ UNCHANGED <<namespaces, versions, subs, notified, push, views>>

\* Entry i is the first of the history with its version number: the one
\* rollback_to_version finds for that number.
FirstOfVersion(k, i) ==
    \A h \in 1..i - 1 : versions[k][h].version # versions[k][i].version

\* rollback_config to the version of entry i: the value of that entry becomes a
\* new, published version, and the handler itself pushes it.
RollbackConfig(k, i) ==
    /\ Free
    /\ i \in 1..Len(versions[k]) /\ FirstOfVersion(k, i)
    /\ LET item == [value |-> versions[k][i].value, status |-> "published",
                    version |-> items[k].version + 1]
       IN  Record(k, item, "rolled_back", items[k].value) /\ StartPush(k, item)
    /\ UNCHANGED <<namespaces, subs, notified, tasks, views>>

\* register_subscriber replaces an earlier registration.
Register(s, ns) ==
    /\ Free
    /\ subs' = [subs EXCEPT ![s] = ns]
    /\ notified' = [notified EXCEPT ![s] = "never"]
    /\ UNCHANGED <<store, tasks, push, views>>

\* unregister_subscriber.
Unregister(s) ==
    /\ Free
    /\ subs[s] # NotSubscribed
    /\ subs' = [subs EXCEPT ![s] = NotSubscribed]
    /\ notified' = [notified EXCEPT ![s] = "never"]
    /\ UNCHANGED <<store, tasks, push, views>>

\* get_config, as service s uses it to catch up.
PullConfig(s, k) ==
    /\ Free
    /\ items[k] # NoItem
    /\ views' = [views EXCEPT ![s][k] = items[k]]
    /\ UNCHANGED <<store, subs, notified, tasks, push>>

-----------------------------------------------------------------------------
(* Pushing. *)

\* Mutant of RunTask: the task looks the value up again when it runs.
RunTaskRereads(t) ==
    /\ Free
    /\ tasks[t] # NoJob
    /\ StartPush(tasks[t].key, [tasks[t].item EXCEPT !.value = items[tasks[t].key].value])
    /\ tasks' = [tasks EXCEPT ![t] = NoJob]
    /\ UNCHANGED <<store, subs, notified, views>>

\* _notify_subscribers_bg begins.
RunTask(t) ==
    /\ Free
    /\ tasks[t] # NoJob
    /\ StartPush(tasks[t].key, tasks[t].item)
    /\ tasks' = [tasks EXCEPT ![t] = NoJob]
    /\ UNCHANGED <<store, subs, notified, views>>

\* The call of s is over, well or not; mark_notified notes which.
Called(s, outcome) ==
    /\ todo' = todo \ {s}
    /\ notified' = [notified EXCEPT ![s] = outcome]
    /\ UNCHANGED <<store, subs, tasks, pushing>>

\* s takes the item over.
Accept(s) == views' = [views EXCEPT ![s][pushing.key] = pushing.item]

\* _send_notification returns True.
CallSucceeds(s) ==
    /\ s \in todo /\ pulling = NoService
    /\ Accept(s)
    /\ Called(s, "ok")
    /\ UNCHANGED pulling

\* No connection, an error, or an answer that comes too late: s has accepted
\* the item or has not, and there is no second try.
CallFails(s) ==
    /\ s \in todo /\ pulling = NoService
    /\ Accept(s) \/ UNCHANGED views
    /\ Called(s, "failed")
    /\ UNCHANGED pulling

\* The callback of s asks for the config before it answers: nobody serves it.
CallbackPulls(s) ==
    /\ s \in todo /\ pulling = NoService
    /\ pulling' = s
    /\ UNCHANGED <<store, subs, notified, tasks, pushing, todo, views>>

\* Mutant of CallTimesOut: a call that timed out is made again.
CallTimesOutRetried(s) ==
    /\ pulling = s
    /\ pulling' = NoService
    /\ UNCHANGED <<store, subs, notified, tasks, pushing, todo, views>>

\* httpx's timeout of 5 seconds ends that call.
CallTimesOut(s) ==
    /\ pulling = s
    /\ pulling' = NoService
    /\ Called(s, "failed")
    /\ UNCHANGED views

\* push_sync returns.
EndPush ==
    /\ ~Free /\ todo = {}
    /\ pushing' = NoJob
    /\ UNCHANGED <<store, subs, notified, tasks, todo, pulling, views>>

PushStep == EndPush \/ \E s \in Services : CallSucceeds(s) \/ CallFails(s) \/ CallTimesOut(s)

Next ==
    \/ \E n \in Namespaces : CreateNamespace(n)
    \/ \E k \in Keys, v \in JSON : CreateConfig(k, v) \/ UpdateConfig(k, v)
    \/ \E k \in Keys : PublishConfig(k) \/ DeleteConfig(k)
    \/ \E k \in Keys : \E i \in 1..MaxChanges[k] : RollbackConfig(k, i)
    \/ \E s \in Services, ns \in SUBSET Namespaces : Register(s, ns)
    \/ \E s \in Services : Unregister(s) \/ CallbackPulls(s)
    \/ \E s \in Services, k \in Keys : PullConfig(s, k)
    \/ \E t \in Tasks : RunTask(t)
    \/ PushStep

Spec == Init /\ [][Next]_vars

\* The timeout ends every call, so a push comes to its end, and the event loop,
\* which takes what is ready in turn, comes to every background task.
FairSpec ==
    /\ Spec
    /\ WF_vars(PushStep)
    /\ \A t \in Tasks : SF_vars(RunTask(t))

-----------------------------------------------------------------------------
(* Safety. *)

Linear(h) ==
    /\ h # <<>> => h[1].version = 1
    /\ \A i \in 2..Len(h) : h[i].version - h[i - 1].version \in {0, 1}
    /\ \A i, j \in 1..Len(h) : h[i].version = h[j].version => h[i].value = h[j].value

\* The history of a key numbers its versions from 1 without a gap, publishing
\* repeats a number, and a number never stands for two values: a rollback
\* target means one value whichever entry of that number is found.
HistoryIsLinear == \A k \in Keys : Linear(versions[k])

\* A key has an item iff it has a history, its namespace is listed, and the item
\* is the last entry of the history, but for a deprecation, which leaves none.
ItemIsLatest ==
    \A k \in Keys :
        LET h == versions[k] IN
        /\ items[k] = NoItem <=> h = <<>>
        /\ items[k] # NoItem =>
              /\ k[1] \in namespaces
              /\ items[k].version = h[Len(h)].version
              /\ items[k].value = h[Len(h)].value
              /\ items[k].status \in {h[Len(h)].status, "deprecated"}

\* The first i entries of trail c that have a counterpart in the history.
Told(c, i) == {j \in 1..i : c[j].type # "deleted"}

Tells(c, h) ==
    /\ Cardinality(Told(c, Len(c))) = Len(h)
    /\ \A i \in Told(c, Len(c)) :
          LET n == Cardinality(Told(c, i)) IN
          /\ n \in 1..Len(h)
          /\ c[i].version = h[n].version
          /\ c[i].type = h[n].type
          /\ c[i].new = h[n].value

\* The audit trail of a key without its deletions and the version history tell
\* the same story: the n-th entry of the one is the n-th entry of the other.
AuditMatchesHistory == \A k \in Keys : Tells(changes[k], versions[k])

\* The value that an entry of the trail leaves the item with.
Left(c) == IF c.type = "deleted" THEN c.old ELSE c.new

Chained(c) ==
    \A i \in 1..Len(c) :
        \/ i = 1 /\ c[i].type = "created"
        \/ i > 1 /\ c[i].type \in {"updated", "rolled_back", "deleted"}
                 /\ c[i].old = Left(c[i - 1])
        \/ i > 1 /\ c[i].type = "published" /\ c[i].new = Left(c[i - 1])

\* The entries of a key's trail chain: the old value that an update, a rollback
\* or a deletion names is what the entries before it left, and publishing
\* publishes it.
AuditChains == \A k \in Keys : Chained(changes[k])

\* item is, or was, a version of key k.
InHistory(k, item) ==
    \E i \in 1..Len(versions[k]) : /\ versions[k][i].version = item.version
                                   /\ versions[k][i].value = item.value

\* However late a push comes, and whatever it races with, a subscriber is only
\* ever told of a value under the version number the history has it under.
PushesHaveHistory ==
    /\ \A t \in Tasks : tasks[t] # NoJob => InHistory(tasks[t].key, tasks[t].item)
    /\ pushing # NoJob => InHistory(pushing.key, pushing.item)
    /\ \A s \in Services, k \in Keys : views[s][k] # NoItem => InHistory(k, views[s][k])

\* A push in progress is one that calls somebody who is registered and wants
\* the namespace, and only a call in progress waits.
PushIsCoherent ==
    /\ pushing = NoJob => todo = {}
    /\ pushing # NoJob => todo \subseteq Relevant(pushing.key)
    /\ pulling # NoService => pulling \in todo

-----------------------------------------------------------------------------
(* The inductive invariant that the proofs of module ConfigCenterProofs use. *)

\* An item, its history h and its trail c agree, and the item has the highest
\* version number.
KeyOK(item, h, c) ==
    /\ Linear(h)
    /\ Chained(c)
    /\ Tells(c, h)
    /\ item = NoItem <=> h = <<>>
    /\ item = NoItem <=> c = <<>>
    /\ item # NoItem =>
          /\ item.version = h[Len(h)].version
          /\ item.value = h[Len(h)].value
          /\ item.status \in {h[Len(h)].status, "deprecated"}
          /\ \A i \in 1..Len(h) : h[i].version <= item.version
          /\ Left(c[Len(c)]) = item.value

ConfigInv ==
    /\ TypeOK
    /\ \A k \in Keys : KeyOK(items[k], versions[k], changes[k])
    /\ \A k \in Keys : items[k] # NoItem => k[1] \in namespaces
    /\ PushesHaveHistory
    /\ PushIsCoherent

-----------------------------------------------------------------------------
(* Liveness. *)

\* A push never wedges the service: a callback that asks the blocked service
\* for its config holds it up only until the timeout.
LoopIsFreed == []<>Free

=============================================================================
