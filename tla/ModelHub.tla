------------------------------ MODULE ModelHub ------------------------------
(***************************************************************************)
(* Chats of the model hub and the sidecar that answers them:               *)
(* apps/model_hub/main.py, router.py, usage.py, providers/piagent.py and,  *)
(* on the other end of the HTTP connection, handleChat and the pool of     *)
(* sessions of apps/runtime/sidecar.                                       *)
(*                                                                         *)
(* Both processes have one event loop.  The hub's handler runs without a   *)
(* break from one POST to the sidecar to the next, the sidecar's from one  *)
(* await to the next: reading the request, creating an agent session,      *)
(* prompting it.  A timeout ends the hub's attempt and not the sidecar's.  *)
(***************************************************************************)
EXTENDS Naturals, Sequences, SequencesExt, FiniteSetsExt

CONSTANTS
    Chats,         \* calls of POST /model/chat
    Requests,      \* what they may ask for
    Sessions, NoSession,
    Employees, Unknown,
    KnownModels,   \* the <<provider, model>> pairs of pi-ai's catalogue
    Offers,        \* what register_provider may be called with
    MaxSessions,   \* MAX_SESSIONS, 100 in the code
    ReportDays,    \* the days of a usage report, 7 by default
    MonthDays, Months, MaxStops,   \* bounds
    NoModel

\* A model is named by the parts that "/" separates.
Entry == [provider : STRING, model : Seq(STRING)]
Date  == (1..Months) \X (1..MonthDays)

ASSUME ModelHubAssumption ==
    /\ \A r \in Requests : /\ r.task \in {"planning", "fast", "code"}
                           /\ r.session \in Sessions \cup {NoSession}
                           /\ r.employee \in Employees \cup {Unknown}
    /\ NoSession \notin Sessions /\ Unknown \notin Employees
    /\ {MaxSessions, ReportDays, MonthDays, Months} \subseteq Nat \ {0} /\ MaxStops \in Nat

VARIABLES
    chat,      \* the hub's handlers
    work,      \* the sidecar's handlers: work[<<c, k>>] serves the k-th attempt of chat c
    pool,      \* SidecarSessionManager.sessions, the least recently used first
    up,        \* the sidecar listens
    stops,     \* how often it has stopped
    available, \* ModelRouter._available
    usage,     \* UsageTracker._records: the request_count of an employee's days
    today

hubVars == <<chat, work, pool, up, stops, available, usage, today>>

-----------------------------------------------------------------------------
(* Routing *)

MiniMax == [provider |-> "minimax-cn", model |-> <<"MiniMax-M2.7">>]
Claude(model) == [provider |-> "anthropic", model |-> <<model>>]

RoutingTable ==
    [planning |-> <<MiniMax, Claude("claude-opus-4-5-5")>>,
     fast     |-> <<MiniMax>>,
     code     |-> <<MiniMax, Claude("claude-sonnet-4-5")>>]

\* A name of several parts names its provider first; one part is minimax-cn's.
SplitModel(name) ==
    IF Len(name) > 1 THEN [provider |-> Head(name), model |-> Tail(name)]
                     ELSE [provider |-> "minimax-cn", model |-> name]

\* Nothing registered means that everything is available.
IsAvailable(e) ==
    DOMAIN available # {} => e.provider \in DOMAIN available /\ e.model \in available[e.provider]

\* The chain of a request: its own model first, then the table's others.
Route(r) ==
    LET preferred == IF r.model = NoModel THEN <<>> ELSE <<SplitModel(r.model)>>
        others    == SelectSeq(RoutingTable[r.task], LAMBDA e : ~Contains(preferred, e))
    IN  SelectSeq(preferred \o others, IsAvailable)

\* What PiAgentProvider.chat asks the sidecar for: it is given the model of the
\* entry without its provider.
Asked(e) == SplitModel(e.model)

-----------------------------------------------------------------------------
(* The pool of agent sessions; a session is what it is named and the model *)
(* it was created with.  Uses within one millisecond are told apart.       *)

PooledIn(p, s) == {i \in DOMAIN p : p[i].id = s}
Pooled(s)      == PooledIn(pool, s)
Touch(i)       == Append(RemoveAt(pool, i), pool[i])
Without(p, s)  == IF PooledIn(p, s) = {} THEN p ELSE RemoveAt(p, CHOOSE i \in PooledIn(p, s) : TRUE)

\* Mutant of EvictIfNeeded: it makes room only when the pool is already too large.
EvictLate(p) == IF Len(p) > MaxSessions THEN Tail(p) ELSE p

EvictIfNeeded(p) == IF Len(p) >= MaxSessions THEN Tail(p) ELSE p

Insert(s, model) == Append(Without(EvictIfNeeded(pool), s), [id |-> s, model |-> model])

-----------------------------------------------------------------------------
(* Usage *)

\* Mutant of ReportDate: the report begins with yesterday.
ReportDateOfYesterday(i) == <<today[1], IF today[2] > i THEN today[2] - i ELSE 1>>

\* today.replace(day=max(1, today.day - i)) for i = 0, 1, ...
ReportDate(i) == <<today[1], IF today[2] > i - 1 THEN today[2] - (i - 1) ELSE 1>>

\* The days that get_usage reports, by their turn in its loop: those with a record.
GetUsage(e) ==
    [i \in {n \in 1..ReportDays : usage[e][ReportDate(n)] > 0} |-> ReportDate(i)]

GetTotal(e) == SumFunctionOnSet(usage[e], Date)

-----------------------------------------------------------------------------

Attempts == Chats \X (1..3)   \* a chain has at most three entries

\* "lost" is a request that found no sidecar, or that it took with it when it stopped.
Work == [pc    : {"none", "sent", "creating", "prompting", "answered", "failed", "lost"},
         model : Entry \cup {NoModel}]

Chat == [req : Requests, chain : Seq(Entry), at : 1..3, status : {"open", "200", "404", "500", "502"}]
NotPosted == [status |-> "none"]

IsPosted(c) == chat[c].status # "none"

\* Types; and an open chat is waiting for an attempt that it made.
HubTypeOK ==
    /\ \A c \in Chats : IsPosted(c) =>
           /\ chat[c] \in Chat
           /\ chat[c].status = "open" => work[<<c, chat[c].at>>].pc # "none"
    /\ work \in [Attempts -> Work]
    /\ pool \in Seq([id : Sessions, model : Entry])
    /\ up \in BOOLEAN /\ stops \in 0..MaxStops
    /\ usage \in [Employees \cup {Unknown} -> [Date -> Nat]] /\ today \in Date

HubInit ==
    /\ chat = [c \in Chats |-> NotPosted]
    /\ work = [a \in Attempts |-> [pc |-> "none", model |-> NoModel]]
    /\ pool = <<>> /\ up = TRUE /\ stops = 0
    /\ available = <<>>
    /\ usage = [e \in Employees \cup {Unknown} |-> [d \in Date |-> 0]]
    /\ today = <<1, 1>>

Waiting(c) == chat[c].status = "open"
Attempt(c) == work[<<c, chat[c].at>>]
End(c, status) == chat' = [chat EXCEPT ![c].status = status]

Send(c, k) == work' = [work EXCEPT ![<<c, k>>].pc = "sent"]

-----------------------------------------------------------------------------
(* The hub *)

\* POST /model/chat, up to the first request to the sidecar.
PostChat(c, r) ==
    /\ ~IsPosted(c)
    /\ LET chain == Route(r) IN
       /\ chat' = [chat EXCEPT ![c] =
                     [req |-> r, chain |-> chain, at |-> 1, status |-> IF chain = <<>> THEN "404" ELSE "open"]]
       /\ IF chain = <<>> THEN work' = work ELSE Send(c, 1)
    /\ UNCHANGED <<pool, up, stops, available, usage, today>>

\* Mutant of TryNext: the first entry of the chain is tried again.
TryFirst(c) ==
    /\ IF chat[c].at < Len(chat[c].chain)
         THEN Send(c, chat[c].at) /\ chat' = chat
         ELSE End(c, "502") /\ work' = work
    /\ UNCHANGED <<pool, up, stops, available, usage, today>>

\* A ModelProviderError: the next entry of the chain, or 502.
TryNext(c) ==
    /\ IF chat[c].at < Len(chat[c].chain)
         THEN Send(c, chat[c].at + 1) /\ chat' = [chat EXCEPT ![c].at = @ + 1]
         ELSE End(c, "502") /\ work' = work
    /\ UNCHANGED <<pool, up, stops, available, usage, today>>

\* A status other than 200, or no connection.
ProviderFails(c) ==
    /\ Waiting(c)
    /\ Attempt(c).pc \in {"failed", "lost"}
    /\ TryNext(c)

\* Mutant of TimesOut: ModelTimeoutError is a ModelProviderError.
TimesOutTriesNext(c) == Waiting(c) /\ TryNext(c)

\* ModelTimeoutError is no ModelProviderError: it leaves the handler, as a 500.
TimesOut(c) ==
    /\ Waiting(c)
    /\ End(c, "500")
    /\ UNCHANGED <<work, pool, up, stops, available, usage, today>>

\* UsageTracker.record: one more request of the employee today.  The tokens
\* that come with the answer are not read, so the record's stay 0.
Record(e) == usage' = [usage EXCEPT ![e][today] = @ + 1]

\* A 200 from the sidecar is counted and passed on.
Answered(c) ==
    /\ Waiting(c) /\ Attempt(c).pc = "answered"
    /\ End(c, "200")
    /\ Record(chat[c].req.employee)
    /\ UNCHANGED <<work, pool, up, stops, available, today>>

RegisterProvider(o) ==
    /\ available' = [p \in DOMAIN available \cup {o.provider} |->
                        IF p = o.provider THEN o.models ELSE available[p]]
    /\ UNCHANGED <<chat, work, pool, up, stops, usage, today>>

NextDay ==
    /\ IF today[2] < MonthDays
         THEN today' = <<today[1], today[2] + 1>>
         ELSE today[1] < Months /\ today' = <<today[1] + 1, 1>>
    /\ UNCHANGED <<chat, work, pool, up, stops, available, usage>>

-----------------------------------------------------------------------------
(* The sidecar *)

\* handleChat up to its first await.  What getModel does with a pair it does not
\* know is pi-ai's: it throws, or returns nothing and the default is used.
Receive(c, k) ==
    /\ up /\ work[<<c, k>>].pc = "sent"
    /\ LET asked == Asked(chat[c].chain[k])
           s     == chat[c].req.session
       IN  \/ /\ asked \notin KnownModels
              /\ work' = [work EXCEPT ![<<c, k>>].pc = "failed"] /\ pool' = pool
           \/ \E i \in Pooled(s) :
              /\ work' = [work EXCEPT ![<<c, k>>] = [pc |-> "prompting", model |-> pool[i].model]]
              /\ pool' = Touch(i)
           \/ /\ Pooled(s) = {}
              /\ work' = [work EXCEPT ![<<c, k>>] =
                            [pc |-> "creating", model |-> IF asked \in KnownModels THEN asked ELSE MiniMax]]
              /\ pool' = pool
    /\ UNCHANGED <<chat, up, stops, available, usage, today>>

\* The connection is refused while no sidecar listens.
Refused(c, k) ==
    /\ ~up /\ work[<<c, k>>].pc = "sent"
    /\ work' = [work EXCEPT ![<<c, k>>].pc = "lost"]
    /\ UNCHANGED <<chat, pool, up, stops, available, usage, today>>

\* createAgentSession returns, and the session joins the pool if it has a name.
Created(c, k) ==
    /\ work[<<c, k>>].pc = "creating"
    /\ work' = [work EXCEPT ![<<c, k>>].pc = "prompting"]
    /\ pool' = IF chat[c].req.session = NoSession THEN pool
                 ELSE Insert(chat[c].req.session, work[<<c, k>>].model)
    /\ UNCHANGED <<chat, up, stops, available, usage, today>>

\* session.prompt returns or throws; createAgentSession may throw too.
Prompted(c, k) ==
    /\ \/ work[<<c, k>>].pc = "prompting" /\ work' = [work EXCEPT ![<<c, k>>].pc = "answered"]
       \/ work[<<c, k>>].pc \in {"creating", "prompting"} /\ work' = [work EXCEPT ![<<c, k>>].pc = "failed"]
    /\ UNCHANGED <<chat, pool, up, stops, available, usage, today>>

\* SIGTERM or a crash: requests and sessions are gone.
SidecarStops ==
    /\ up /\ stops < MaxStops
    /\ up' = FALSE /\ stops' = stops + 1 /\ pool' = <<>>
    /\ work' = [a \in Attempts |->
                  [work[a] EXCEPT !.pc = IF @ \in {"creating", "prompting"} THEN "lost" ELSE @]]
    /\ UNCHANGED <<chat, available, usage, today>>

SidecarStarts ==
    /\ ~up /\ up' = TRUE
    /\ UNCHANGED <<chat, work, pool, stops, available, usage, today>>

HubNext ==
    \/ \E c \in Chats, r \in Requests : PostChat(c, r)
    \/ \E c \in Chats : ProviderFails(c) \/ TimesOut(c) \/ Answered(c)
    \/ \E a \in Attempts : \/ Receive(a[1], a[2]) \/ Refused(a[1], a[2])
                           \/ Created(a[1], a[2]) \/ Prompted(a[1], a[2])
    \/ \E o \in Offers : RegisterProvider(o)
    \/ NextDay \/ SidecarStops \/ SidecarStarts

HubSpec == HubInit /\ [][HubNext]_hubVars

\* A waiting handler is resumed when its answer, its error or its timeout is there.
FairHub == HubSpec /\ \A c \in Chats : WF_hubVars(ProviderFails(c) \/ TimesOut(c) \/ Answered(c))

-----------------------------------------------------------------------------
(* Properties *)

\* Creating a session suspends the sidecar's handler, and others may fill the
\* pool meanwhile: it never holds more than MAX_SESSIONS, nor two of a name.
PoolWithinBound ==
    /\ Len(pool) <= MaxSessions
    /\ \A i, j \in DOMAIN pool : pool[i].id = pool[j].id => i = j

\* A chat has one agent at a time: the next entry of its chain is asked only when the
\* sidecar has answered that the entry before it failed, or has taken it with it.  A timeout
\* says neither, so the attempt that it ends is the last one, and nobody's answer to the
\* same question is computed, and kept in the conversation's session, twice.
OneAgentAtATime ==
    \A c \in Chats : \A k \in 1..3 :
        work[<<c, k>>].pc # "none" => \A i \in 1..(k - 1) : work[<<c, i>>].pc \in {"failed", "lost"}

AnsweredTo(e) == {c \in Chats : chat[c].status = "200" /\ chat[c].req.employee = e}

\* The hub counts what it answered: whatever timeouts, fallbacks, midnights and
\* late answers there are, an employee's total is the number of its chats that
\* ended with 200.
AnswersAreCounted ==
    \A e \in Employees \cup {Unknown} :
        GetTotal(e) = Cardinality(AnsweredTo(e))

\* get_usage reports every day of the current month with a record among the
\* last ReportDays, and no other day.
MonthIsReported ==
    \A e \in Employees \cup {Unknown} :
        {GetUsage(e)[i] : i \in DOMAIN GetUsage(e)} =
            {d \in Date : /\ usage[e][d] > 0
                          /\ d[1] = today[1]
                          /\ d[2] <= today[2] /\ d[2] + ReportDays > today[2]}

\* The inductive invariant of the three: a chat is a record of an admitted request, and
\* the employees' answers are finitely many.
ChatFits(c) ==
    IsPosted(c) => /\ chat[c].req \in Requests
                   /\ chat[c] = [req |-> chat[c].req, chain |-> chat[c].chain,
                                at |-> chat[c].at, status |-> chat[c].status]

HubInv ==
    /\ chat = [c \in Chats |-> chat[c]] /\ \A c \in Chats : ChatFits(c)
    /\ usage \in [Employees \cup {Unknown} -> [Date -> Nat]] /\ today \in Date
    /\ pool \in Seq(Range(pool)) /\ PoolWithinBound
    /\ AnswersAreCounted
    /\ \A e \in Employees \cup {Unknown} : IsFiniteSet(AnsweredTo(e))

\* The inductive invariant of the attempts: no chat has one beyond where it is.
AttemptsInv ==
    /\ work = [a \in Attempts |-> [pc |-> work[a].pc, model |-> work[a].model]]
    /\ \A c \in Chats : IsPosted(c) => chat[c].at \in Nat
    /\ \A c \in Chats : \A k \in 1..3 :
          work[<<c, k>>].pc # "none" => IsPosted(c) /\ k <= chat[c].at
    /\ OneAgentAtATime

\* Every chat is answered or refused: the chain is finite, and each attempt ends
\* with the sidecar's answer, its absence or the timeout.
ChatsEnd == \A c \in Chats : Waiting(c) ~> ~Waiting(c)

\* Refuted by the code: "The sidecar handles provider/auth selection internally
\* based on the provider field in each request" (providers/piagent.py:41), so an
\* attempt for an entry of the chain has to carry that entry's provider.  chat
\* passes only the model on, and the provider asked is minimax-cn.
ProviderIsAsked ==
    \A c \in Chats : \A k \in 1..3 :
        IsPosted(c) /\ work[<<c, k>>].pc # "none" =>
            Asked(chat[c].chain[k]).provider = chat[c].chain[k].provider
=============================================================================
