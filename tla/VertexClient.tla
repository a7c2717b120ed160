----------------------------- MODULE VertexClient -----------------------------
(***************************************************************************)
(* The shared Vertex AI client (internal/vertexai): the cached access token  *)
(* behind its mutex, the record of the explicit context cache behind its     *)
(* lock, and the singleflight group that lets one caller at a time see to    *)
(* the cached content of a prompt.  A caller is one GenerateReport           *)
(* (internal/report/aiclient_vertex.go), which obtains the cache, or does      *)
(* without, and then asks for the content, or one GenerateTurn of the          *)
(* interview, which only asks for the content.                               *)
(*                                                                         *)
(* The API is external: it issues tokens, keeps cached contents until they    *)
(* expire, and answers within HttpTimeout, or the caller gives up.  Time      *)
(* does not pass a call's timeout.                                           *)
(***************************************************************************)
EXTENDS Integers, FiniteSets

CONSTANTS
    Callers,
    NoOne,              \* nobody holds the mutex, nobody leads the flight
    TokenLife,          \* expires_in of a token
    TokenMargin,        \* 30 s: a token this close to its expiry is not used
    TTL,                \* contextCacheTTL
    CacheMargin,        \* 15 s: the same for cached content
    HttpTimeout,        \* timeout of the HTTP client, 30 s
    MaxContents,        \* quota of cached contents
    MaxFaults,          \* bound of failing calls
    MaxNow              \* bound of the clock

ASSUME VertexAssumption ==
    /\ NoOne \notin Callers
    /\ TokenMargin \in Nat /\ CacheMargin \in Nat /\ HttpTimeout \in Nat
    /\ MaxContents \in Nat /\ MaxFaults \in Nat /\ MaxNow \in Nat
    /\ TokenLife \in Nat /\ TTL \in Nat
    \* NewClient's default timeout is no longer than the margin of Token, and
    \* content outlives the call that creates it.
    /\ HttpTimeout <= TokenMargin
    /\ TokenLife > HttpTimeout /\ TTL > HttpTimeout + CacheMargin

VARIABLES
    now,
    token,      \* cachedToken: its expiry as believed, and as issued
    mutex,      \* who holds the mutex of the token source
    record,     \* the cache record of the prompt
    leader,     \* who runs ensureCachedContentSingleflight
    call,       \* where each caller is
    contents,   \* API: when each cached content expires, 0 if never created
    below,      \* API: the prompt has fewer tokens than caching takes
    faults

vars == <<now, token, mutex, record, leader, call, contents, below, faults>>

Names == 1 .. MaxContents

Ops == {"none", "count", "update", "create", "generate"}
Pcs == {"idle", "lookup", "do", "wait", "auth", "exchange", "issued", "sent", "served"}

\* name is the content a call is about or was given, at the time it was given;
\* since is when the outstanding HTTP call began, token the real expiry of the
\* token in use, and until the expiry an answer on its way reports.
Call   == [pc : Pcs, op : Ops, name : 0 .. MaxContents, at : Nat, since : Nat, token : Nat, until : Nat]
NoCall == [pc |-> "idle", op |-> "none", name |-> 0, at |-> 0, since |-> 0, token |-> 0, until |-> 0]

Token   == [expiry : Nat, issued : Nat]
NoToken == [expiry |-> 0, issued |-> 0]

\* A record is absent, ineligible, or names a content.
Record   == [name : 0 .. MaxContents, expireAt : Nat, ineligible : BOOLEAN]
NoRecord == [name |-> 0, expireAt |-> 0, ineligible |-> FALSE]

Init ==
    /\ now = 1
    /\ token = NoToken /\ mutex = NoOne
    /\ record = NoRecord /\ leader = NoOne
    /\ call = [c \in Callers |-> NoCall]
    /\ contents = [n \in Names |-> 0]
    /\ below \in BOOLEAN
    /\ faults = 0

Goto(c, pc) == call' = [call EXCEPT ![c].pc = pc]

-----------------------------------------------------------------------------
(* EnsureCachedContent.                                                    *)

GenerateReport(c) ==
    /\ call[c].pc = "idle"
    /\ Goto(c, "lookup")
    /\ UNCHANGED <<now, token, mutex, record, leader, contents, below, faults>>

\* A caller goes on to GenerateContent, with cached content or without.
Generating(n) ==
    [pc |-> "auth", op |-> "generate", name |-> n, at |-> now, since |-> 0, token |-> 0, until |-> 0]

\* The interview's caller, or one with explicit caching disabled, does without.
GenerateTurn(c) ==
    /\ call[c].pc = "idle"
    /\ call' = [call EXCEPT ![c] = Generating(0)]
    /\ UNCHANGED <<now, token, mutex, record, leader, contents, below, faults>>

\* Mutant: a record is used up to its last moment.
FreshToTheEnd == record.name # 0 /\ record.expireAt > now

Fresh == record.name # 0 /\ record.expireAt > now + CacheMargin

\* What a settled record answers: the name, or none.
Settled == record.ineligible \/ Fresh

Outcome == IF record.ineligible THEN 0 ELSE record.name

lookupCache(c) ==
    /\ call[c].pc = "lookup"
    /\ IF Settled THEN call' = [call EXCEPT ![c] = Generating(Outcome)]
       ELSE Goto(c, "do")
    /\ UNCHANGED <<now, token, mutex, record, leader, contents, below, faults>>

\* group.Do while another caller's flight is under way.
Join(c) ==
    /\ call[c].pc = "do" /\ leader # NoOne
    /\ Goto(c, "wait")
    /\ UNCHANGED <<now, token, mutex, record, leader, contents, below, faults>>

\* Mutant: the leader does not look at the record again.
LeadBlindly(c) ==
    /\ call[c].pc = "do" /\ leader = NoOne
    /\ leader' = c
    /\ call' = [call EXCEPT ![c].pc = "auth", ![c].op = "count"]
    /\ UNCHANGED <<now, token, mutex, record, contents, below, faults>>

\* group.Do with no flight under way: the record is looked up again first.
Lead(c) ==
    /\ call[c].pc = "do" /\ leader = NoOne
    /\ IF Settled
       THEN call' = [call EXCEPT ![c] = Generating(Outcome)] /\ UNCHANGED leader
       ELSE /\ leader' = c
            /\ call' = [call EXCEPT ![c].pc = "auth", ![c].op = "count"]
    /\ UNCHANGED <<now, token, mutex, record, contents, below, faults>>

\* Mutant: only the leader hears of the end of its flight.
LandAlone(c, n) ==
    /\ leader' = NoOne
    /\ call' = [call EXCEPT ![c] = Generating(n)]

\* The flight of c is over: all who joined it get its outcome, an error too.
Land(c, n) ==
    /\ leader' = NoOne
    /\ call' = [d \in Callers |-> IF d = c \/ call[d].pc = "wait" THEN Generating(n) ELSE call[d]]

-----------------------------------------------------------------------------
(* Token, and doJSON around it.                                            *)

\* Mutant: a token is used up to its last moment.
TokenFreshToTheEnd == token.expiry > now

TokenFresh == token.expiry > now + TokenMargin

Sent(c, tok) == call' = [call EXCEPT ![c].pc = "sent", ![c].since = now, ![c].token = tok]

\* The mutex is held for a look at the cached token, or for the exchange.
authorizeRequest(c) ==
    /\ call[c].pc = "auth" /\ mutex = NoOne
    /\ IF TokenFresh
       THEN Sent(c, token.issued) /\ UNCHANGED mutex
       ELSE /\ mutex' = c
            /\ call' = [call EXCEPT ![c].pc = "exchange", ![c].since = now]
    /\ UNCHANGED <<now, token, record, leader, contents, below, faults>>

IssueToken(c) ==
    /\ call[c].pc = "exchange"
    /\ call' = [call EXCEPT ![c].pc = "issued", ![c].token = now + TokenLife]
    /\ UNCHANGED <<now, token, mutex, record, leader, contents, below, faults>>

\* The expiry is reckoned from the arrival of the answer, not from its issue.
exchangeOAuthToken(c) ==
    /\ call[c].pc = "issued"
    /\ token' = [expiry |-> now + TokenLife, issued |-> call[c].token]
    /\ mutex' = NoOne
    /\ Sent(c, call[c].token)
    /\ UNCHANGED <<now, record, leader, contents, below, faults>>

-----------------------------------------------------------------------------
(* The API handles a request; the answer is on its way.                    *)

Live(n) == n # 0 /\ contents[n] > now

Unused == {n \in Names : contents[n] = 0}

Serve(c) ==
    /\ call[c].pc = "sent"
    /\ \/ /\ call[c].op = "create"
          /\ \E n \in Unused :
                /\ \A m \in Unused : n <= m
                /\ contents' = [contents EXCEPT ![n] = now + TTL]
                /\ call' = [call EXCEPT ![c].pc = "served", ![c].name = n, ![c].until = now + TTL]
       \/ /\ call[c].op = "update" /\ Live(call[c].name)
          /\ contents' = [contents EXCEPT ![call[c].name] = now + TTL]
          /\ call' = [call EXCEPT ![c].pc = "served", ![c].until = now + TTL]
       \/ /\ call[c].op = "count" \/ (call[c].op = "generate" /\ (call[c].name # 0 => Live(call[c].name)))
          /\ Goto(c, "served")
          /\ UNCHANGED contents
    /\ UNCHANGED <<now, token, mutex, record, leader, below, faults>>

\* What the API cannot do: create beyond the quota, use content that is gone.
Unservable(c) ==
    \/ call[c].op = "create" /\ Unused = {}
    \/ call[c].op \in {"update", "generate"} /\ call[c].name # 0 /\ ~Live(call[c].name)

-----------------------------------------------------------------------------
(* The answer arrives.                                                     *)

\* Below 2048 tokens the prompt is marked; else a known content is extended, or
\* a new one created.
CountTokensReplies(c) ==
    /\ call[c].pc = "served" /\ call[c].op = "count"
    /\ IF below
       THEN record' = [name |-> 0, expireAt |-> 0, ineligible |-> TRUE] /\ Land(c, 0)
       ELSE /\ call' = [call EXCEPT ![c].pc = "auth", ![c].name = record.name,
                                    ![c].op = IF record.name # 0 THEN "update" ELSE "create"]
            /\ UNCHANGED <<record, leader>>
    /\ UNCHANGED <<now, token, mutex, contents, below, faults>>

\* UpdateCachedContentTTL or CreateCachedContent: storeCache.
storeCache(c) ==
    /\ call[c].pc = "served" /\ call[c].op \in {"update", "create"}
    /\ record' = [name |-> call[c].name, expireAt |-> call[c].until, ineligible |-> FALSE]
    /\ Land(c, call[c].name)
    /\ UNCHANGED <<now, token, mutex, contents, below, faults>>

GenerateContentReplies(c) ==
    /\ call[c].pc = "served" /\ call[c].op = "generate"
    /\ call' = [call EXCEPT ![c] = NoCall]
    /\ UNCHANGED <<now, token, mutex, record, leader, contents, below, faults>>

\* An error in place of an answer: an update gives way to a creation, any other
\* error ends the flight without a name, and generateContent's ends the call.
Errs(c) ==
    CASE call[c].op = "update" ->
           /\ call' = [call EXCEPT ![c].pc = "auth", ![c].op = "create", ![c].name = 0]
           /\ UNCHANGED leader
      [] call[c].op \in {"count", "create"} -> Land(c, 0)
      [] call[c].op = "generate" ->
           call' = [call EXCEPT ![c] = NoCall] /\ UNCHANGED leader

\* The API refuses.
parseAPIError(c) ==
    /\ call[c].pc = "sent" /\ Unservable(c)
    /\ Errs(c)
    /\ UNCHANGED <<now, token, mutex, record, contents, below, faults>>

\* Mutant: a failing exchange keeps the mutex.
CallFailsLocked(c) ==
    /\ call[c].pc \in {"exchange", "issued", "sent", "served"}
    /\ faults < MaxFaults /\ faults' = faults + 1
    /\ Errs(c)
    /\ UNCHANGED <<now, token, mutex, record, contents, below>>

\* A call fails on its way out or back: timeout, lost connection, canceled
\* context of the caller; the mutex is released by the deferred Unlock.
CallFails(c) ==
    /\ call[c].pc \in {"exchange", "issued", "sent", "served"}
    /\ faults < MaxFaults /\ faults' = faults + 1
    /\ mutex' = IF mutex = c THEN NoOne ELSE mutex
    /\ Errs(c)
    /\ UNCHANGED <<now, token, record, contents, below>>

\* An outstanding call is over before its timeout has passed.
Tick ==
    /\ now < MaxNow
    /\ \A c \in Callers : call[c].pc \in {"exchange", "issued", "sent", "served"} =>
                              now < call[c].since + HttpTimeout
    /\ now' = now + 1
    /\ UNCHANGED <<token, mutex, record, leader, call, contents, below, faults>>

\* The next step of a caller that has begun.
CallStep(c) ==
    \/ lookupCache(c)
    \/ Join(c)
    \/ Lead(c)
    \/ authorizeRequest(c)
    \/ IssueToken(c)
    \/ exchangeOAuthToken(c)
    \/ Serve(c)
    \/ CountTokensReplies(c)
    \/ storeCache(c)
    \/ GenerateContentReplies(c)
    \/ parseAPIError(c)

Next ==
    \/ \E c \in Callers : GenerateReport(c) \/ GenerateTurn(c) \/ CallStep(c) \/ CallFails(c)
    \/ Tick

Spec == Init /\ [][Next]_vars

\* A call is answered or times out; whoever waits for the mutex gets it in the
\* end (sync.Mutex does not starve).
FairSpec == Spec /\ \A c \in Callers : SF_vars(CallStep(c))

-----------------------------------------------------------------------------
(* Properties.                                                             *)

\* The types of the variables; a call has a purpose once its caller is past the
\* cache, the mutex is held exactly by a caller that exchanges a token, and the
\* flight is led by one that sees to the cache.
TypeOK ==
    /\ now \in Nat /\ faults \in 0 .. MaxFaults /\ below \in BOOLEAN
    /\ token \in Token /\ record \in Record
    /\ mutex \in Callers \cup {NoOne} /\ leader \in Callers \cup {NoOne}
    /\ call \in [Callers -> Call]
    /\ contents \in [Names -> Nat]
    /\ \A c \in Callers : (call[c].op = "none") = (call[c].pc \in {"idle", "lookup", "do", "wait"})
    /\ \A c \in Callers : (mutex = c) = (call[c].pc \in {"exchange", "issued"})
    /\ \A c \in Callers : (leader = c) = (call[c].op \in {"count", "update", "create"})

\* Although the expiry of a token is reckoned late, by as long as the exchange
\* took, no request is sent with a token that has expired: the margin of
\* Token covers the longest exchange.
TokenOutlivesExchange ==
    \A c \in Callers : call[c].pc = "sent" /\ call[c].since = now => call[c].token > now

\* A caller is only given cached content that lasts for the margin, from the
\* record or from a flight it joined at any stage: its request has that long
\* to reach the API.
NameOutlivesMargin ==
    \A c \in Callers : call[c].op = "generate" /\ call[c].name # 0 =>
        contents[call[c].name] > call[c].at + CacheMargin

\* No content is created while the record still names one that callers use,
\* however lookups, flights and failures interleave.
CreateOnlyWhenStale ==
    [][\A n \in Names : contents[n] = 0 /\ contents'[n] # 0 => ~Settled]_vars

\* Every report's call comes to an end: nobody is left waiting for the leader
\* of a flight or for the mutex, whichever calls fail.
CallsReturn == \A c \in Callers : call[c].pc # "idle" ~> call[c].pc = "idle"

=============================================================================
