--------------------------- MODULE ExternalPageCache ---------------------------
(***************************************************************************)
(* The dashboard's copy of an external page: one page and the time it was  *)
(* fetched, behind a read-write lock.  A request that finds the copy too    *)
(* old under the read lock looks again under the write lock and fetches     *)
(* the page while it holds it; everybody else waits.  If the source fails,   *)
(* the old copy is served.                                                  *)
(*                                                                         *)
(* Time is counted in ticks.  Looking at the copy takes none; a fetch takes *)
(* up to MaxFetch, the time limit of its HTTP client.                        *)
(***************************************************************************)
EXTENDS Integers

CONSTANTS
    Requests,    \* goroutines serving GET /api/external-pages/{pageSlug}
    Nobody,      \* the write lock is free
    MaxVersion,  \* bound: versions of the page the source ever has
    EmptyPages,  \* those with an empty body
    TTL,         \* ticks a copy is served without asking the source
    MaxFetch     \* ticks a fetch may take

ASSUME CacheAssumption ==
    /\ Nobody \notin Requests
    /\ MaxVersion \in Nat \ {0}
    /\ EmptyPages \subseteq 1..MaxVersion
    /\ TTL \in Nat \ {0} /\ MaxFetch \in Nat

VARIABLES
    content,  \* the version of the copy, 0 before the first fetch
    age,      \* ticks since fetchedAt, TTL if that many or more
    lock,     \* who holds the write lock
    req,      \* the requests
    source,   \* the version the source has
    spent,    \* ticks the fetch in progress has taken
    gone,     \* history: version -> ticks since the source replaced it
    seen      \* history: the newest version any request was answered with

cacheVars == <<content, age, lock, req, source, spent, gone, seen>>

copy    == <<content, age>>
history == <<gone, seen>>

Versions == 1..MaxVersion
Longest  == TTL + MaxFetch

Pcs == {"idle", "look", "lock", "check", "fetch", "body", "answered"}

\* A request: where it is, the page it got (0: none, or an error), whether its
\* own fetch failed, and what had been seen when it came (history).
Request == [pc : Pcs, page : Versions \cup {0}, failed : BOOLEAN, floor : Versions \cup {0}]

Idle == [pc |-> "idle", page |-> 0, failed |-> FALSE, floor |-> 0]

CacheTypeOK ==
    /\ content \in Versions \cup {0}
    /\ age \in 0..TTL
    /\ lock \in Requests \cup {Nobody}
    /\ req \in [Requests -> Request]
    /\ source \in Versions
    /\ spent \in 0..MaxFetch
    /\ gone \in [Versions -> 0..Longest]
    /\ seen \in Versions \cup {0}

CacheInit ==
    /\ content = 0 /\ age = TTL
    /\ lock = Nobody
    /\ req = [r \in Requests |-> Idle]
    /\ source = 1
    /\ spent = 0
    /\ gone = [v \in Versions |-> 0]
    /\ seen = 0

HasContent == content # 0 /\ content \notin EmptyPages
Fresh      == HasContent /\ age < TTL

At(r, pc) == req[r].pc = pc
Goto(r, pc) == req' = [req EXCEPT ![r].pc = pc]

Newer(v, w) == IF v > w THEN v ELSE w

\* Get returns: with the page v, or with an error when v = 0.
Answer(r, v, failed) ==
    /\ req' = [req EXCEPT ![r] = [@ EXCEPT !.pc = "answered", !.page = v, !.failed = failed]]
    /\ seen' = Newer(v, seen)

Unlock == lock' = Nobody

--------------------------------------------------------------------------------
(***************************************************************************)
(* A request.                                                               *)
(***************************************************************************)
Ask(r) ==
    /\ req[r].pc \in {"idle", "answered"}
    /\ req' = [req EXCEPT ![r] = [Idle EXCEPT !.pc = "look", !.floor = seen]]
    /\ UNCHANGED <<copy, lock, source, spent, history>>

\* Under the read lock, which nobody gets while the write lock is held.
ReadCached(r) ==
    /\ At(r, "look")
    /\ lock = Nobody
    /\ IF Fresh THEN Answer(r, content, FALSE) ELSE Goto(r, "lock") /\ seen' = seen
    /\ UNCHANGED <<copy, lock, source, spent, gone>>

TakeLock_Shared(r) ==
    /\ At(r, "lock")
    /\ lock' = r
    /\ Goto(r, "check")
    /\ UNCHANGED <<copy, source, spent, history>>

TakeLock(r) ==
    /\ At(r, "lock")
    /\ lock = Nobody
    /\ lock' = r
    /\ Goto(r, "check")
    /\ UNCHANGED <<copy, source, spent, history>>

CheckAgain_Never(r) ==
    /\ At(r, "check")
    /\ Goto(r, "fetch")
    /\ spent' = 0
    /\ UNCHANGED <<copy, lock, source, history>>

CheckAgain(r) ==
    /\ At(r, "check")
    /\ IF Fresh
         THEN Answer(r, content, FALSE) /\ Unlock /\ UNCHANGED spent
         ELSE Goto(r, "fetch") /\ spent' = 0 /\ UNCHANGED <<lock, seen>>
    /\ UNCHANGED <<copy, source, gone>>

\* The source answers 200 with the version it has; the body is on its way.
Respond(r) ==
    /\ At(r, "fetch")
    /\ req' = [req EXCEPT ![r] = [@ EXCEPT !.pc = "body", !.page = source]]
    /\ UNCHANGED <<copy, lock, source, spent, history>>

Store(r) ==
    /\ At(r, "body")
    /\ content' = req[r].page
    /\ age' = 0
    /\ Answer(r, req[r].page, FALSE)
    /\ Unlock
    /\ UNCHANGED <<source, spent, gone>>

FetchFails_Renews(r) ==
    /\ At(r, "fetch") \/ At(r, "body")
    /\ Answer(r, IF HasContent THEN content ELSE 0, TRUE)
    /\ age' = 0
    /\ Unlock
    /\ UNCHANGED <<content, source, spent, gone>>

FetchFails_Refuses(r) ==
    /\ At(r, "fetch") \/ At(r, "body")
    /\ Answer(r, 0, TRUE)
    /\ Unlock
    /\ UNCHANGED <<copy, source, spent, gone>>

FetchFails_KeepsLock(r) ==
    /\ At(r, "fetch") \/ At(r, "body")
    /\ Answer(r, IF HasContent THEN content ELSE 0, TRUE)
    /\ UNCHANGED <<copy, lock, source, spent, gone>>

\* No connection, the time limit, another status, a body that ends early or is too
\* large: the old page if there is one.
FetchFails(r) ==
    /\ At(r, "fetch") \/ At(r, "body")
    /\ Answer(r, IF HasContent THEN content ELSE 0, TRUE)
    /\ Unlock
    /\ UNCHANGED <<copy, source, spent, gone>>

--------------------------------------------------------------------------------
(***************************************************************************)
(* The source and the clock.                                                *)
(***************************************************************************)
Publish ==
    /\ source < MaxVersion
    /\ source' = source + 1
    /\ UNCHANGED <<copy, lock, req, spent, history>>

Fetching(r) == At(r, "fetch") \/ At(r, "body")

\* The client ends a fetch that has taken MaxFetch.
Tick ==
    /\ (\E r \in Requests : Fetching(r)) => spent < MaxFetch
    /\ spent' = IF \E r \in Requests : Fetching(r) THEN spent + 1 ELSE spent
    /\ age' = IF age < TTL THEN age + 1 ELSE age
    /\ gone' = [v \in Versions |-> IF v < source /\ gone[v] < Longest THEN gone[v] + 1 ELSE gone[v]]
    /\ UNCHANGED <<content, lock, req, source, seen>>

Get(r) == CheckAgain(r) \/ Respond(r) \/ Store(r) \/ FetchFails(r)

CacheNext ==
    \/ \E r \in Requests : Ask(r) \/ ReadCached(r) \/ TakeLock(r) \/ Get(r)
    \/ Publish
    \/ Tick

CacheSpec == CacheInit /\ [][CacheNext]_cacheVars

\* A goroutine that can run does, a fetch ends, and Go's locks let everybody in
\* who waits: a reader when the writer leaves, a writer by its starvation mode.
FairCacheSpec ==
    /\ CacheSpec
    /\ \A r \in Requests : WF_cacheVars(Get(r)) /\ SF_cacheVars(ReadCached(r)) /\ SF_cacheVars(TakeLock(r))

--------------------------------------------------------------------------------
(***************************************************************************)
(* Properties.                                                              *)
(***************************************************************************)
\* A request is never answered with an older page than one that was answered before
\* it came: fetches do not overtake each other on their way into the cache.
PagesNeverGoBack ==
    \A r \in Requests : (At(r, "answered") /\ req[r].page # 0) => req[r].page >= req[r].floor

\* "Double-check after acquiring write lock": the source is asked only while there is
\* no copy or it has expired; requests that waited for a fetch do not repeat it.
FetchesOnlyWhenExpired == \A r \in Requests : Fetching(r) => ~Fresh

\* A page that is served without a failed attempt to refresh it was the source's less than the
\* TTL and the time of a fetch ago: the age of a copy is counted from the end of its
\* fetch, and a failure does not renew it.
PagesAreRecent ==
    [][\A r \in Requests :
          (~At(r, "answered") /\ req'[r].pc = "answered" /\ ~req'[r].failed) =>
              gone[req'[r].page] < Longest]_cacheVars

\* "Failed to refresh external page, serving stale content": once somebody was answered with
\* a page nobody is refused, unless the source has come to serve an empty page,
\* which replaces a good copy and counts as none.
ServedOnceServedAlways ==
    \A r \in Requests :
        (At(r, "answered") /\ req[r].page = 0) =>
            req[r].floor = 0 \/ \E v \in EmptyPages : v <= source

\* Every request is answered, however often the source fails.
EveryRequestIsAnswered == \A r \in Requests : At(r, "look") ~> At(r, "answered")
================================================================================
