-------------------------- MODULE ResolutionCache --------------------------
(***************************************************************************)
(* Whether an open issue looks resolved (ingestion/comments.py): the pages *)
(* of comments that are fetched while people go on commenting, the verdict *)
(* on them, and the cache that the threads of /api/resolution share.       *)
(*                                                                         *)
(* The comments of an issue are numbered in the order in which GitHub      *)
(* returns them; none is deleted.  A comment is what the detector asks of  *)
(* it: whether it is a bot's, a maintainer's, and has a signal.            *)
(***************************************************************************)
EXTENDS Integers, Sequences, FiniteSets

CONSTANTS
    Workers,     \* the threads of /api/resolution
    Issues,
    Kinds,       \* the comments that may be posted
    FirstComments, \* the threads an issue may have when the server starts
    PageSize,    \* per_page
    Limit,       \* limit of fetch_recent_comments
    StaleCount,  \* comments that make a quiet thread stale
    TTL, Max,    \* _CACHE_TTL_S and _CACHE_MAX
    MaxFetch,    \* assumption: no request is at work on its answer for longer
    MaxPosted,   \* bound: comments posted while the server runs
    MaxTime      \* bound: the clock

ASSUME CacheAssumption ==
    /\ IsFiniteSet(Workers)
    /\ Kinds \subseteq [bot : BOOLEAN, maintainer : BOOLEAN, signal : BOOLEAN]
    /\ Limit \in 1..PageSize /\ PageSize \in Nat /\ StaleCount \in Nat
    /\ TTL \in Nat \ {0} /\ Max \in Nat \ {0} /\ MaxPosted \in Nat /\ MaxTime \in Nat
    /\ MaxFetch \in Nat
    /\ FirstComments \subseteq Seq(Kinds)

VARIABLES
    now,
    thread, \* issue -> its comments
    posted,
    cache,  \* issue -> its entry, or NoEntry
    stage,
    asked,  \* per thread: the issue
    page,   \* per thread: the page rel="last" named
    items,  \* per thread: the numbers of the comments fetched
    known,  \* per thread, history: how many there were when the fetch began
    began,  \* per thread, history: when that was
    answer  \* per thread: its assessment, or NoAnswer

github == <<thread, posted>>
fetch == <<asked, page, items, known, began>>
RCVars == <<now, github, cache, stage, fetch, answer>>

Verdicts == {"high", "medium", "low", "none"}
NoEntry == [at |-> MaxTime + 1]
NoAnswer == [issue |-> {}]
\* Of an assessment, all but the verdict is history: the issue, the comments it
\* had when the fetch began, whether none of the requests for them failed, and
\* when the fetch began
Answers == [issue : Issues, verdict : Verdicts, known : Nat, whole : BOOLEAN,
            began : 0..MaxTime]

RCTypeOK ==
    /\ now \in 0..MaxTime
    /\ thread \in [Issues -> Seq(Kinds)] /\ posted \in 0..MaxPosted
    /\ cache \in [Issues -> {NoEntry} \cup [at : 0..MaxTime, value : Answers]]
    /\ Cardinality({i \in Issues : cache[i] # NoEntry}) <= Max
    /\ stage \in [Workers -> {"idle", "first", "last", "prev", "body", "put", "answered"}]
    /\ asked \in [Workers -> Issues] /\ page \in [Workers -> Nat]
    /\ items \in [Workers -> SUBSET Nat] /\ known \in [Workers -> Nat]
    /\ began \in [Workers -> 0..MaxTime]
    /\ answer \in [Workers -> Answers \cup {NoAnswer}]

RCInit ==
    /\ now = 0
    /\ thread \in [Issues -> FirstComments] /\ posted = 0
    /\ cache = [i \in Issues |-> NoEntry]
    /\ stage = [t \in Workers |-> "idle"] /\ asked \in [Workers -> Issues]
    /\ page = [t \in Workers |-> 0] /\ items = [t \in Workers |-> {}]
    /\ known = [t \in Workers |-> 0] /\ began = [t \in Workers |-> 0] /\ answer = [t \in Workers |-> NoAnswer]

To(t, label) == stage' = [stage EXCEPT ![t] = label]

\* From the miss in the cache to the put
Working(t) == stage[t] \in {"first", "last", "prev", "body", "put"}

Tick ==
    /\ now < MaxTime /\ now' = now + 1
    /\ \A t \in Workers : Working(t) => now - began[t] < MaxFetch
    /\ UNCHANGED <<github, cache, stage, fetch, answer>>

Comment(i, kind) ==
    /\ posted < MaxPosted /\ posted' = posted + 1
    /\ thread' = [thread EXCEPT ![i] = Append(@, kind)]
    /\ UNCHANGED <<now, cache, stage, fetch, answer>>
-----------------------------------------------------------------------------
(* assess_issue, up to the cache: _cache_get.  Without a token nothing is  *)
(* fetched or cached.                                                      *)

Fresh(entry) == entry # NoEntry /\ now - entry.at < TTL

\* Mutant: an entry that is used is fresh again
HitRefreshes(t) ==
    /\ stage[t] = "idle" /\ Fresh(cache[asked[t]])
    /\ answer' = [answer EXCEPT ![t] = cache[asked[t]].value]
    /\ cache' = [cache EXCEPT ![asked[t]].at = now]
    /\ To(t, "answered")
    /\ UNCHANGED <<now, github, fetch>>

CacheHit(t) ==
    /\ stage[t] = "idle" /\ Fresh(cache[asked[t]])
    /\ answer' = [answer EXCEPT ![t] = cache[asked[t]].value]
    /\ To(t, "answered")
    /\ UNCHANGED <<now, github, cache, fetch>>

CacheMiss(t) ==
    /\ stage[t] = "idle" /\ ~Fresh(cache[asked[t]])
    /\ cache' = [cache EXCEPT ![asked[t]] = NoEntry]
    /\ known' = [known EXCEPT ![t] = Len(thread[asked[t]])]
    /\ began' = [began EXCEPT ![t] = now]
    /\ To(t, "first")
    /\ UNCHANGED <<now, github, asked, page, items, answer>>
-----------------------------------------------------------------------------
(* fetch_recent_comments: each request sees the comments of its moment     *)

Thread(t) == thread[asked[t]]

PageOf(t, p) == {n \in DOMAIN Thread(t) : (n - 1) \div PageSize = p - 1}

LastPageOf(t) == (Len(Thread(t)) + PageSize - 1) \div PageSize

FirstPage(t) ==
    /\ stage[t] = "first"
    /\ items' = [items EXCEPT ![t] = PageOf(t, 1)]
    /\ page' = [page EXCEPT ![t] = LastPageOf(t)]
    /\ To(t, IF LastPageOf(t) > 1 THEN "last" ELSE "body")
    /\ UNCHANGED <<now, github, cache, asked, known, began, answer>>

\* Mutant: the last page is enough, however short
LastPageOnly(t) ==
    /\ stage[t] = "last"
    /\ items' = [items EXCEPT ![t] = PageOf(t, page[t])]
    /\ To(t, "body")
    /\ UNCHANGED <<now, github, cache, asked, page, known, began, answer>>

LastPage(t) ==
    /\ stage[t] = "last"
    /\ items' = [items EXCEPT ![t] = PageOf(t, page[t])]
    /\ To(t, IF Cardinality(PageOf(t, page[t])) < Limit THEN "prev" ELSE "body")
    /\ UNCHANGED <<now, github, cache, asked, page, known, began, answer>>

PrevPage(t) ==
    /\ stage[t] = "prev"
    /\ items' = [items EXCEPT ![t] = @ \cup PageOf(t, page[t] - 1)]
    /\ To(t, "body")
    /\ UNCHANGED <<now, github, cache, asked, page, known, began, answer>>

\* Any request may fail: there are no comments then
PageFails(t) ==
    /\ stage[t] \in {"first", "last", "prev"}
    /\ items' = [items EXCEPT ![t] = {}] /\ page' = [page EXCEPT ![t] = 0]
    /\ To(t, "body")
    /\ UNCHANGED <<now, github, cache, asked, known, began, answer>>

\* items[-limit:]
Recent(t) == {n \in items[t] : Cardinality({m \in items[t] : m > n}) < Limit}
-----------------------------------------------------------------------------
(* detect_resolution                                                       *)

Human(t) == {n \in Recent(t) : ~Thread(t)[n].bot}

Signals(t) == {n \in Human(t) : Thread(t)[n].signal}

\* body: the body was fetched and has a signal; quiet: the youngest human comment
\* is at least _STALE_DAYS old
Verdict(t, body, quiet) ==
    IF \E n \in Signals(t) : Thread(t)[n].maintainer THEN "high"
    ELSE IF body \/ Signals(t) # {} THEN "medium"
    ELSE IF Cardinality(Recent(t)) >= StaleCount /\ Human(t) # {} /\ quiet THEN "low"
    ELSE "none"

\* The body is fetched, or its request fails; then the detector runs
Assess(t) ==
    /\ stage[t] = "body" /\ To(t, "put")
    /\ \E body, quiet \in BOOLEAN :
          answer' = [answer EXCEPT ![t] =
              [issue |-> asked[t], verdict |-> Verdict(t, body, quiet), known |-> known[t],
               whole |-> items[t] # {} \/ known[t] = 0, began |-> began[t]]]
    /\ UNCHANGED <<now, github, cache, fetch>>
-----------------------------------------------------------------------------
(* _cache_put                                                              *)

Cached(c) == {i \in Issues : c[i] # NoEntry}

\* Entries that have just reached the TTL stay here, although no longer fresh
Purged(c) ==
    [i \in Issues |-> IF c[i] # NoEntry /\ c[i].at < now - TTL THEN NoEntry ELSE c[i]]

Oldest(c) == {i \in Cached(c) : \A j \in Cached(c) : c[i].at <= c[j].at}

\* The caches that may be left once there is room for one entry more
Room(c) ==
    IF Cardinality(Cached(c)) < Max THEN {c}
    ELSE IF Cardinality(Cached(Purged(c))) < Max THEN {Purged(c)}
    ELSE {[Purged(c) EXCEPT ![i] = NoEntry] : i \in Oldest(Purged(c))}

Put(t) ==
    /\ stage[t] = "put" /\ To(t, "answered")
    /\ \E c \in Room(cache) :
          cache' = [c EXCEPT ![asked[t]] = [at |-> now, value |-> answer[t]]]
    /\ UNCHANGED <<now, github, fetch, answer>>

\* The answer is sent; the thread takes the next request
NextRequest(t) ==
    /\ stage[t] = "answered" /\ To(t, "idle")
    /\ asked' \in {[asked EXCEPT ![t] = i] : i \in Issues}
    /\ answer' = [answer EXCEPT ![t] = NoAnswer]
    /\ items' = [items EXCEPT ![t] = {}] /\ page' = [page EXCEPT ![t] = 0]
    /\ known' = [known EXCEPT ![t] = 0] /\ began' = [began EXCEPT ![t] = 0]
    /\ UNCHANGED <<now, github, cache>>
-----------------------------------------------------------------------------
FetchComments(t) == FirstPage(t) \/ LastPage(t) \/ PrevPage(t) \/ PageFails(t)

WorkerStep(t) == \/ CacheHit(t) \/ CacheMiss(t) \/ FetchComments(t) \/ Assess(t) \/ Put(t)
                 \/ NextRequest(t)

RCNext == \/ \E t \in Workers : WorkerStep(t)
          \/ \E i \in Issues, kind \in Kinds : Comment(i, kind)
          \/ Tick

RCSpec == RCInit /\ [][RCNext]_RCVars
-----------------------------------------------------------------------------
(*                               Properties                                *)

MaintainerSignal(comment) == comment.maintainer /\ comment.signal /\ ~comment.bot

\* A maintainer who says that the issue is fixed is heard: when the fetch began
\* after that comment, none of its requests failed and fewer than the limit were
\* posted since, the confidence is high, whatever is posted between the requests
\* for the pages and wherever the comment is in them.  And it is high for
\* nothing else: not for a bot, nor for the body (fetch_recent_comments,
\* detect_resolution).
MaintainerHeard ==
    \A t \in Workers : answer[t] # NoAnswer =>
        LET a == answer[t]
            said == {n \in DOMAIN thread[a.issue] : MaintainerSignal(thread[a.issue][n])}
        IN  /\ a.verdict = "high" => said # {}
            /\ a.whole /\ (\E n \in said : n <= a.known /\ Len(thread[a.issue]) - n < Limit)
                  => a.verdict = "high"

\* An answer that is sent is of a fetch begun less than the TTL and one request's
\* time ago, so it knows every comment that is older, however many requests used
\* the entry, and although a slow thread may put an older assessment over a newer
\* one, or evict it (_cache_get, _cache_put).
AnswersRecent ==
    [][\A t \in Workers : stage[t] # "answered" /\ stage'[t] = "answered" =>
          now - answer'[t].began < TTL + MaxFetch]_RCVars
=============================================================================
