------------------------------ MODULE EventLog ------------------------------
(***************************************************************************)
(* What a persisted run promises its readers (ADR-0008), with no process,  *)
(* thread, poll or partial write in it: every run is a log that only       *)
(* grows; its pipeline writes while the run is open and never after; a run *)
(* is marked interrupted only when it is over and nothing in its log says  *)
(* so; a reader is handed a growing prefix of the log and is told "done"   *)
(* only when that prefix holds a terminal event or is the whole log of a   *)
(* run that is over.                                                       *)
(***************************************************************************)
EXTENDS Naturals, Sequences

CONSTANTS
    LogRuns,      \* the runs
    Readers,      \* the readers
    NoLog,        \* "no run": a reader that follows none
    ByPipeline,   \* entries only the pipeline of the run writes
    ByOthers,     \* entries anybody may write at any time
    Marker,       \* the entry that declares a run interrupted
    Ending        \* entries that end a run, for a reader

VARIABLES
    log,          \* run -> sequence of entries
    open,         \* the runs whose pipeline may still write
    follows,      \* reader -> the run it follows, or NoLog
    upTo,         \* reader -> length of the prefix it was handed
    told          \* readers that were told "done"

logVars == <<log, open, follows, upTo, told>>

Ended(r, n) == \E i \in 1..n : log[r][i] \in Ending

LogInit ==
    /\ log = [r \in LogRuns |-> <<>>]
    /\ open = {}
    /\ follows = [c \in Readers |-> NoLog]
    /\ upTo = [c \in Readers |-> 0]
    /\ told = {}

\* The pipeline of r starts: nobody was told yet that r is over
Open(r) ==
    /\ r \notin open /\ log[r] = <<>>
    /\ \A c \in told : follows[c] # r
    /\ open' = open \cup {r}
    /\ UNCHANGED <<log, follows, upTo, told>>

\* The entry, and the run being over if it is the pipeline's last one
Write(r, e) ==
    /\ e \in ByPipeline => r \in open
    /\ e = Marker => r \notin open /\ ~Ended(r, Len(log[r]))
    /\ log' = [log EXCEPT ![r] = Append(@, e)]
    /\ open' \in {open, open \ {r}}
    /\ UNCHANGED <<follows, upTo, told>>

Close(R) ==
    /\ open' = open \ R
    /\ UNCHANGED <<log, follows, upTo, told>>

Follow(c, r) ==
    /\ follows' = [follows EXCEPT ![c] = r]
    /\ upTo' = [upTo EXCEPT ![c] = 0]
    /\ told' = told \ {c}
    /\ UNCHANGED <<log, open>>

\* What reader c is handed next, and whether it is told "done" with it
Hand(c) ==
    /\ c \notin told /\ follows[c] # NoLog
    /\ \E n \in upTo[c]..Len(log[follows[c]]) :
          /\ upTo' = [upTo EXCEPT ![c] = n]
          /\ \/ told' = told
             \/ /\ told' = told \cup {c}
                /\ \/ Ended(follows[c], n)
                   \/ n = Len(log[follows[c]]) /\ follows[c] \notin open
    /\ UNCHANGED <<log, open, follows>>

\* Readers leave; when the server dies, all of them at once and every run
\* that was open is over
Leave(C, R) ==
    /\ follows' = [c \in Readers |-> IF c \in C THEN NoLog ELSE follows[c]]
    /\ upTo' = [c \in Readers |-> IF c \in C THEN 0 ELSE upTo[c]]
    /\ told' = told \ C
    /\ open' = open \ R
    /\ UNCHANGED log

LogNext ==
    \/ \E r \in LogRuns :
          \/ Open(r) \/ Close({r})
          \/ \E e \in ByPipeline \cup ByOthers \cup {Marker} : Write(r, e)
    \/ \E c \in Readers :
          \/ \E r \in LogRuns : Follow(c, r)
          \/ Hand(c)
          \/ Leave({c}, {})
    \/ Leave(Readers, LogRuns)

LogSpec == LogInit /\ [][LogNext]_logVars
=============================================================================
