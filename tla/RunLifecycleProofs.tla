------------------------- MODULE RunLifecycleProofs -------------------------
(***************************************************************************)
(* What RunLifecycle promises, for every set of runs, verify threads and   *)
(* clients and every bound: IInv is an inductive invariant, and the safety *)
(* properties TLC checks on small instances follow from it.  One lemma per *)
(* action says that its steps keep IInv; the conjuncts an action disturbs  *)
(* have a step of their own in it.  Last, that it implements EventLog.     *)
(***************************************************************************)
EXTENDS RunLifecycle, TLAPS
-----------------------------------------------------------------------------
(* The conjuncts that need more than the definitions.                      *)

\* What FinishWrite does to the file: one line more, and which
LEMMA OneLineMore ==
    ASSUME IInv, NEW r \in Runs, FinishWrite(r)
    PROVE  /\ \A q \in Runs \ {r} : lines'[q] = lines[q]
           /\ Len(lines[r]) \in Nat
           /\ Len(lines'[r]) = Len(lines[r]) + 1
           /\ \A i \in 1..Len(lines[r]) : lines'[r][i] = lines[r][i]
           /\ lines'[r][Len(lines[r]) + 1] \in {BadLine, pend[r].ev}
<1>1. lines \in [Runs -> Seq(Line)]
  BY DEF IInv, TypeOK
<1>2. lines' = [lines EXCEPT ![r] = Append(@, IF torn[r] THEN BadLine ELSE pend[r].ev)]
  BY DEF FinishWrite
<1>3. pend[r].ev \in Line /\ BadLine \in Line
  BY DEF FinishWrite, IInv, TypeOK, PendingAppend, Line
<1> QED BY <1>1, <1>2, <1>3

\* What the end of an append does to the threads of the runs
LEMMA OneWriterGoesOn ==
    ASSUME IInv, NEW r \in Runs, FinishWrite(r) \/ FailWrite(r)
    PROVE  /\ \A q \in Runs \ {r} : pc'[q] = pc[q]
           /\ pend[r] \in PendingAppend
           /\ pend[r].who # "pipeline" => pc'[r] = pc[r]
           /\ pend[r].who = "pipeline" =>
                 Producing(r) /\ pc'[r] \in {"boot", "run", "raised", "exit"}
<1>1. pend[r] \in PendingAppend /\ pc \in [Runs -> PcStates]
  BY DEF FinishWrite, FailWrite, IInv, TypeOK
<1>2. pend[r].who = "pipeline" => Producing(r)
  BY DEF FinishWrite, FailWrite, IInv, AppendsAllowed
<1>3. CASE FinishWrite(r)
  BY <1>1, <1>2, <1>3 DEF FinishWrite, WriterGoesOn, AfterEmit, Producing
<1>4. CASE FailWrite(r)
  BY <1>1, <1>2, <1>4 DEF FailWrite, WriterGoesOn, Producing
<1> QED BY <1>3, <1>4

\* What may have been written, and what that says of the run
LEMMA WrittenLine ==
    ASSUME IInv, NEW r \in Runs, FinishWrite(r)
    PROVE  LET e == lines'[r][Len(lines[r]) + 1] IN
           /\ e \in PipelineEvents => pend[r].who = "pipeline"
           /\ e \in {"end", "error"} => pc'[r] = "exit"
           /\ e = "interrupted" => pc'[r] \in Left /\ ~HasTerminal(lines[r])
<1>1. lines'[r][Len(lines[r]) + 1] \in {BadLine, pend[r].ev}
  BY OneLineMore
<1>2. pend[r].who \in Writers /\ pend[r].who # "sweep" => pend[r].ev # "interrupted"
  BY OneWriterGoesOn DEF FinishWrite, IInv, AppendsAllowed, PendingAppend, Writers, VerifyEvents, PipelineEvents
<1>3. pend[r].who # "pipeline" => pend[r].ev \notin PipelineEvents
  BY OneWriterGoesOn DEF FinishWrite, IInv, AppendsAllowed, PendingAppend, Writers, VerifyEvents, PipelineEvents
<1>4. pend[r].who = "sweep" => pc[r] \in Left /\ pc'[r] = pc[r] /\ ~HasTerminal(lines[r])
  BY OneWriterGoesOn DEF FinishWrite, IInv, AppendsAllowed
<1>5. pend[r].who = "pipeline" /\ pend[r].ev \in {"end", "error"} => pc'[r] = "exit"
  BY DEF FinishWrite, WriterGoesOn, AfterEmit, IInv, TypeOK
<1>6. pend[r].who \in Writers
  BY OneWriterGoesOn DEF PendingAppend
<1>7. BadLine \notin PipelineEvents /\ BadLine # "interrupted" /\ {"end", "error"} \subseteq PipelineEvents
  BY DEF BadLine, PipelineEvents
<1> QED BY <1>1, <1>2, <1>3, <1>4, <1>5, <1>6, <1>7

\* A line appended to a file cannot contradict the end of its run
LEMMA FinishKeepsTerminals ==
    ASSUME IInv, NEW r \in Runs, FinishWrite(r)
    PROVE  TerminalsFinal'
<1> SUFFICES ASSUME NEW q \in Runs, NEW i \in 1..Len(lines'[q])
             PROVE  /\ lines'[q][i] \in {"end", "error"} => pc'[q] \in Over
                    /\ lines'[q][i] = "interrupted" => pc'[q] \in Left
  BY DEF TerminalsFinal
<1>1. CASE q # r
  BY <1>1, OneLineMore, OneWriterGoesOn DEF IInv, TerminalsFinal
<1>2. CASE q = r /\ i = Len(lines[r]) + 1
  BY <1>2, WrittenLine DEF Over
<1>3. CASE q = r /\ i \in 1..Len(lines[r])
  <2>1. lines'[r][i] = lines[r][i]
    BY <1>3, OneLineMore
  <2>2. /\ lines[r][i] \in {"end", "error"} => pc[r] \in Over
        /\ lines[r][i] = "interrupted" => pc[r] \in Left
    BY <1>3 DEF IInv, TerminalsFinal
  <2>3. pc[r] \in Over => ~Producing(r)
    BY DEF Producing, Over
  <2>4. pc[r] \in Over \/ pc[r] \in Left => pc'[r] = pc[r]
    BY <2>3, OneWriterGoesOn DEF Over, Left
  <2> QED BY <1>3, <2>1, <2>2, <2>4
<1> QED BY <1>1, <1>2, <1>3, OneLineMore

\* An interrupted mark is written into a file without terminal event, and nothing
\* terminal of the pipeline can follow it
LEMMA FinishKeepsHonesty ==
    ASSUME IInv, NEW r \in Runs, FinishWrite(r), TerminalsFinal'
    PROVE  HonestInterruption'
<1> SUFFICES ASSUME NEW q \in Runs, NEW i \in 1..Len(lines'[q]), lines'[q][i] = "interrupted"
             PROVE  /\ ~Producing(q)'
                    /\ \A j \in 1..Len(lines'[q]) \ {i} :
                          lines'[q][j] \notin {"end", "error", "interrupted"}
  BY DEF HonestInterruption
<1>1. pc'[q] \in Left
  BY DEF TerminalsFinal
<1>2. ~Producing(q)'
  BY <1>1 DEF Producing, Left
<1>3. CASE q # r
  BY <1>2, <1>3, OneLineMore DEF IInv, HonestInterruption
<1>4. CASE q = r
  <2> DEFINE n == Len(lines[r]) + 1
  <2>1. pc'[r] = pc[r] /\ ~Producing(r)
    BY <1>1, <1>4, OneWriterGoesOn DEF Left, Producing
  <2>2. pend[r].who # "pipeline"
    BY <2>1, OneWriterGoesOn
  <2>3. lines'[r][n] \notin {"end", "error"}
    BY <2>2, WrittenLine DEF PipelineEvents
  <2>4. CASE i = n
    <3>1. \A j \in 1..Len(lines[r]) : lines[r][j] \notin Terminal
      BY <1>4, <2>4, WrittenLine DEF HasTerminal
    <3> QED BY <1>2, <1>4, <2>4, <3>1, OneLineMore DEF Terminal
  <2>5. CASE i \in 1..Len(lines[r])
    <3>1. lines[r][i] = "interrupted"
      BY <1>4, <2>5, OneLineMore
    <3>2. \A j \in 1..Len(lines[r]) \ {i} : lines[r][j] \notin {"end", "error", "interrupted"}
      BY <2>5, <3>1 DEF IInv, HonestInterruption
    <3>3. lines'[r][n] # "interrupted"
      BY <2>5, <3>1, WrittenLine DEF HasTerminal, Terminal
    <3> QED BY <1>2, <1>4, <2>3, <3>2, <3>3, OneLineMore
  <2> QED BY <1>4, <2>4, <2>5, OneLineMore
<1> QED BY <1>3, <1>4

\* Files only grow, so what a stream saw stays true
LEMMA FinishKeepsMemory ==
    ASSUME IInv, NEW r \in Runs, FinishWrite(r)
    PROVE  StreamsRemember'
<1> SUFFICES ASSUME NEW c \in Clients, sPc[c] # "idle"
             PROVE  /\ sSaw[c] <=> \E i \in sSent[c] : lines'[sRun[c]][i] \in Terminal
                    /\ sPc[c] = "read" /\ ~sAlive[c] /\ sRun[c] \in ApiRuns
                          => pc'[sRun[c]] \in Left
  BY DEF StreamsRemember, FinishWrite, streamVars
<1>1. sRun[c] \in Runs
  BY DEF IInv, FilesExist, TypeOK
<1>2. \A i \in sSent[c] : i \in 1..Len(lines[sRun[c]])
  BY DEF IInv, StreamExact, Parsed
<1>3. \A i \in sSent[c] : lines'[sRun[c]][i] = lines[sRun[c]][i]
  BY <1>1, <1>2, OneLineMore
<1>4. sSaw[c] <=> \E i \in sSent[c] : lines'[sRun[c]][i] \in Terminal
  BY <1>3 DEF IInv, StreamsRemember
<1>5. sPc[c] = "read" /\ ~sAlive[c] /\ sRun[c] \in ApiRuns => pc[sRun[c]] \in Left
  BY DEF IInv, StreamsRemember
<1>6. pc[sRun[c]] \in Left => pc'[sRun[c]] = pc[sRun[c]]
  BY <1>1, OneWriterGoesOn DEF Left, Producing
<1> QED BY <1>4, <1>5, <1>6

\* No pipeline event is appended behind the back of a client told "done"
LEMMA FinishKeepsDone ==
    ASSUME IInv, NEW r \in Runs, FinishWrite(r)
    PROVE  DoneIsFinal'
<1> SUFFICES ASSUME NEW c \in Clients, sPc[c] = "done", sRun[c] \in ApiRuns,
                    \A i \in sSent[c] : lines'[sRun[c]][i] # "verify_error"
             PROVE  /\ pc'[sRun[c]] \in Over
                    /\ \A i \in 1..Len(lines'[sRun[c]]) :
                          lines'[sRun[c]][i] \in PipelineEvents => i \in sSent[c]
  BY DEF DoneIsFinal, FinishWrite, streamVars
<1>1. sRun[c] \in Runs
  BY DEF Runs
<1>2. \A i \in sSent[c] : i \in 1..Len(lines[sRun[c]])
  BY DEF IInv, StreamExact, Parsed
<1>3. \A i \in sSent[c] : lines'[sRun[c]][i] = lines[sRun[c]][i]
  BY <1>1, <1>2, OneLineMore
<1>4. /\ pc[sRun[c]] \in Over
      /\ \A i \in 1..Len(lines[sRun[c]]) :
            lines[sRun[c]][i] \in PipelineEvents => i \in sSent[c]
  BY <1>3 DEF IInv, DoneIsFinal
<1>5. pc'[sRun[c]] = pc[sRun[c]] /\ ~Producing(sRun[c])
  BY <1>1, <1>4, OneWriterGoesOn DEF Over, Producing
<1>6. CASE sRun[c] # r
  BY <1>1, <1>4, <1>5, <1>6, OneLineMore
<1>7. CASE sRun[c] = r
  <2>1. lines'[r][Len(lines[r]) + 1] \notin PipelineEvents
    BY <1>5, <1>7, OneWriterGoesOn, WrittenLine
  <2> QED BY <1>4, <1>5, <1>7, <2>1, OneLineMore
<1> QED BY <1>6, <1>7

\* A failed append leaves the types alone
LEMMA FailKeepsTypes ==
    ASSUME IInv, NEW r \in Runs, FailWrite(r)
    PROVE  TypeOK'
<1>1. torn' \in [Runs -> BOOLEAN] /\ pend' \in [Runs -> PendingAppend \cup {NoWrite}]
  BY ConstantsAssumption DEF FailWrite, IInv, TypeOK
<1>2. pc' \in [Runs -> PcStates]
  BY DEF FailWrite, WriterGoesOn, IInv, TypeOK, PcStates
<1>3. job' \in [Verifiers -> Runs \cup {NoRun}] /\ sweepTodo' \subseteq Runs
  BY DEF FailWrite, WriterGoesOn, IInv, TypeOK
<1> QED BY <1>1, <1>2, <1>3 DEF FailWrite, streamVars, IInv, TypeOK

\* A failed append moves no thread that had emitted its last event
LEMMA FailKeepsTerminals ==
    ASSUME IInv, NEW r \in Runs, FailWrite(r)
    PROVE  TerminalsFinal'
<1>1. \A q \in Runs : pc[q] \in Over => pc'[q] = pc[q]
  BY OneWriterGoesOn DEF Over, Producing
<1> QED BY <1>1 DEF FailWrite, IInv, TerminalsFinal, Over, Left

\* A failed append takes no thread back into IN_FLIGHT
LEMMA FailKeepsMemory ==
    ASSUME IInv, NEW r \in Runs, FailWrite(r)
    PROVE  StreamsRemember'
<1>1. \A q \in Runs : pc[q] \in Left => pc'[q] = pc[q]
  BY OneWriterGoesOn DEF Left, Producing
<1> QED BY <1>1 DEF FailWrite, streamVars, IInv, StreamsRemember, Runs

\* A failed append revives no pipeline
LEMMA FailKeepsDone ==
    ASSUME IInv, NEW r \in Runs, FailWrite(r)
    PROVE  DoneIsFinal'
<1>1. \A q \in Runs : pc[q] \in Over => pc'[q] = pc[q]
  BY OneWriterGoesOn DEF Over, Producing
<1> QED BY <1>1 DEF FailWrite, streamVars, IInv, DoneIsFinal, Runs

\* The sweep marks only runs that are over and whose file has no terminal event
LEMMA MarkIsAllowed ==
    ASSUME IInv, NEW r \in Runs, SweepMark(r)
    PROVE  AppendsAllowed'
<1>1. r \in exists
  <2> SUFFICES ASSUME r \notin exists PROVE FALSE
    OBVIOUS
  <2>1. lines[r] = << >>
    BY DEF IInv, FilesExist
  <2> QED BY <2>1 DEF SweepMark, SweepMarks, Parsed
<1>2. pc[r] \in Left
  BY <1>1 DEF SweepMark, IInv, QuietUnlessUp, FilesExist, Left
<1>3. pend' = [pend EXCEPT ![r] = [who |-> "sweep", ev |-> "interrupted"]]
  BY DEF SweepMark, BeginWrite
<1>4. \A q \in Runs : q # r => pend'[q] = pend[q]
  BY <1>3
<1>5. pend'[r] = [who |-> "sweep", ev |-> "interrupted"]
  BY <1>3 DEF IInv, TypeOK
<1>6. UNCHANGED <<proc, sweepTodo, pc, lines>>
  BY DEF SweepMark, procVars, threadVars
<1>7. "sweep" \notin Verifiers
  BY ConstantsAssumption
<1>8. proc = "sweep" /\ r \in sweepTodo /\ ~HasTerminal(lines[r])
  BY DEF SweepMark, SweepMarks
<1>9. ASSUME NEW q \in Runs, pend'[q] # NoWrite, q = r
      PROVE /\ pend'[q].who = "pipeline" => Producing(q)' /\ pend'[q].ev \in PipelineEvents
            /\ pend'[q].who \in Verifiers => pend'[q].ev \in VerifyEvents
            /\ pend'[q].who = "sweep" =>
                 /\ proc' = "sweep" /\ q \in sweepTodo' /\ pend'[q].ev = "interrupted"
                 /\ pc'[q] \in Left /\ ~HasTerminal(lines'[q])
  BY <1>2, <1>5, <1>6, <1>7, <1>8, <1>9
<1>10. \A q \in Runs : q # r => pend'[q] = NoWrite
  BY <1>4 DEF SweepMark
<1> QED BY <1>9, <1>10 DEF AppendsAllowed

\* A stream that found the thread of an API run gone is right for good
LEMMA SnapshotKeepsMemory ==
    ASSUME IInv, NEW c \in Clients, SnapshotAlive(c)
    PROVE  StreamsRemember'
<1>1. sRun[c] \in Runs /\ sRun[c] \in exists
  BY DEF SnapshotAlive, IInv, FilesExist, TypeOK
<1>2. sRun[c] \in ApiRuns /\ ~Alive(sRun[c]) => pc[sRun[c]] \in Left
  BY <1>1 DEF Alive, IInv, TypeOK, PcStates, FilesExist, ThreadsRegistered, ApiStarted, Left
<1>3. \A d \in Clients : d # c => sAlive'[d] = sAlive[d] /\ sPc'[d] = sPc[d]
  BY DEF SnapshotAlive, IInv, TypeOK
<1>4. sAlive'[c] = Alive(sRun[c])
  BY DEF SnapshotAlive, IInv, TypeOK
<1>5. UNCHANGED <<lines, pc, sRun, sSaw, sSent>> /\ sPc[c] = "poll"
  BY DEF SnapshotAlive, diskVars, threadVars
<1>6. \A d \in Clients : sPc[d] # "idle" =>
         (sSaw[d] <=> \E i \in sSent[d] : lines[sRun[d]][i] \in Terminal)
  BY DEF IInv, StreamsRemember
<1>7. \A d \in Clients : sPc'[d] # "idle" => sPc[d] # "idle"
  BY <1>3, <1>5
<1>8. ASSUME NEW d \in Clients
      PROVE  sPc'[d] = "read" /\ ~sAlive'[d] /\ sRun[d] \in ApiRuns => pc[sRun[d]] \in Left
  <2>1. CASE d = c
    BY <1>2, <1>4, <2>1
  <2>2. CASE d # c
    BY <1>3, <2>2 DEF IInv, StreamsRemember
  <2> QED BY <2>1, <2>2
<1> QED BY <1>5, <1>6, <1>7, <1>8 DEF StreamsRemember

\* What one pass of stream_run does to the client that made it
LEMMA OnePass ==
    ASSUME IInv, NEW c \in Clients, ReadPass(c)
    PROVE  /\ sRun[c] \in Runs /\ sPc[c] = "read"
           /\ sSent'[c] = Parsed(lines[sRun[c]])
           /\ sOff'[c] = Len(lines[sRun[c]])
           /\ sSaw'[c] \in BOOLEAN
           /\ sSaw'[c] <=> \E i \in sSent'[c] : lines[sRun[c]][i] \in Terminal
           /\ sPc'[c] = IF sSaw'[c] \/ ~sAlive[c] THEN "done" ELSE "poll"
           /\ \A d \in Clients \ {c} : /\ sSent'[d] = sSent[d] /\ sOff'[d] = sOff[d]
                                       /\ sSaw'[d] = sSaw[d] /\ sPc'[d] = sPc[d]
           /\ UNCHANGED <<procVars, diskVars, threadVars, sRun, sAlive>>
<1> DEFINE r   == sRun[c]
           new == {i \in Parsed(lines[r]) : i > sOff[c]}
           saw == sSaw[c] \/ \E i \in new : lines[r][i] \in Terminal
<1>1. sPc[c] = "read" /\ r \in Runs
  BY DEF ReadPass, IInv, FilesExist, TypeOK
<1>2. /\ sSent' = [sSent EXCEPT ![c] = @ \cup new]
      /\ sOff' = [sOff EXCEPT ![c] = Len(lines[r])]
      /\ sSaw' = [sSaw EXCEPT ![c] = saw]
      /\ sPc' = [sPc EXCEPT ![c] = IF saw \/ ~sAlive[c] THEN "done" ELSE "poll"]
  BY DEF ReadPass, NextOffset
<1>3. sSent[c] = {i \in Parsed(lines[r]) : i <= sOff[c]} /\ sOff[c] \in Nat
  BY <1>1 DEF IInv, StreamExact, TypeOK
<1>4. \A i \in Parsed(lines[r]) : i \in Nat
  BY DEF Parsed
<1>5. sSent[c] \cup new = Parsed(lines[r])
  BY <1>3, <1>4
<1>6. sSaw[c] <=> \E i \in sSent[c] : lines[r][i] \in Terminal
  BY <1>1 DEF IInv, StreamsRemember
<1>7. saw <=> \E i \in Parsed(lines[r]) : lines[r][i] \in Terminal
  BY <1>5, <1>6
<1>8. sSent'[c] = sSent[c] \cup new /\ sOff'[c] = Len(lines[r]) /\ sSaw'[c] = saw
  BY <1>2 DEF IInv, TypeOK
<1>9. sPc'[c] = IF saw \/ ~sAlive[c] THEN "done" ELSE "poll"
  BY <1>2 DEF IInv, TypeOK
<1>10. \A d \in Clients \ {c} : /\ sSent'[d] = sSent[d] /\ sOff'[d] = sOff[d]
                                /\ sSaw'[d] = sSaw[d] /\ sPc'[d] = sPc[d]
  BY <1>2 DEF IInv, TypeOK
<1>11. UNCHANGED <<procVars, diskVars, threadVars, sRun, sAlive>>
  BY DEF ReadPass
<1>12. sSaw[c] \in BOOLEAN
  BY DEF IInv, TypeOK
<1>14. saw \in BOOLEAN
  OBVIOUS
<1> HIDE DEF new, saw, r
<1>13. sSaw'[c] \in BOOLEAN
  BY <1>8, <1>14
<1> QED BY <1>1, <1>5, <1>7, <1>8, <1>9, <1>10, <1>11, <1>13 DEF r

\* A pass of a stream keeps the types
LEMMA ReadKeepsTypes ==
    ASSUME IInv, NEW c \in Clients, ReadPass(c)
    PROVE  TypeOK'
<1>1. UNCHANGED <<procVars, diskVars, threadVars, sRun, sAlive>>
  BY OnePass
<1>2. sSent'[c] \subseteq Nat /\ sOff'[c] \in Nat /\ sSaw'[c] \in BOOLEAN /\ sPc'[c] \in {"poll", "done"}
  BY OnePass DEF Parsed, IInv, TypeOK
<1>3. /\ DOMAIN sSent' = Clients /\ DOMAIN sOff' = Clients
      /\ DOMAIN sSaw' = Clients /\ DOMAIN sPc' = Clients
  BY DEF ReadPass, IInv, TypeOK
<1>4. /\ sSent' \in [Clients -> SUBSET Nat] /\ sOff' \in [Clients -> Nat]
      /\ sSaw' \in [Clients -> BOOLEAN] /\ sPc' \in [Clients -> {"idle", "poll", "read", "done"}]
  BY <1>2, <1>3, OnePass DEF ReadPass, IInv, TypeOK
<1> QED BY <1>1, <1>4 DEF procVars, diskVars, threadVars, IInv, TypeOK

\* A pass of a stream remembers the terminal events it saw
LEMMA ReadKeepsMemory ==
    ASSUME IInv, NEW c \in Clients, ReadPass(c)
    PROVE  StreamsRemember'
<1> SUFFICES ASSUME NEW d \in Clients, sPc'[d] # "idle"
             PROVE  /\ sSaw'[d] <=> \E i \in sSent'[d] : lines[sRun[d]][i] \in Terminal
                    /\ sPc'[d] = "read" /\ ~sAlive[d] /\ sRun[d] \in ApiRuns
                          => pc[sRun[d]] \in Left
  BY OnePass DEF StreamsRemember, diskVars, threadVars
<1>1. CASE d = c
  BY <1>1, OnePass
<1>2. CASE d # c
  BY <1>2, OnePass DEF IInv, StreamsRemember
<1> QED BY <1>1, <1>2

\* A stream that ends has read the whole file of a run that is over, or a terminal
\* event
LEMMA ReadKeepsDone ==
    ASSUME IInv, NEW c \in Clients, ReadPass(c)
    PROVE  DoneIsFinal'
<1> SUFFICES ASSUME NEW d \in Clients, sPc'[d] = "done", sRun[d] \in ApiRuns,
                    \A i \in sSent'[d] : lines[sRun[d]][i] # "verify_error"
             PROVE  /\ pc[sRun[d]] \in Over
                    /\ \A i \in 1..Len(lines[sRun[d]]) :
                          lines[sRun[d]][i] \in PipelineEvents => i \in sSent'[d]
  BY OnePass DEF DoneIsFinal, diskVars, threadVars
<1>1. CASE d # c
  BY <1>1, OnePass DEF IInv, DoneIsFinal
<1>2. CASE d = c
  <2>1. sSent'[d] = Parsed(lines[sRun[d]])
    BY <1>2, OnePass
  <2>2. BadLine \notin PipelineEvents
    BY DEF BadLine, PipelineEvents
  <2>3. \A i \in 1..Len(lines[sRun[d]]) :
           lines[sRun[d]][i] \in PipelineEvents => i \in sSent'[d]
    BY <2>1, <2>2 DEF Parsed
  <2>4. sSaw'[d] \/ ~sAlive[d]
    BY <1>2, OnePass
  <2>5. CASE ~sAlive[d]
    <3>1. sPc[d] = "read"
      BY <1>2, OnePass
    <3>2. pc[sRun[d]] \in Left
      BY <2>5, <3>1 DEF IInv, StreamsRemember
    <3> QED BY <2>3, <3>2 DEF Over, Left
  <2>6. CASE sSaw'[d]
    <3>1. PICK i \in sSent'[d] : lines[sRun[d]][i] \in Terminal
      BY <1>2, <2>6, OnePass
    <3>2. i \in 1..Len(lines[sRun[d]]) /\ sRun[d] \in Runs
      BY <2>1, <1>2, OnePass DEF Parsed
    <3>3. lines[sRun[d]][i] \in {"end", "error", "interrupted"}
      BY <3>1 DEF Terminal
    <3>4. pc[sRun[d]] \in Over
      BY <3>2, <3>3 DEF IInv, TerminalsFinal, Over, Left
    <3> QED BY <2>3, <3>4
  <2> QED BY <2>3, <2>4, <2>5, <2>6 DEF Over, Left
<1> QED BY <1>1, <1>2
-----------------------------------------------------------------------------
(* One lemma per action.                                                   *)

\* POST /api/run
LEMMA PostKeeps ==
    ASSUME IInv, NEW r \in ApiRuns, Post(r)
    PROVE  IInv'
<1>1. TypeOK'
  BY SMTT(10) DEF Post, StartThread, procVars, diskVars, threadVars, streamVars, IInv,
      TypeOK, Runs, PcStates, Writers, PendingAppend, EventTypes,
      PipelineEvents, VerifyEvents, Line, BadLine
<1>2. FilesExist'
  BY SMTT(10) DEF Post, StartThread, procVars, diskVars, threadVars, streamVars, IInv,
      FilesExist, TypeOK
<1>3. ThreadsRegistered'
  BY SMTT(10) DEF Post, StartThread, procVars, diskVars, threadVars, streamVars, IInv,
      ThreadsRegistered, TypeOK
<1>4. ApiStarted'
  BY SMTT(10) DEF Post, StartThread, procVars, diskVars, threadVars, streamVars, IInv,
      ApiStarted, Runs
<1>5. AppendsAllowed'
  <2>1. pc \in [Runs -> PcStates] /\ pend' = pend /\ pend[r] = NoWrite
    BY DEF Post, IInv, FilesExist, Runs, TypeOK
  <2>2. \A q \in Runs : q # r => pc'[q] = pc[q]
    BY <2>1 DEF Post, StartThread
  <2> QED BY <2>1, <2>2 DEF Post, procVars, IInv, AppendsAllowed, Producing
<1>6. QuietUnlessUp'
  BY SMTT(10) DEF Post, StartThread, procVars, diskVars, threadVars, streamVars, IInv,
      QuietUnlessUp, Left
<1>7. TerminalsFinal'
  BY SMTT(10) DEF Post, StartThread, procVars, diskVars, threadVars, streamVars, IInv,
      TerminalsFinal, Over, Left, FilesExist, TypeOK
<1>8. HonestInterruption'
  BY SMTT(10) DEF Post, StartThread, procVars, diskVars, threadVars, streamVars, IInv,
      HonestInterruption, TerminalsFinal, Producing, Over, Left, FilesExist,
      TypeOK
<1>9. StreamsRemember'
  BY SMTT(10) DEF Post, StartThread, procVars, diskVars, threadVars, streamVars, IInv,
      StreamsRemember, Terminal, Left, ApiStarted, ThreadsRegistered,
      FilesExist, TypeOK, Runs, PcStates
<1>10. DoneIsFinal'
  BY SMTT(10) DEF Post, StartThread, procVars, diskVars, threadVars, streamVars, IInv,
      DoneIsFinal, Over, Left, FilesExist, TypeOK
<1>11. StreamExact'
  BY SMTT(10) DEF Post, StartThread, procVars, diskVars, threadVars, streamVars, IInv,
      StreamExact, Parsed
<1> QED BY <1>1, <1>2, <1>3, <1>4, <1>5, <1>6, <1>7, <1>8, <1>9, <1>10, <1>11
    DEF IInv

\* The wave touches the run file
LEMMA WaveCreateKeeps ==
    ASSUME IInv, NEW r \in WaveRuns, WaveCreate(r)
    PROVE  IInv'
<1>1. TypeOK'
  BY SMTT(10) DEF WaveCreate, procVars, diskVars, threadVars, streamVars,
      IInv, TypeOK, Runs, PcStates, Writers, PendingAppend, EventTypes,
      PipelineEvents, VerifyEvents, Line, BadLine
<1>2. FilesExist'
  BY SMTT(10) DEF WaveCreate, procVars, diskVars, threadVars, streamVars,
      IInv, FilesExist, TypeOK
<1>3. ThreadsRegistered'
  <2>1. pc \in [Runs -> PcStates] /\ pc[r] = "idle" /\ pc' = [pc EXCEPT ![r] = "created"]
    BY DEF WaveCreate, IInv, FilesExist, Runs, TypeOK
  <2> QED BY <2>1 DEF WaveCreate, IInv, ThreadsRegistered
<1>4. ApiStarted'
  BY ConstantsAssumption, SMTT(10) DEF WaveCreate, procVars, diskVars,
      threadVars, streamVars, IInv, ApiStarted, Runs
<1>5. AppendsAllowed'
  BY SMTT(10) DEF WaveCreate, procVars, diskVars, threadVars, streamVars,
      IInv, AppendsAllowed, Producing, HasTerminal, Left
<1>6. QuietUnlessUp'
  BY SMTT(10) DEF WaveCreate, procVars, diskVars, threadVars, streamVars,
      IInv, QuietUnlessUp, Left
<1>7. TerminalsFinal'
  BY SMTT(10) DEF WaveCreate, procVars, diskVars, threadVars, streamVars,
      IInv, TerminalsFinal, Over, Left, FilesExist, TypeOK
<1>8. HonestInterruption'
  BY SMTT(10) DEF WaveCreate, procVars, diskVars, threadVars, streamVars,
      IInv, HonestInterruption, TerminalsFinal, Producing, Over, Left, TypeOK
<1>9. StreamsRemember'
  BY ConstantsAssumption, SMTT(10) DEF WaveCreate, procVars, diskVars,
      threadVars, streamVars, IInv, StreamsRemember, Terminal, Left, TypeOK
<1>10. DoneIsFinal'
  BY ConstantsAssumption, SMTT(10) DEF WaveCreate, procVars, diskVars,
      threadVars, streamVars, IInv, DoneIsFinal, Over, Left, TypeOK
<1>11. StreamExact'
  BY SMTT(10) DEF WaveCreate, procVars, diskVars, threadVars, streamVars,
      IInv, StreamExact, Parsed
<1> QED BY <1>1, <1>2, <1>3, <1>4, <1>5, <1>6, <1>7, <1>8, <1>9, <1>10, <1>11
    DEF IInv

\* The wave registers the thread
LEMMA WaveRegisterKeeps ==
    ASSUME IInv, NEW r \in Runs, WaveRegister(r)
    PROVE  IInv'
<1>1. TypeOK'
  BY SMTT(10) DEF WaveRegister, procVars, diskVars, threadVars, streamVars,
      IInv, TypeOK, Runs, PcStates, Writers, PendingAppend, EventTypes,
      PipelineEvents, VerifyEvents, Line, BadLine
<1>2. FilesExist'
  BY SMTT(10) DEF WaveRegister, procVars, diskVars, threadVars, streamVars,
      IInv, FilesExist
<1>3. ThreadsRegistered'
  BY SMTT(10) DEF WaveRegister, procVars, diskVars, threadVars, streamVars,
      IInv, ThreadsRegistered, TypeOK
<1>4. ApiStarted'
  BY SMTT(10) DEF WaveRegister, procVars, diskVars, threadVars, streamVars,
      IInv, ApiStarted, Runs
<1>5. AppendsAllowed'
  BY SMTT(10) DEF WaveRegister, procVars, diskVars, threadVars, streamVars,
      IInv, AppendsAllowed, Producing, HasTerminal, Left
<1>6. QuietUnlessUp'
  BY SMTT(10) DEF WaveRegister, procVars, diskVars, threadVars, streamVars,
      IInv, QuietUnlessUp, Left
<1>7. TerminalsFinal'
  BY SMTT(10) DEF WaveRegister, procVars, diskVars, threadVars, streamVars,
      IInv, TerminalsFinal, Over, Left, TypeOK
<1>8. HonestInterruption'
  BY SMTT(10) DEF WaveRegister, procVars, diskVars, threadVars, streamVars,
      IInv, HonestInterruption, TerminalsFinal, Producing, Over, Left, TypeOK
<1>9. StreamsRemember'
  BY SMTT(10) DEF WaveRegister, procVars, diskVars, threadVars, streamVars,
      IInv, StreamsRemember, Terminal, Left, TypeOK
<1>10. DoneIsFinal'
  BY SMTT(10) DEF WaveRegister, procVars, diskVars, threadVars, streamVars,
      IInv, DoneIsFinal, Over, Left, TypeOK
<1>11. StreamExact'
  BY SMTT(10) DEF WaveRegister, procVars, diskVars, threadVars, streamVars,
      IInv, StreamExact, Parsed
<1> QED BY <1>1, <1>2, <1>3, <1>4, <1>5, <1>6, <1>7, <1>8, <1>9, <1>10, <1>11
    DEF IInv

\* The wave starts the thread
LEMMA WaveStartKeeps ==
    ASSUME IInv, NEW r \in Runs, WaveStart(r)
    PROVE  IInv'
<1>1. TypeOK'
  BY SMTT(10) DEF WaveStart, StartThread, procVars, diskVars, threadVars, streamVars, IInv,
      TypeOK, Runs, PcStates, Writers, PendingAppend, EventTypes,
      PipelineEvents, VerifyEvents, Line, BadLine
<1>2. FilesExist'
  BY SMTT(10) DEF WaveStart, StartThread, procVars, diskVars, threadVars, streamVars, IInv,
      FilesExist
<1>3. ThreadsRegistered'
  BY SMTT(10) DEF WaveStart, StartThread, procVars, diskVars, threadVars, streamVars, IInv,
      ThreadsRegistered
<1>4. ApiStarted'
  BY SMTT(10) DEF WaveStart, StartThread, procVars, diskVars, threadVars, streamVars, IInv,
      ApiStarted, Runs
<1>5. AppendsAllowed'
  BY SMTT(10) DEF WaveStart, StartThread, procVars, diskVars, threadVars, streamVars, IInv,
      AppendsAllowed, Producing, HasTerminal, Left
<1>6. QuietUnlessUp'
  BY SMTT(10) DEF WaveStart, StartThread, procVars, diskVars, threadVars, streamVars, IInv,
      QuietUnlessUp, Left
<1>7. TerminalsFinal'
  BY SMTT(10) DEF WaveStart, StartThread, procVars, diskVars, threadVars, streamVars, IInv,
      TerminalsFinal, Over, Left, TypeOK
<1>8. HonestInterruption'
  <2>1. \A q \in Runs : Producing(q)' => Producing(q) \/ q = r
    BY DEF WaveStart, StartThread, IInv, TypeOK, Producing
  <2>2. \A i \in 1..Len(lines[r]) : lines[r][i] # "interrupted"
    BY DEF WaveStart, StartThread, IInv, TerminalsFinal, Left
  <2> QED BY <2>1, <2>2 DEF WaveStart, StartThread, diskVars, IInv, HonestInterruption
<1>9. StreamsRemember'
  BY SMTT(10) DEF WaveStart, StartThread, procVars, diskVars, threadVars, streamVars, IInv,
      StreamsRemember, Terminal, Left, TypeOK
<1>10. DoneIsFinal'
  BY SMTT(10) DEF WaveStart, StartThread, procVars, diskVars, threadVars, streamVars, IInv,
      DoneIsFinal, Over, Left, TypeOK
<1>11. StreamExact'
  BY SMTT(10) DEF WaveStart, StartThread, procVars, diskVars, threadVars, streamVars, IInv,
      StreamExact, Parsed
<1> QED BY <1>1, <1>2, <1>3, <1>4, <1>5, <1>6, <1>7, <1>8, <1>9, <1>10, <1>11
    DEF IInv

\* pipeline.start begins to be written
LEMMA EmitStartKeeps ==
    ASSUME IInv, NEW r \in Runs, EmitStart(r)
    PROVE  IInv'
<1>1. TypeOK'
  BY SMTT(10) DEF EmitStart, Emit, BeginWrite, procVars, diskVars, threadVars,
      streamVars, IInv, TypeOK, Runs, PcStates, Writers, PendingAppend,
      EventTypes, PipelineEvents, VerifyEvents, Line, BadLine
<1>2. FilesExist'
  BY SMTT(10) DEF EmitStart, Emit, BeginWrite, procVars, diskVars, threadVars,
      streamVars, IInv, FilesExist
<1>3. AppendsAllowed'
  BY ConstantsAssumption, SMTT(10) DEF EmitStart, Emit, BeginWrite, procVars,
      diskVars, threadVars, streamVars, IInv, AppendsAllowed, Producing,
      HasTerminal, Left, TypeOK, PipelineEvents, VerifyEvents
<1>4. QuietUnlessUp'
  BY SMTT(10) DEF EmitStart, Emit, BeginWrite, procVars, diskVars, threadVars,
      streamVars, IInv, QuietUnlessUp, Left
<1>5. /\ ThreadsRegistered' /\ ApiStarted' /\ TerminalsFinal' /\ HonestInterruption'
      /\ StreamExact' /\ StreamsRemember' /\ DoneIsFinal'
  BY SMTT(10) DEF EmitStart, Emit, BeginWrite, procVars, diskVars, threadVars,
      streamVars, IInv, ThreadsRegistered, ApiStarted, TerminalsFinal,
      HonestInterruption, StreamExact, StreamsRemember, DoneIsFinal,
      Producing, Parsed
<1> QED BY <1>1, <1>2, <1>3, <1>4, <1>5 DEF IInv

\* The no-signature error begins to be written
LEMMA EmitNoSignatureKeeps ==
    ASSUME IInv, NEW r \in Runs, EmitNoSignature(r)
    PROVE  IInv'
<1>1. TypeOK'
  BY SMTT(10) DEF EmitNoSignature, Emit, BeginWrite, procVars, diskVars,
      threadVars, streamVars, IInv, TypeOK, Runs, PcStates, Writers,
      PendingAppend, EventTypes, PipelineEvents, VerifyEvents, Line, BadLine
<1>2. FilesExist'
  BY SMTT(10) DEF EmitNoSignature, Emit, BeginWrite, procVars, diskVars,
      threadVars, streamVars, IInv, FilesExist
<1>3. AppendsAllowed'
  BY ConstantsAssumption, SMTT(10) DEF EmitNoSignature, Emit, BeginWrite,
      procVars, diskVars, threadVars, streamVars, IInv, AppendsAllowed,
      Producing, HasTerminal, Left, TypeOK, PipelineEvents, VerifyEvents
<1>4. QuietUnlessUp'
  BY SMTT(10) DEF EmitNoSignature, Emit, BeginWrite, procVars, diskVars,
      threadVars, streamVars, IInv, QuietUnlessUp, Left
<1>5. /\ ThreadsRegistered' /\ ApiStarted' /\ TerminalsFinal' /\ HonestInterruption'
      /\ StreamExact' /\ StreamsRemember' /\ DoneIsFinal'
  BY SMTT(10) DEF EmitNoSignature, Emit, BeginWrite, procVars, diskVars,
      threadVars, streamVars, IInv, ThreadsRegistered, ApiStarted,
      TerminalsFinal, HonestInterruption, StreamExact, StreamsRemember,
      DoneIsFinal, Producing, Parsed
<1> QED BY <1>1, <1>2, <1>3, <1>4, <1>5 DEF IInv

\* An event of the body begins to be written
LEMMA EmitStepKeeps ==
    ASSUME IInv, NEW r \in Runs, EmitStep(r)
    PROVE  IInv'
<1>1. TypeOK'
  BY SMTT(10) DEF EmitStep, Emit, BeginWrite, procVars, diskVars, threadVars,
      streamVars, IInv, TypeOK, Runs, PcStates, Writers, PendingAppend,
      EventTypes, PipelineEvents, VerifyEvents, Line, BadLine
<1>2. FilesExist'
  BY SMTT(10) DEF EmitStep, Emit, BeginWrite, procVars, diskVars, threadVars,
      streamVars, IInv, FilesExist
<1>3. AppendsAllowed'
  BY ConstantsAssumption, SMTT(10) DEF EmitStep, Emit, BeginWrite, procVars,
      diskVars, threadVars, streamVars, IInv, AppendsAllowed, Producing,
      HasTerminal, Left, TypeOK, PipelineEvents, VerifyEvents
<1>4. QuietUnlessUp'
  BY SMTT(10) DEF EmitStep, Emit, BeginWrite, procVars, diskVars, threadVars,
      streamVars, IInv, QuietUnlessUp, Left
<1>5. /\ ThreadsRegistered' /\ ApiStarted' /\ TerminalsFinal' /\ HonestInterruption'
      /\ StreamExact' /\ StreamsRemember' /\ DoneIsFinal'
  BY SMTT(10) DEF EmitStep, Emit, BeginWrite, procVars, diskVars, threadVars,
      streamVars, IInv, ThreadsRegistered, ApiStarted, TerminalsFinal,
      HonestInterruption, StreamExact, StreamsRemember, DoneIsFinal,
      Producing, Parsed
<1> QED BY <1>1, <1>2, <1>3, <1>4, <1>5 DEF IInv

\* pipeline.end begins to be written
LEMMA EmitEndKeeps ==
    ASSUME IInv, NEW r \in Runs, EmitEnd(r)
    PROVE  IInv'
<1>1. TypeOK'
  BY SMTT(10) DEF EmitEnd, Emit, BeginWrite, procVars, diskVars, threadVars,
      streamVars, IInv, TypeOK, Runs, PcStates, Writers, PendingAppend,
      EventTypes, PipelineEvents, VerifyEvents, Line, BadLine
<1>2. FilesExist'
  BY SMTT(10) DEF EmitEnd, Emit, BeginWrite, procVars, diskVars, threadVars,
      streamVars, IInv, FilesExist
<1>3. AppendsAllowed'
  BY ConstantsAssumption, SMTT(10) DEF EmitEnd, Emit, BeginWrite, procVars,
      diskVars, threadVars, streamVars, IInv, AppendsAllowed, Producing,
      HasTerminal, Left, TypeOK, PipelineEvents, VerifyEvents
<1>4. QuietUnlessUp'
  BY SMTT(10) DEF EmitEnd, Emit, BeginWrite, procVars, diskVars, threadVars,
      streamVars, IInv, QuietUnlessUp, Left
<1>5. /\ ThreadsRegistered' /\ ApiStarted' /\ TerminalsFinal' /\ HonestInterruption'
      /\ StreamExact' /\ StreamsRemember' /\ DoneIsFinal'
  BY SMTT(10) DEF EmitEnd, Emit, BeginWrite, procVars, diskVars, threadVars,
      streamVars, IInv, ThreadsRegistered, ApiStarted, TerminalsFinal,
      HonestInterruption, StreamExact, StreamsRemember, DoneIsFinal,
      Producing, Parsed
<1> QED BY <1>1, <1>2, <1>3, <1>4, <1>5 DEF IInv

\* The body raises
LEMMA BodyRaisesKeeps ==
    ASSUME IInv, NEW r \in Runs, BodyRaises(r)
    PROVE  IInv'
<1>1. TypeOK'
  BY SMTT(10) DEF BodyRaises, procVars, diskVars, threadVars, streamVars,
      IInv, TypeOK, Runs, PcStates, Writers, PendingAppend, EventTypes,
      PipelineEvents, VerifyEvents, Line, BadLine
<1>2. FilesExist'
  BY SMTT(10) DEF BodyRaises, procVars, diskVars, threadVars, streamVars,
      IInv, FilesExist
<1>3. ThreadsRegistered'
  BY SMTT(10) DEF BodyRaises, procVars, diskVars, threadVars, streamVars,
      IInv, ThreadsRegistered
<1>4. ApiStarted'
  BY SMTT(10) DEF BodyRaises, procVars, diskVars, threadVars, streamVars,
      IInv, ApiStarted, Runs
<1>5. AppendsAllowed'
  BY SMTT(10) DEF BodyRaises, procVars, diskVars, threadVars, streamVars,
      IInv, AppendsAllowed, Producing, HasTerminal, Left
<1>6. QuietUnlessUp'
  BY SMTT(10) DEF BodyRaises, procVars, diskVars, threadVars, streamVars,
      IInv, QuietUnlessUp, Left
<1>7. TerminalsFinal'
  BY SMTT(10) DEF BodyRaises, procVars, diskVars, threadVars, streamVars,
      IInv, TerminalsFinal, Over, Left, TypeOK
<1>8. HonestInterruption'
  BY SMTT(10) DEF BodyRaises, procVars, diskVars, threadVars, streamVars,
      IInv, HonestInterruption, TerminalsFinal, Producing, Over, Left, TypeOK
<1>9. StreamsRemember'
  BY SMTT(10) DEF BodyRaises, procVars, diskVars, threadVars, streamVars,
      IInv, StreamsRemember, Terminal, Left, TypeOK
<1>10. DoneIsFinal'
  BY SMTT(10) DEF BodyRaises, procVars, diskVars, threadVars, streamVars,
      IInv, DoneIsFinal, Over, Left, TypeOK
<1>11. StreamExact'
  BY SMTT(10) DEF BodyRaises, procVars, diskVars, threadVars, streamVars,
      IInv, StreamExact, Parsed
<1> QED BY <1>1, <1>2, <1>3, <1>4, <1>5, <1>6, <1>7, <1>8, <1>9, <1>10, <1>11
    DEF IInv

\* The error event begins to be written
LEMMA EmitErrorKeeps ==
    ASSUME IInv, NEW r \in Runs, EmitError(r)
    PROVE  IInv'
<1>1. TypeOK'
  BY SMTT(10) DEF EmitError, Emit, BeginWrite, procVars, diskVars, threadVars,
      streamVars, IInv, TypeOK, Runs, PcStates, Writers, PendingAppend,
      EventTypes, PipelineEvents, VerifyEvents, Line, BadLine
<1>2. FilesExist'
  BY SMTT(10) DEF EmitError, Emit, BeginWrite, procVars, diskVars, threadVars,
      streamVars, IInv, FilesExist
<1>3. AppendsAllowed'
  BY ConstantsAssumption, SMTT(10) DEF EmitError, Emit, BeginWrite, procVars,
      diskVars, threadVars, streamVars, IInv, AppendsAllowed, Producing,
      HasTerminal, Left, TypeOK, PipelineEvents, VerifyEvents
<1>4. QuietUnlessUp'
  BY SMTT(10) DEF EmitError, Emit, BeginWrite, procVars, diskVars, threadVars,
      streamVars, IInv, QuietUnlessUp, Left
<1>5. /\ ThreadsRegistered' /\ ApiStarted' /\ TerminalsFinal' /\ HonestInterruption'
      /\ StreamExact' /\ StreamsRemember' /\ DoneIsFinal'
  BY SMTT(10) DEF EmitError, Emit, BeginWrite, procVars, diskVars, threadVars,
      streamVars, IInv, ThreadsRegistered, ApiStarted, TerminalsFinal,
      HonestInterruption, StreamExact, StreamsRemember, DoneIsFinal,
      Producing, Parsed
<1> QED BY <1>1, <1>2, <1>3, <1>4, <1>5 DEF IInv

\* The thread leaves IN_FLIGHT
LEMMA DeregisterKeeps ==
    ASSUME IInv, NEW r \in Runs, Deregister(r)
    PROVE  IInv'
<1>1. TypeOK'
  BY SMTT(10) DEF Deregister, procVars, diskVars, threadVars, streamVars,
      IInv, TypeOK, Runs, PcStates, Writers, PendingAppend, EventTypes,
      PipelineEvents, VerifyEvents, Line, BadLine
<1>2. FilesExist'
  BY SMTT(10) DEF Deregister, procVars, diskVars, threadVars, streamVars,
      IInv, FilesExist
<1>3. ThreadsRegistered'
  BY SMTT(10) DEF Deregister, procVars, diskVars, threadVars, streamVars,
      IInv, ThreadsRegistered, TypeOK
<1>4. ApiStarted'
  BY SMTT(10) DEF Deregister, procVars, diskVars, threadVars, streamVars,
      IInv, ApiStarted, Runs
<1>5. AppendsAllowed'
  BY SMTT(10) DEF Deregister, procVars, diskVars, threadVars, streamVars,
      IInv, AppendsAllowed, Producing, HasTerminal, Left
<1>6. QuietUnlessUp'
  BY SMTT(10) DEF Deregister, procVars, diskVars, threadVars, streamVars,
      IInv, QuietUnlessUp, Left
<1>7. TerminalsFinal'
  BY SMTT(10) DEF Deregister, procVars, diskVars, threadVars, streamVars,
      IInv, TerminalsFinal, Over, Left, TypeOK
<1>8. HonestInterruption'
  BY SMTT(10) DEF Deregister, procVars, diskVars, threadVars, streamVars,
      IInv, HonestInterruption, TerminalsFinal, Producing, Over, Left, TypeOK
<1>9. StreamsRemember'
  BY SMTT(10) DEF Deregister, procVars, diskVars, threadVars, streamVars,
      IInv, StreamsRemember, Terminal, Left, TypeOK
<1>10. DoneIsFinal'
  BY SMTT(10) DEF Deregister, procVars, diskVars, threadVars, streamVars,
      IInv, DoneIsFinal, Over, Left, TypeOK
<1>11. StreamExact'
  BY SMTT(10) DEF Deregister, procVars, diskVars, threadVars, streamVars,
      IInv, StreamExact, Parsed
<1> QED BY <1>1, <1>2, <1>3, <1>4, <1>5, <1>6, <1>7, <1>8, <1>9, <1>10, <1>11
    DEF IInv

\* An append ends
LEMMA FinishWriteKeeps ==
    ASSUME IInv, NEW r \in Runs, FinishWrite(r)
    PROVE  IInv'
<1>1. TypeOK'
  BY SMTT(10) DEF FinishWrite, WriterGoesOn, AfterEmit, procVars, diskVars,
      threadVars, streamVars, IInv, TypeOK, Runs, PcStates, Writers,
      PendingAppend, EventTypes, PipelineEvents, VerifyEvents, Line, BadLine
<1>2. FilesExist'
  BY SMTT(10) DEF FinishWrite, WriterGoesOn, AfterEmit, procVars, diskVars,
      threadVars, streamVars, IInv, FilesExist
<1>3. ThreadsRegistered'
  BY SMTT(10) DEF FinishWrite, WriterGoesOn, AfterEmit, procVars, diskVars,
      threadVars, streamVars, IInv, ThreadsRegistered, AppendsAllowed,
      Producing, TypeOK
<1>4. ApiStarted'
  BY SMTT(10) DEF FinishWrite, WriterGoesOn, AfterEmit, procVars, diskVars,
      threadVars, streamVars, IInv, ApiStarted, Runs
<1>5. AppendsAllowed'
  BY SMTT(10) DEF FinishWrite, WriterGoesOn, AfterEmit, procVars, diskVars,
      threadVars, streamVars, IInv, AppendsAllowed, Producing, HasTerminal,
      Left, TypeOK
<1>6. QuietUnlessUp'
  BY SMTT(10) DEF FinishWrite, WriterGoesOn, AfterEmit, procVars, diskVars,
      threadVars, streamVars, IInv, QuietUnlessUp, Left
<1>7. TerminalsFinal'
  BY FinishKeepsTerminals
<1>8. HonestInterruption'
  BY FinishKeepsHonesty, <1>7
<1>9. StreamExact'
  BY SMTT(10) DEF FinishWrite, WriterGoesOn, AfterEmit, procVars, diskVars,
      threadVars, streamVars, IInv, StreamExact, Parsed, TypeOK
<1>10. StreamsRemember'
  BY FinishKeepsMemory
<1>11. DoneIsFinal'
  BY FinishKeepsDone
<1> QED BY <1>1, <1>2, <1>3, <1>4, <1>5, <1>6, <1>7, <1>8, <1>9, <1>10, <1>11
    DEF IInv

\* An append fails
LEMMA FailWriteKeeps ==
    ASSUME IInv, NEW r \in Runs, FailWrite(r)
    PROVE  IInv'
<1>1. TypeOK'
  BY FailKeepsTypes
<1>2. FilesExist'
  BY SMTT(10) DEF FailWrite, WriterGoesOn, AfterEmit, procVars, diskVars,
      threadVars, streamVars, IInv, FilesExist
<1>3. ThreadsRegistered'
  BY SMTT(10) DEF FailWrite, WriterGoesOn, AfterEmit, procVars, diskVars,
      threadVars, streamVars, IInv, ThreadsRegistered, AppendsAllowed,
      Producing, TypeOK
<1>4. ApiStarted'
  BY SMTT(10) DEF FailWrite, WriterGoesOn, AfterEmit, procVars, diskVars,
      threadVars, streamVars, IInv, ApiStarted, Runs
<1>5. AppendsAllowed'
  BY SMTT(10) DEF FailWrite, WriterGoesOn, AfterEmit, procVars, diskVars,
      threadVars, streamVars, IInv, AppendsAllowed, Producing, HasTerminal,
      Left, TypeOK
<1>6. QuietUnlessUp'
  BY SMTT(10) DEF FailWrite, WriterGoesOn, AfterEmit, procVars, diskVars,
      threadVars, streamVars, IInv, QuietUnlessUp, Left
<1>7. TerminalsFinal'
  BY FailKeepsTerminals
<1>8. HonestInterruption'
  BY SMTT(10) DEF FailWrite, WriterGoesOn, AfterEmit, procVars, diskVars,
      threadVars, streamVars, IInv, HonestInterruption, TerminalsFinal,
      Producing, Over, Left, AppendsAllowed, TypeOK, HasTerminal, Terminal
<1>9. StreamsRemember'
  BY FailKeepsMemory
<1>10. DoneIsFinal'
  BY FailKeepsDone
<1>11. StreamExact'
  BY SMTT(10) DEF FailWrite, procVars, diskVars, threadVars, streamVars, IInv,
      StreamExact, Parsed
<1> QED BY <1>1, <1>2, <1>3, <1>4, <1>5, <1>6, <1>7, <1>8, <1>9, <1>10, <1>11
    DEF IInv

\* The sweep leaves a file alone
LEMMA SweepSkipKeeps ==
    ASSUME IInv, NEW r \in Runs, SweepSkip(r)
    PROVE  IInv'
<1>1. TypeOK'
  BY SMTT(10) DEF SweepSkip, procVars, diskVars, threadVars, streamVars, IInv,
      TypeOK, Runs, PcStates, Writers, PendingAppend, EventTypes,
      PipelineEvents, VerifyEvents, Line, BadLine
<1>2. AppendsAllowed'
  BY SMTT(10) DEF SweepSkip, procVars, diskVars, threadVars, streamVars, IInv,
      AppendsAllowed, Producing, HasTerminal, Left
<1>3. /\ FilesExist' /\ ThreadsRegistered' /\ ApiStarted' /\ QuietUnlessUp'
      /\ TerminalsFinal' /\ HonestInterruption' /\ StreamExact' /\ StreamsRemember'
      /\ DoneIsFinal'
  BY SMTT(10) DEF SweepSkip, procVars, diskVars, threadVars, streamVars, IInv,
      FilesExist, ThreadsRegistered, ApiStarted, QuietUnlessUp,
      TerminalsFinal, HonestInterruption, StreamExact, StreamsRemember,
      DoneIsFinal, Producing, Parsed
<1> QED BY <1>1, <1>2, <1>3 DEF IInv

\* The sweep begins to mark a file
LEMMA SweepMarkKeeps ==
    ASSUME IInv, NEW r \in Runs, SweepMark(r)
    PROVE  IInv'
<1>1. TypeOK'
  BY SMTT(10) DEF SweepMark, BeginWrite, SweepMarks, procVars, diskVars,
      threadVars, streamVars, IInv, TypeOK, Runs, PcStates, Writers,
      PendingAppend, EventTypes, PipelineEvents, VerifyEvents, Line, BadLine
<1>2. FilesExist'
  BY SMTT(10) DEF SweepMark, BeginWrite, SweepMarks, procVars, diskVars,
      threadVars, streamVars, IInv, FilesExist, TypeOK, Runs, PendingAppend,
      QuietUnlessUp, Parsed
<1>3. AppendsAllowed'
  BY MarkIsAllowed
<1>4. QuietUnlessUp'
  BY SMTT(10) DEF SweepMark, BeginWrite, SweepMarks, procVars, diskVars,
      threadVars, streamVars, IInv, QuietUnlessUp, Left
<1>5. /\ ThreadsRegistered' /\ ApiStarted' /\ TerminalsFinal' /\ HonestInterruption'
      /\ StreamExact' /\ StreamsRemember' /\ DoneIsFinal'
  BY SMTT(10) DEF SweepMark, BeginWrite, procVars, diskVars, threadVars,
      streamVars, IInv, ThreadsRegistered, ApiStarted, TerminalsFinal,
      HonestInterruption, StreamExact, StreamsRemember, DoneIsFinal,
      Producing, Parsed
<1> QED BY <1>1, <1>2, <1>3, <1>4, <1>5 DEF IInv

\* A verification starts
LEMMA VerifyStartKeeps ==
    ASSUME IInv, NEW v \in Verifiers, NEW r \in Runs, VerifyStart(v, r)
    PROVE  IInv'
<1>1. TypeOK'
  BY SMTT(10) DEF VerifyStart, procVars, diskVars, threadVars, streamVars,
      IInv, TypeOK, Runs, PcStates, Writers, PendingAppend, EventTypes,
      PipelineEvents, VerifyEvents, Line, BadLine
<1>2. FilesExist'
  BY SMTT(10) DEF VerifyStart, procVars, diskVars, threadVars, streamVars,
      IInv, FilesExist
<1>3. QuietUnlessUp'
  BY SMTT(10) DEF VerifyStart, procVars, diskVars, threadVars, streamVars,
      IInv, QuietUnlessUp, Left
<1>4. /\ ThreadsRegistered' /\ ApiStarted' /\ AppendsAllowed' /\ TerminalsFinal'
      /\ HonestInterruption' /\ StreamExact' /\ StreamsRemember' /\ DoneIsFinal'
  BY SMTT(10) DEF VerifyStart, procVars, diskVars, threadVars, streamVars,
      IInv, ThreadsRegistered, ApiStarted, AppendsAllowed, TerminalsFinal,
      HonestInterruption, StreamExact, StreamsRemember, DoneIsFinal,
      Producing, HasTerminal, Parsed
<1> QED BY <1>1, <1>2, <1>3, <1>4 DEF IInv

\* A verify event begins to be written
LEMMA VerifyEmitKeeps ==
    ASSUME IInv, NEW v \in Verifiers, VerifyEmit(v)
    PROVE  IInv'
<1>1. TypeOK'
  BY SMTT(10) DEF VerifyEmit, BeginWrite, procVars, diskVars, threadVars,
      streamVars, IInv, TypeOK, Runs, PcStates, Writers, PendingAppend,
      EventTypes, PipelineEvents, VerifyEvents, Line, BadLine
<1>2. FilesExist'
  BY SMTT(10) DEF VerifyEmit, BeginWrite, procVars, diskVars, threadVars,
      streamVars, IInv, FilesExist
<1>3. AppendsAllowed'
  BY ConstantsAssumption, SMTT(10) DEF VerifyEmit, BeginWrite, procVars,
      diskVars, threadVars, streamVars, IInv, AppendsAllowed, Producing,
      HasTerminal, Left
<1>4. QuietUnlessUp'
  BY SMTT(10) DEF VerifyEmit, BeginWrite, procVars, diskVars, threadVars,
      streamVars, IInv, QuietUnlessUp, Left
<1>5. /\ ThreadsRegistered' /\ ApiStarted' /\ TerminalsFinal' /\ HonestInterruption'
      /\ StreamExact' /\ StreamsRemember' /\ DoneIsFinal'
  BY SMTT(10) DEF VerifyEmit, BeginWrite, procVars, diskVars, threadVars,
      streamVars, IInv, ThreadsRegistered, ApiStarted, TerminalsFinal,
      HonestInterruption, StreamExact, StreamsRemember, DoneIsFinal,
      Producing, Parsed
<1> QED BY <1>1, <1>2, <1>3, <1>4, <1>5 DEF IInv

\* A client attaches
LEMMA AttachKeeps ==
    ASSUME IInv, NEW c \in Clients, NEW r \in Runs, Attach(c, r)
    PROVE  IInv'
<1>1. TypeOK'
  BY SMTT(10) DEF Attach, procVars, diskVars, threadVars, IInv, TypeOK, Runs,
      PcStates, Writers, PendingAppend, EventTypes, PipelineEvents,
      VerifyEvents, Line, BadLine
<1>2. FilesExist'
  BY SMTT(10) DEF Attach, procVars, diskVars, threadVars, IInv, FilesExist,
      TypeOK
<1>3. QuietUnlessUp'
  BY SMTT(10) DEF Attach, procVars, diskVars, threadVars, IInv, QuietUnlessUp,
      Left
<1>4. StreamExact'
  BY SMTT(10) DEF Attach, procVars, diskVars, threadVars, IInv, StreamExact,
      Parsed, TypeOK
<1>5. StreamsRemember'
  BY SMTT(10) DEF Attach, procVars, diskVars, threadVars, IInv,
      StreamsRemember, Terminal, Left, TypeOK
<1>6. DoneIsFinal'
  BY SMTT(10) DEF Attach, procVars, diskVars, threadVars, IInv, DoneIsFinal,
      Over, Left, TypeOK
<1>7. /\ ThreadsRegistered' /\ ApiStarted' /\ AppendsAllowed' /\ TerminalsFinal'
      /\ HonestInterruption'
  BY SMTT(10) DEF Attach, procVars, diskVars, threadVars, IInv,
      ThreadsRegistered, ApiStarted, AppendsAllowed, TerminalsFinal,
      HonestInterruption, Producing, HasTerminal
<1> QED BY <1>1, <1>2, <1>3, <1>4, <1>5, <1>6, <1>7 DEF IInv

\* A stream looks at the thread
LEMMA SnapshotAliveKeeps ==
    ASSUME IInv, NEW c \in Clients, SnapshotAlive(c)
    PROVE  IInv'
<1>1. TypeOK'
  BY SMTT(10) DEF SnapshotAlive, Alive, procVars, diskVars, threadVars,
      streamVars, IInv, TypeOK, Runs, PcStates, Writers, PendingAppend,
      EventTypes, PipelineEvents, VerifyEvents, Line, BadLine
<1>2. FilesExist'
  BY SMTT(10) DEF SnapshotAlive, Alive, procVars, diskVars, threadVars,
      streamVars, IInv, FilesExist
<1>3. QuietUnlessUp'
  BY SMTT(10) DEF SnapshotAlive, Alive, procVars, diskVars, threadVars,
      streamVars, IInv, QuietUnlessUp, Left
<1>4. StreamExact'
  BY SMTT(10) DEF SnapshotAlive, Alive, procVars, diskVars, threadVars,
      streamVars, IInv, StreamExact, Parsed, TypeOK
<1>5. StreamsRemember'
  BY SnapshotKeepsMemory
<1>6. DoneIsFinal'
  BY SMTT(10) DEF SnapshotAlive, Alive, procVars, diskVars, threadVars,
      streamVars, IInv, DoneIsFinal, Over, Left, TypeOK
<1>7. /\ ThreadsRegistered' /\ ApiStarted' /\ AppendsAllowed' /\ TerminalsFinal'
      /\ HonestInterruption'
  BY SMTT(10) DEF SnapshotAlive, procVars, diskVars, threadVars, streamVars,
      IInv, ThreadsRegistered, ApiStarted, AppendsAllowed, TerminalsFinal,
      HonestInterruption, Producing, HasTerminal
<1> QED BY <1>1, <1>2, <1>3, <1>4, <1>5, <1>6, <1>7 DEF IInv

\* A stream reads the file
LEMMA ReadPassKeeps ==
    ASSUME IInv, NEW c \in Clients, ReadPass(c)
    PROVE  IInv'
<1>1. TypeOK'
  BY ReadKeepsTypes
<1>2. FilesExist'
  BY SMTT(10) DEF ReadPass, NextOffset, procVars, diskVars, threadVars,
      streamVars, IInv, FilesExist
<1>3. QuietUnlessUp'
  BY SMTT(10) DEF ReadPass, NextOffset, procVars, diskVars, threadVars,
      streamVars, IInv, QuietUnlessUp, Left
<1>4. StreamExact'
  BY SMTT(10) DEF ReadPass, NextOffset, procVars, diskVars, threadVars,
      streamVars, IInv, StreamExact, Parsed, TypeOK
<1>5. StreamsRemember'
  BY ReadKeepsMemory
<1>6. DoneIsFinal'
  BY ReadKeepsDone
<1>7. /\ ThreadsRegistered' /\ ApiStarted' /\ AppendsAllowed' /\ TerminalsFinal'
      /\ HonestInterruption'
  BY SMTT(10) DEF ReadPass, NextOffset, procVars, diskVars, threadVars,
      streamVars, IInv, ThreadsRegistered, ApiStarted, AppendsAllowed,
      TerminalsFinal, HonestInterruption, Producing, HasTerminal
<1> QED BY <1>1, <1>2, <1>3, <1>4, <1>5, <1>6, <1>7 DEF IInv

\* A client leaves
LEMMA DisconnectKeeps ==
    ASSUME IInv, NEW c \in Clients, Disconnect(c)
    PROVE  IInv'
<1>1. TypeOK'
  BY SMTT(10) DEF Disconnect, procVars, diskVars, threadVars, streamVars,
      IInv, TypeOK, Runs, PcStates, Writers, PendingAppend, EventTypes,
      PipelineEvents, VerifyEvents, Line, BadLine
<1>2. FilesExist'
  BY SMTT(10) DEF Disconnect, procVars, diskVars, threadVars, streamVars,
      IInv, FilesExist, TypeOK
<1>3. QuietUnlessUp'
  BY SMTT(10) DEF Disconnect, procVars, diskVars, threadVars, streamVars,
      IInv, QuietUnlessUp, Left
<1>4. StreamExact'
  BY SMTT(10) DEF Disconnect, procVars, diskVars, threadVars, streamVars,
      IInv, StreamExact, Parsed, TypeOK
<1>5. StreamsRemember'
  BY SMTT(10) DEF Disconnect, procVars, diskVars, threadVars, streamVars,
      IInv, StreamsRemember, Terminal, Left, TypeOK
<1>6. DoneIsFinal'
  BY SMTT(10) DEF Disconnect, procVars, diskVars, threadVars, streamVars,
      IInv, DoneIsFinal, Over, Left, TypeOK
<1>7. /\ ThreadsRegistered' /\ ApiStarted' /\ AppendsAllowed' /\ TerminalsFinal'
      /\ HonestInterruption'
  BY SMTT(10) DEF Disconnect, procVars, diskVars, threadVars, streamVars,
      IInv, ThreadsRegistered, ApiStarted, AppendsAllowed, TerminalsFinal,
      HonestInterruption, Producing, HasTerminal
<1> QED BY <1>1, <1>2, <1>3, <1>4, <1>5, <1>6, <1>7 DEF IInv

\* The process dies
LEMMA CrashKeeps ==
    ASSUME IInv, Crash
    PROVE  IInv'
<1>1. TypeOK'
  BY ConstantsAssumption, SMTT(10) DEF Crash, diskVars, streamVars, IInv,
      TypeOK, Runs, PcStates, Writers, PendingAppend, EventTypes,
      PipelineEvents, VerifyEvents, Line, BadLine
<1>2. FilesExist'
  BY SMTT(10) DEF Crash, diskVars, streamVars, IInv, FilesExist
<1>3. ThreadsRegistered'
  BY SMTT(10) DEF Crash, diskVars, streamVars, IInv, ThreadsRegistered
<1>4. ApiStarted'
  BY SMTT(10) DEF Crash, diskVars, streamVars, IInv, ApiStarted, Runs
<1>5. AppendsAllowed'
  BY SMTT(10) DEF Crash, diskVars, streamVars, IInv, AppendsAllowed,
      Producing, HasTerminal, Left
<1>6. QuietUnlessUp'
  BY SMTT(10) DEF Crash, diskVars, streamVars, IInv, QuietUnlessUp, Left
<1>7. TerminalsFinal'
  BY SMTT(10) DEF Crash, diskVars, streamVars, IInv, TerminalsFinal, Over,
      Left, TypeOK
<1>8. HonestInterruption'
  BY SMTT(10) DEF Crash, diskVars, streamVars, IInv, HonestInterruption,
      TerminalsFinal, Producing, Over, Left, TypeOK
<1>9. StreamExact'
  BY SMTT(10) DEF Crash, diskVars, streamVars, IInv, StreamExact, Parsed,
      TypeOK
<1>10. StreamsRemember'
  BY SMTT(10) DEF Crash, diskVars, streamVars, IInv, StreamsRemember,
      Terminal, Left, TypeOK
<1>11. DoneIsFinal'
  BY SMTT(10) DEF Crash, diskVars, streamVars, IInv, DoneIsFinal, Over, Left,
      TypeOK
<1> QED BY <1>1, <1>2, <1>3, <1>4, <1>5, <1>6, <1>7, <1>8, <1>9, <1>10, <1>11
    DEF IInv

\* The process comes back
LEMMA RestartKeeps ==
    ASSUME IInv, Restart
    PROVE  IInv'
<1>1. TypeOK'
  BY SMTT(10) DEF Restart, procVars, diskVars, threadVars, streamVars, IInv,
      TypeOK, Runs, PcStates, Writers, PendingAppend, EventTypes,
      PipelineEvents, VerifyEvents, Line, BadLine
<1>2. AppendsAllowed'
  BY SMTT(10) DEF Restart, procVars, diskVars, threadVars, streamVars, IInv,
      AppendsAllowed, Producing, HasTerminal, Left
<1>3. QuietUnlessUp'
  BY SMTT(10) DEF Restart, procVars, diskVars, threadVars, streamVars, IInv,
      QuietUnlessUp, Left
<1>4. /\ FilesExist' /\ ThreadsRegistered' /\ ApiStarted' /\ TerminalsFinal'
      /\ HonestInterruption' /\ StreamExact' /\ StreamsRemember' /\ DoneIsFinal'
  BY SMTT(10) DEF Restart, procVars, diskVars, threadVars, streamVars, IInv,
      FilesExist, ThreadsRegistered, ApiStarted, TerminalsFinal,
      HonestInterruption, StreamExact, StreamsRemember, DoneIsFinal,
      Producing, Parsed
<1> QED BY <1>1, <1>2, <1>3, <1>4 DEF IInv

\* The sweep is over
LEMMA SweepDoneKeeps ==
    ASSUME IInv, SweepDone
    PROVE  IInv'
<1>1. TypeOK'
  BY SMTT(10) DEF SweepDone, procVars, diskVars, threadVars, streamVars, IInv,
      TypeOK, Runs, PcStates, Writers, PendingAppend, EventTypes,
      PipelineEvents, VerifyEvents, Line, BadLine
<1>2. AppendsAllowed'
  BY SMTT(10) DEF SweepDone, procVars, diskVars, threadVars, streamVars, IInv,
      AppendsAllowed, Producing, HasTerminal, Left
<1>3. QuietUnlessUp'
  BY SMTT(10) DEF SweepDone, procVars, diskVars, threadVars, streamVars, IInv,
      QuietUnlessUp, Left
<1>4. /\ FilesExist' /\ ThreadsRegistered' /\ ApiStarted' /\ TerminalsFinal'
      /\ HonestInterruption' /\ StreamExact' /\ StreamsRemember' /\ DoneIsFinal'
  BY SMTT(10) DEF SweepDone, procVars, diskVars, threadVars, streamVars, IInv,
      FilesExist, ThreadsRegistered, ApiStarted, TerminalsFinal,
      HonestInterruption, StreamExact, StreamsRemember, DoneIsFinal,
      Producing, Parsed
<1> QED BY <1>1, <1>2, <1>3, <1>4 DEF IInv
-----------------------------------------------------------------------------
(* The invariant and what follows from it.                                 *)

LEMMA IInvInit == Init => IInv
<1> SUFFICES ASSUME Init PROVE IInv
  OBVIOUS
<1>1. TypeOK
  BY ConstantsAssumption DEF Init, TypeOK, PcStates
<1>2. FilesExist /\ ThreadsRegistered /\ ApiStarted
  BY DEF Init, FilesExist, ThreadsRegistered, ApiStarted, Runs
<1>3. AppendsAllowed /\ QuietUnlessUp
  BY DEF Init, AppendsAllowed, QuietUnlessUp
<1>4. TerminalsFinal /\ HonestInterruption
  BY DEF Init, TerminalsFinal, HonestInterruption
<1>5. StreamExact /\ StreamsRemember /\ DoneIsFinal
  BY DEF Init, StreamExact, StreamsRemember, DoneIsFinal
<1> QED BY <1>1, <1>2, <1>3, <1>4, <1>5 DEF IInv

LEMMA IInvStutter == IInv /\ UNCHANGED vars => IInv'
<1> SUFFICES ASSUME IInv, UNCHANGED vars PROVE IInv'
  OBVIOUS
<1> USE DEF IInv, vars, procVars, diskVars, threadVars, streamVars
<1>1. TypeOK' /\ FilesExist' /\ ThreadsRegistered' /\ ApiStarted'
  BY DEF TypeOK, FilesExist, ThreadsRegistered, ApiStarted
<1>2. AppendsAllowed' /\ QuietUnlessUp' /\ TerminalsFinal' /\ HonestInterruption'
  BY DEF AppendsAllowed, QuietUnlessUp, TerminalsFinal, HonestInterruption,
         Producing, HasTerminal
<1>3. StreamExact' /\ StreamsRemember' /\ DoneIsFinal'
  BY DEF StreamExact, StreamsRemember, DoneIsFinal, Parsed
<1> QED BY <1>1, <1>2, <1>3

LEMMA IInvStep == IInv /\ [Next]_vars => IInv'
<1> SUFFICES ASSUME IInv, [Next]_vars PROVE IInv'
  OBVIOUS
<1>1. ASSUME NEW r \in Runs, StartRun(r) \/ WaveSteps(r) PROVE IInv'
  BY <1>1, PostKeeps, WaveCreateKeeps, WaveRegisterKeeps, WaveStartKeeps
     DEF StartRun, WaveSteps
<1>2. ASSUME NEW r \in Runs, ThreadStep(r) PROVE IInv'
  BY <1>2, EmitStartKeeps, EmitNoSignatureKeeps, EmitStepKeeps, EmitEndKeeps,
     BodyRaisesKeeps, EmitErrorKeeps, DeregisterKeeps DEF ThreadStep
<1>3. ASSUME NEW r \in Runs, AppendEnds(r) \/ Sweep(r) PROVE IInv'
  BY <1>3, FinishWriteKeeps, FailWriteKeeps, SweepSkipKeeps, SweepMarkKeeps
     DEF AppendEnds, Sweep
<1>4. ASSUME NEW v \in Verifiers, VerifyEmit(v) \/ \E r \in Runs : VerifyStart(v, r)
      PROVE IInv'
  BY <1>4, VerifyEmitKeeps, VerifyStartKeeps
<1>5. ASSUME NEW c \in Clients,
             StreamStep(c) \/ Disconnect(c) \/ \E r \in Runs : Attach(c, r)
      PROVE IInv'
  BY <1>5, SnapshotAliveKeeps, ReadPassKeeps, DisconnectKeeps, AttachKeeps
     DEF StreamStep
<1>6. ASSUME Crash \/ Restart \/ SweepDone PROVE IInv'
  BY <1>6, CrashKeeps, RestartKeeps, SweepDoneKeeps
<1>7. CASE Next
  BY <1>1, <1>2, <1>3, <1>4, <1>5, <1>6, <1>7 DEF Next
<1>8. CASE UNCHANGED vars
  BY <1>8, IInvStutter
<1> QED BY <1>7, <1>8

\* IInv holds in every state of every behaviour of the lifecycle.
THEOREM InvariantHolds == Spec => []IInv
  BY IInvInit, IInvStep, PTL DEF Spec

\* The variables keep their types, whatever threads and streams do.
THEOREM TypesHold == Spec => []TypeOK
<1>1. IInv => TypeOK
  BY DEF IInv
<1> QED BY <1>1, InvariantHolds, PTL

\* stream_run never skips, repeats or tears an event of the file.
THEOREM StreamsAreExact == Spec => []StreamExact
<1>1. IInv => StreamExact
  BY DEF IInv
<1> QED BY <1>1, InvariantHolds, PTL

\* A client told "done" of an API run has all of it (stream_run, runner._run).
THEOREM DoneStreamsAreComplete == Spec => []DoneIsComplete
<1>1. IInv => DoneIsComplete
  BY DEF IInv, DoneIsFinal, DoneIsComplete, Over, Producing
<1> QED BY <1>1, InvariantHolds, PTL

\* mark_interrupted_runs marks once, and never a run that ended or still runs.
THEOREM InterruptionsAreHonest == Spec => []HonestInterruption
<1>1. IInv => HonestInterruption
  BY DEF IInv
<1> QED BY <1>1, InvariantHolds, PTL

-----------------------------------------------------------------------------
(* A run that has not started has nothing in its file, and nothing on the  *)
(* way to it: its thread is not there to write, nobody verifies a run      *)
(* without a fix, and the sweep marks no empty file.                       *)

Unstarted(r) == pc[r] \in {"idle", "created", "registered", "unstarted"}

NothingBeforeStart ==
    /\ \A r \in Runs : Unstarted(r) => lines[r] = <<>> /\ pend[r] = NoWrite
    /\ \A v \in Verifiers : job[v] # NoRun => ~Unstarted(job[v])

LEMMA NothingBeforeInit == Init => NothingBeforeStart
  BY DEF Init, NothingBeforeStart

LEMMA NothingBeforeStep == IInv /\ NothingBeforeStart /\ [Next]_vars => NothingBeforeStart'
<1> SUFFICES ASSUME IInv, NothingBeforeStart, [Next]_vars PROVE NothingBeforeStart'
  OBVIOUS
<1> USE DEF procVars, diskVars, threadVars, streamVars
<1>0. /\ pc \in [Runs -> PcStates] /\ pend \in [Runs -> PendingAppend \cup {NoWrite}]
      /\ job \in [Verifiers -> Runs \cup {NoRun}] /\ lines \in [Runs -> Seq(Line)]
  BY DEF IInv, TypeOK
<1>1. ASSUME NEW r \in Runs, StartRun(r) PROVE NothingBeforeStart'
  <2>1. r \notin exists /\ UNCHANGED <<lines, job, pend>>
    BY <1>1 DEF StartRun, Post, WaveCreate
  <2>2. \E s : pc' = [pc EXCEPT ![r] = s]
    BY <1>1 DEF StartRun, Post, WaveCreate, StartThread
  <2>3. lines[r] = << >> /\ pend[r] = NoWrite /\ \A v \in Verifiers : job[v] # NoRun => job[v] # r
    BY <2>1 DEF IInv, FilesExist
  <2> QED BY <1>0, <2>1, <2>2, <2>3 DEF NothingBeforeStart, Unstarted
<1>2. ASSUME NEW r \in Runs, WaveSteps(r) PROVE NothingBeforeStart'
  <2>1. Unstarted(r) /\ UNCHANGED <<lines, job, pend>>
    BY <1>2 DEF WaveSteps, WaveRegister, WaveStart, Unstarted
  <2>2. \E s : pc' = [pc EXCEPT ![r] = s]
    BY <1>2 DEF WaveSteps, WaveRegister, WaveStart, StartThread
  <2> QED BY <1>0, <2>1, <2>2 DEF NothingBeforeStart, Unstarted
<1>3. ASSUME NEW r \in Runs, ThreadStep(r) PROVE NothingBeforeStart'
  <2>1. UNCHANGED <<lines, job>> /\ \A q \in Runs : q # r => pend'[q] = pend[q]
    BY <1>0, <1>3 DEF ThreadStep, EmitStart, EmitNoSignature, EmitStep, EmitEnd, EmitError,
       Emit, BeginWrite, BodyRaises, Deregister
  <2>2. pc[r] \in {"boot", "run", "raised", "exit"}
    BY <1>3 DEF ThreadStep, EmitStart, EmitNoSignature, EmitStep, EmitEnd, EmitError,
       BodyRaises, Deregister
  <2>3. \E s \in {pc[r], "raised", "gone"} : pc' = [pc EXCEPT ![r] = s]
    BY <1>0, <1>3 DEF ThreadStep, EmitStart, EmitNoSignature, EmitStep, EmitEnd, EmitError,
       Emit, BodyRaises, Deregister
  <2>4. \A q \in Runs : Unstarted(q)' <=> Unstarted(q)
    BY <1>0, <2>2, <2>3 DEF Unstarted
  <2>5. ~Unstarted(r)
    BY <2>2 DEF Unstarted
  <2> QED BY <1>0, <2>1, <2>4, <2>5 DEF NothingBeforeStart
<1>4. ASSUME NEW r \in Runs, AppendEnds(r) PROVE NothingBeforeStart'
  <2>1. FinishWrite(r) \/ FailWrite(r)
    BY <1>4 DEF AppendEnds
  <2>2. /\ ~Unstarted(r) /\ pend' = [pend EXCEPT ![r] = NoWrite]
        /\ \A v \in Verifiers : job'[v] \in {NoRun, job[v]}
    BY <2>1 DEF FinishWrite, FailWrite, WriterGoesOn, NothingBeforeStart
  <2>3. \A q \in Runs : q # r => pc'[q] = pc[q] /\ lines'[q] = lines[q]
    BY <2>1, OneWriterGoesOn, OneLineMore DEF FailWrite
  <2>4. ~Unstarted(r)'
    BY <2>1, <2>2, OneWriterGoesOn DEF Unstarted
  <2> QED BY <1>0, <2>2, <2>3, <2>4 DEF NothingBeforeStart, Unstarted
<1>5. ASSUME NEW r \in Runs, Sweep(r) PROVE NothingBeforeStart'
  <2>1. UNCHANGED <<lines, job, pc>>
    BY <1>5 DEF Sweep, SweepSkip, SweepMark
  <2>2. \A q \in Runs : pend'[q] = pend[q] \/ (q = r /\ lines[r] # << >>)
    BY <1>0, <1>5 DEF Sweep, SweepSkip, SweepMark, BeginWrite, SweepMarks, Parsed
  <2> QED BY <2>1, <2>2 DEF NothingBeforeStart, Unstarted
<1>6. ASSUME NEW v \in Verifiers, VerifyEmit(v) PROVE NothingBeforeStart'
  <2>1. job[v] # NoRun /\ UNCHANGED <<lines, job, pc>>
    BY <1>6 DEF VerifyEmit
  <2>2. \A q \in Runs : q # job[v] => pend'[q] = pend[q]
    BY <1>0, <1>6 DEF VerifyEmit, BeginWrite
  <2> QED BY <2>1, <2>2 DEF NothingBeforeStart, Unstarted
<1>7. ASSUME NEW v \in Verifiers, NEW r \in Runs, VerifyStart(v, r) PROVE NothingBeforeStart'
  <2>1. job' = [job EXCEPT ![v] = r] /\ UNCHANGED <<lines, pend, pc>>
    BY <1>7 DEF VerifyStart
  <2>2. lines[r] # << >>
    BY <1>7 DEF VerifyStart
  <2> QED BY <1>0, <2>1, <2>2 DEF NothingBeforeStart, Unstarted
<1>8. ASSUME NEW c \in Clients, StreamStep(c) \/ Disconnect(c) \/ \E r \in Runs : Attach(c, r)
      PROVE  NothingBeforeStart'
  BY <1>8 DEF StreamStep, SnapshotAlive, ReadPass, Disconnect, Attach, NothingBeforeStart, Unstarted
<1>9. CASE Crash
  BY <1>9 DEF Crash, NothingBeforeStart, Unstarted
<1>10. CASE Restart \/ SweepDone \/ UNCHANGED vars
  BY <1>10 DEF Restart, SweepDone, vars, NothingBeforeStart, Unstarted
<1> QED BY <1>1, <1>2, <1>3, <1>4, <1>5, <1>6, <1>7, <1>8, <1>9, <1>10 DEF Next

\* IN_FLIGHT shows every run whose thread may still write.  What else it holds is
\* a thread on its way in or out, or a run whose t.start() raised: its entry stays
\* until the process dies, and no event of it ever gets into its file.
THEOREM RegistryIsExact == Spec => []ProducersRegistered
<1>1. IInv /\ NothingBeforeStart => ProducersRegistered
  BY DEF IInv, ThreadsRegistered, NothingBeforeStart, Unstarted, ProducersRegistered, Producing
<1> QED BY <1>1, NothingBeforeInit, NothingBeforeStep, InvariantHolds, PTL DEF Spec
-----------------------------------------------------------------------------
(* What the sweep owes to every run, as long as the disk does not fail.     *)

Settled(r) == HasTerminal(lines[r]) \/ Spoilt(r)

\* Whoever verifies a run has an event of it to show
Evident ==
    /\ \A v \in Verifiers : job[v] # NoRun => Parsed(lines[job[v]]) # {}
    /\ \A r \in Runs : pend[r] # NoWrite /\ pend[r].who \in Verifiers => Parsed(lines[r]) # {}

\* The lost runs that the sweep has left behind it are settled
Swept ==
    \A r \in Runs :
        /\ pc[r] = "lost" /\ Parsed(lines[r]) # {}
        /\ proc = "up" \/ (proc = "sweep" /\ r \notin sweepTodo)
        => Settled(r)

SweepInv == Evident /\ Swept

LEMMA SweepInvInit == Init => SweepInv
BY DEF Init, SweepInv, Evident, Swept

\* Steps that write nothing, lose no run and leave the sweep where it is
LEMMA SweepFrame ==
    ASSUME SweepInv, UNCHANGED <<proc, sweepTodo, lines, job>>,
           \A r \in Runs : pc'[r] = "lost" => pc[r] = "lost",
           \A r \in Runs : \/ pend'[r] = pend[r]
                          \/ pend'[r].who \notin Verifiers
    PROVE  SweepInv'
BY DEF SweepInv, Evident, Swept, Settled, Spoilt

\* A file that grows keeps what it shows
LEMMA Grows ==
    ASSUME IInv, NEW r \in Runs, FinishWrite(r)
    PROVE  /\ Parsed(lines[r]) # {} => Parsed(lines'[r]) # {}
           /\ Settled(r) => Settled(r)'
           /\ \A q \in Runs \ {r} : lines'[q] = lines[q]
BY OneLineMore DEF Parsed, Settled, HasTerminal, Spoilt

LEMMA FinishWriteSweeps ==
    ASSUME IInv, SweepInv, NEW r \in Runs, FinishWrite(r)
    PROVE  SweepInv'
<1>1. /\ pend \in [Runs -> PendingAppend \cup {NoWrite}] /\ job \in [Verifiers -> Runs \cup {NoRun}]
      /\ pend' = [pend EXCEPT ![r] = NoWrite] /\ UNCHANGED proc
      /\ job' = [v \in Verifiers |-> IF v = pend[r].who /\ pend[r].ev \in {"result", "verify_error"}
                                        THEN NoRun ELSE job[v]]
      /\ sweepTodo' = IF pend[r].who = "sweep" THEN sweepTodo \ {r} ELSE sweepTodo
    BY DEF FinishWrite, WriterGoesOn, IInv, TypeOK
<1>2. Evident'
    BY <1>1, Grows DEF SweepInv, Evident
<1>3. ASSUME NEW q \in Runs, pc'[q] = "lost", Parsed(lines'[q]) # {},
             proc' = "up" \/ (proc' = "sweep" /\ q \notin sweepTodo')
      PROVE  Settled(q)'
  <2>1. CASE q # r
    <3>1. pc[q] = "lost" /\ lines'[q] = lines[q]
        BY <1>3, <2>1, OneWriterGoesOn, Grows
    <3>2. Settled(q)
        BY <1>1, <1>3, <2>1, <3>1 DEF SweepInv, Swept
    <3>3. QED  BY <3>1, <3>2 DEF Settled, Spoilt
  <2>2. CASE q = r
    <3>1. pend[r].who # "pipeline" /\ pc[r] = "lost" /\ pend[r].who \in Writers
        BY <1>3, <2>2, OneWriterGoesOn DEF PendingAppend
    <3>2. CASE pend[r].who = "sweep"
      <4>1. lines'[r][Len(lines[r]) + 1] \in {BadLine, "interrupted"}
          BY <3>2, OneLineMore DEF FinishWrite, IInv, AppendsAllowed
      <4>2. QED  BY <2>2, <4>1, OneLineMore DEF Settled, HasTerminal, Spoilt, Terminal
    <3>3. CASE pend[r].who \in Verifiers
      <4>1. Parsed(lines[r]) # {}
          BY <3>3 DEF FinishWrite, SweepInv, Evident
      <4>2. Settled(r)
          BY <1>1, <1>3, <2>2, <3>1, <3>3, <4>1, ConstantsAssumption DEF SweepInv, Swept
      <4>3. QED  BY <2>2, <4>2, Grows
    <3>4. QED  BY <3>1, <3>2, <3>3 DEF Writers
  <2>3. QED  BY <2>1, <2>2
<1>4. QED  BY <1>2, <1>3 DEF SweepInv, Swept

LEMMA SkipSweeps ==
    ASSUME IInv, SweepInv, NEW r \in Runs, SweepSkip(r)
    PROVE  SweepInv'
<1>1. /\ proc = "sweep" /\ sweepTodo' = sweepTodo \ {r} /\ UNCHANGED <<proc, lines, pend, pc, job>>
    BY DEF SweepSkip, diskVars, threadVars
<1>2. Parsed(lines[r]) = {} \/ HasTerminal(lines[r])
    BY <1>1 DEF SweepSkip, SweepMarks, IInv, QuietUnlessUp
<1>3. QED  BY <1>1, <1>2 DEF SweepInv, Evident, Swept, Settled, Spoilt

LEMMA SweepInvStep == ~DiskFails /\ IInv /\ SweepInv /\ [Next]_vars => SweepInv'
<1> SUFFICES ASSUME ~DiskFails, IInv, SweepInv, [Next]_vars PROVE SweepInv'
    OBVIOUS
<1> USE DEF procVars, diskVars, threadVars, streamVars
<1>0. pc \in [Runs -> PcStates] /\ pend \in [Runs -> PendingAppend \cup {NoWrite}]
    BY DEF IInv, TypeOK
<1>1. ASSUME NEW r \in Runs, StartRun(r) \/ WaveSteps(r) PROVE SweepInv'
  <2>1. UNCHANGED <<proc, sweepTodo, lines, job, pend>>
      BY <1>1 DEF StartRun, WaveSteps, Post, WaveCreate, WaveRegister, WaveStart
  <2>2. \E s \in PcStates \ {"lost"} : pc' = [pc EXCEPT ![r] = s]
      BY <1>1 DEF StartRun, WaveSteps, Post, WaveCreate, WaveRegister, WaveStart, StartThread, PcStates
  <2>3. \A q \in Runs : pc'[q] = "lost" => pc[q] = "lost"
      BY <1>0, <2>2
  <2>4. QED  BY <2>1, <2>3, SweepFrame
<1>2. ASSUME NEW r \in Runs, ThreadStep(r) PROVE SweepInv'
  <2>1. CASE BodyRaises(r) \/ Deregister(r)
    <3>1. UNCHANGED <<proc, sweepTodo, lines, job, pend>>
        BY <2>1 DEF BodyRaises, Deregister
    <3>2. \E s \in {"raised", "gone"} : pc' = [pc EXCEPT ![r] = s]
        BY <2>1 DEF BodyRaises, Deregister
    <3>3. \A q \in Runs : pc'[q] = "lost" => pc[q] = "lost"
        BY <1>0, <3>2
    <3>4. QED  BY <3>1, <3>3, SweepFrame
  <2>2. ASSUME NEW ev, Emit(r, ev) PROVE SweepInv'
    <3>1. UNCHANGED <<proc, sweepTodo, lines, job, pc>>
        BY <2>2 DEF Emit
    <3>2. \A q \in Runs : pend'[q] = pend[q] \/ pend'[q].who \notin Verifiers
        BY <1>0, <2>2, ConstantsAssumption DEF Emit, BeginWrite
    <3>3. QED  BY <3>1, <3>2, SweepFrame
  <2>3. QED
      BY <1>2, <2>1, <2>2 DEF ThreadStep, EmitStart, EmitNoSignature, EmitStep, EmitEnd, EmitError
<1>3. ASSUME NEW r \in Runs, AppendEnds(r) \/ Sweep(r) PROVE SweepInv'
  <2>1. CASE FinishWrite(r)
      BY <2>1, FinishWriteSweeps
  <2>2. ~FailWrite(r)
      BY DEF FailWrite
  <2>3. CASE SweepSkip(r)
      BY <2>3, SkipSweeps
  <2>4. CASE SweepMark(r)
    <3>1. UNCHANGED <<proc, sweepTodo, lines, job, pc>>
        BY <2>4 DEF SweepMark
    <3>2. \A q \in Runs : pend'[q] = pend[q] \/ pend'[q].who \notin Verifiers
        BY <1>0, <2>4, ConstantsAssumption DEF SweepMark, BeginWrite
    <3>3. QED  BY <3>1, <3>2, SweepFrame
  <2>5. QED  BY <1>3, <2>1, <2>2, <2>3, <2>4 DEF AppendEnds, Sweep
<1>4. ASSUME NEW v \in Verifiers, VerifyEmit(v) PROVE SweepInv'
  <2>1. PICK ev : BeginWrite(job[v], v, ev)
      BY <1>4 DEF VerifyEmit
  <2>2. job[v] \in Runs /\ Parsed(lines[job[v]]) # {}
      BY <1>4 DEF VerifyEmit, IInv, TypeOK, SweepInv, Evident
  <2>3. UNCHANGED <<proc, sweepTodo, lines, job, pc>>
      BY <1>4 DEF VerifyEmit
  <2>4. \A r \in Runs : pend'[r] = pend[r] \/ Parsed(lines[r]) # {}
      BY <1>0, <2>1, <2>2 DEF BeginWrite
  <2>5. QED  BY <2>3, <2>4 DEF SweepInv, Evident, Swept, Settled, Spoilt
<1>5. ASSUME NEW v \in Verifiers, NEW r \in Runs, VerifyStart(v, r) PROVE SweepInv'
  <2>1. Parsed(lines[r]) # {}
      BY <1>5 DEF VerifyStart, Parsed, BadLine
  <2>2. job' = [job EXCEPT ![v] = r] /\ UNCHANGED <<proc, sweepTodo, lines, pend, pc>>
      BY <1>5 DEF VerifyStart
  <2>3. job \in [Verifiers -> Runs \cup {NoRun}]
      BY DEF IInv, TypeOK
  <2>4. QED  BY <2>1, <2>2, <2>3 DEF SweepInv, Evident, Swept, Settled, Spoilt
<1>6. ASSUME NEW c \in Clients, StreamStep(c) \/ Disconnect(c) \/ \E r \in Runs : Attach(c, r)
      PROVE  SweepInv'
  <2>1. UNCHANGED <<proc, sweepTodo, lines, job, pend, pc>>
      BY <1>6 DEF StreamStep, SnapshotAlive, ReadPass, Disconnect, Attach
  <2>2. QED  BY <2>1, SweepFrame
<1>7. CASE Crash
    BY <1>7 DEF Crash, SweepInv, Evident, Swept
<1>8. CASE Restart
  <2>1. \A r \in Runs : pc[r] = "lost" => r \in exists
      BY DEF IInv, FilesExist
  <2>2. /\ proc' = "sweep" /\ sweepTodo' = exists /\ UNCHANGED <<lines, pend, pc, job>>
      BY <1>8 DEF Restart
  <2>3. QED  BY <2>1, <2>2 DEF SweepInv, Evident, Swept
<1>9. CASE SweepDone
    BY <1>9 DEF SweepDone, SweepInv, Evident, Swept, Settled, Spoilt
<1>10. CASE UNCHANGED vars
  <2>1. UNCHANGED <<proc, sweepTodo, lines, job, pend, pc>>
      BY <1>10 DEF vars
  <2>2. QED  BY <2>1, SweepFrame
<1>11. QED
    BY <1>1, <1>2, <1>3, <1>4, <1>5, <1>6, <1>7, <1>8, <1>9, <1>10 DEF Next

\* The startup sweep is sufficient: with a disk that takes its marks, no run that a
\* death left with an event stays without a terminal one, unless a fragment has
\* swallowed a line, for any number of runs and deaths (mark_interrupted_runs).
THEOREM SweepIsSufficient ==
    ASSUME ~DiskFails
    PROVE  Spec => []SweepSettles
<1>1. Swept => SweepSettles
  BY DEF Swept, SweepSettles, Settled
<1>2. IInv /\ SweepInv /\ [Next]_vars => SweepInv'
  BY SweepInvStep
<1>3. SweepInv => Swept
  BY DEF SweepInv
<1> QED BY <1>1, <1>2, <1>3, SweepInvInit, InvariantHolds, PTL DEF Spec
-----------------------------------------------------------------------------
(***************************************************************************)
(* The lifecycle of the runs of POST /api/run implements the log ADR-0008  *)
(* promises: every step of RunLifecycle is a step of EventLog or changes   *)
(* nothing a reader of the log can see.  Without the runs of the self-heal *)
(* wave: those break the promise (README, findings).                       *)
(***************************************************************************)

\* The refinement mapping of RunLifecycle!Log
OpenRuns == {r \in Runs : Producing(r)}
UpTo     == [c \in Clients |-> IF sPc[c] = "idle" THEN 0 ELSE sOff[c]]
Told     == {c \in Clients : sPc[c] = "done"}

\* What a reader of the log can see
Seen == <<lines, OpenRuns, sRun, UpTo, Told>>

LEMMA InitImplements == Init => Log!LogInit
  BY DEF Init, Log!LogInit, Producing

\* A new run is a log nobody was told the end of; if its thread does not start,
\* nothing was opened
LEMMA PostOpens ==
    ASSUME IInv, NEW r \in ApiRuns, Post(r)
    PROVE  Log!Open(r) \/ UNCHANGED Seen
<1>1. r \in Runs /\ pc[r] = "idle" /\ lines[r] = << >>
  BY DEF Post, IInv, FilesExist, Runs
<1>2. \A c \in Clients : sPc[c] = "done" => sRun[c] # r
  BY DEF Post, IInv, FilesExist
<1>3. OpenRuns' \in {OpenRuns, OpenRuns \cup {r}}
  BY <1>1 DEF Post, StartThread, OpenRuns, Producing, IInv, TypeOK
<1>4. UNCHANGED <<lines, sRun, sPc, sOff>>
  BY DEF Post, streamVars
<1>5. CASE OpenRuns' = OpenRuns \cup {r}
  BY <1>1, <1>2, <1>4, <1>5 DEF Log!Open, OpenRuns, Producing
<1>6. CASE OpenRuns' = OpenRuns
  BY <1>4, <1>6 DEF Seen, UpTo, Told
<1> QED BY <1>3, <1>5, <1>6

\* An append is a Write of its line; with its last event the run is over
LEMMA FinishWrites ==
    ASSUME IInv, NEW r \in Runs, FinishWrite(r)
    PROVE  \E e \in PipelineEvents \cup (VerifyEvents \cup {BadLine}) \cup {"interrupted"} :
              Log!Write(r, e)
<1> DEFINE e == IF torn[r] THEN BadLine ELSE pend[r].ev
<1>1. lines' = [lines EXCEPT ![r] = Append(@, e)]
  BY DEF FinishWrite
<1>2. pend[r] \in PendingAppend
  BY OneWriterGoesOn
<1>3. e \in PipelineEvents \cup (VerifyEvents \cup {BadLine}) \cup {"interrupted"}
  BY <1>2 DEF PendingAppend, EventTypes
<1>4. lines'[r][Len(lines[r]) + 1] = e /\ lines \in [Runs -> Seq(Line)]
  <2>1. lines \in [Runs -> Seq(Line)] /\ e \in Line
    BY <1>2 DEF IInv, TypeOK, PendingAppend, Line
  <2> QED BY <1>1, <2>1
<1> HIDE DEF e
<1>5. e \in PipelineEvents => Producing(r)
  BY <1>4, WrittenLine, OneWriterGoesOn
<1>6. e = "interrupted" => ~Producing(r) /\ \A i \in 1..Len(lines[r]) : lines[r][i] \notin Terminal
  <2> SUFFICES ASSUME e = "interrupted" PROVE ~Producing(r) /\ ~HasTerminal(lines[r])
    BY DEF HasTerminal
  <2>1. pc'[r] \in Left /\ ~HasTerminal(lines[r])
    BY <1>4, WrittenLine
  <2>2. pend[r].who # "pipeline"
    BY <2>1, OneWriterGoesOn DEF Left
  <2>3. pc'[r] = pc[r]
    BY <2>2, OneWriterGoesOn
  <2> QED BY <2>1, <2>3 DEF Producing, Left
<1>7. OpenRuns' \in {OpenRuns, OpenRuns \ {r}}
  <2>1. \A q \in Runs \ {r} : Producing(q)' <=> Producing(q)
    BY OneWriterGoesOn DEF Producing
  <2>2. Producing(r)' => Producing(r)
    BY OneWriterGoesOn DEF Producing
  <2> QED BY <2>1, <2>2 DEF OpenRuns
<1>8. UNCHANGED <<sRun, sPc, sOff>>
  BY DEF FinishWrite, streamVars
<1>9. Log!Write(r, e)
  BY <1>1, <1>5, <1>6, <1>7, <1>8 DEF Log!Write, Log!Ended, OpenRuns
<1> QED BY <1>3, <1>9

\* A failed append changes no log; the thread may give up
LEMMA FailCloses ==
    ASSUME IInv, NEW r \in Runs, FailWrite(r)
    PROVE  Log!Close({r}) \/ UNCHANGED Seen
<1>1. OpenRuns' \in {OpenRuns, OpenRuns \ {r}}
  <2>1. \A q \in Runs \ {r} : Producing(q)' <=> Producing(q)
    BY OneWriterGoesOn DEF Producing
  <2>2. Producing(r)' => Producing(r)
    BY OneWriterGoesOn DEF Producing
  <2> QED BY <2>1, <2>2 DEF OpenRuns
<1>2. UNCHANGED <<lines, sRun, sPc, sOff>>
  BY DEF FailWrite, streamVars
<1> QED BY <1>1, <1>2 DEF Log!Close, Seen, UpTo, Told, OpenRuns

\* One pass of a stream hands over a longer prefix and ends truthfully
LEMMA PassHands ==
    ASSUME WaveRuns = {}, IInv, NEW c \in Clients, ReadPass(c)
    PROVE  Log!Hand(c)
<1> DEFINE r == sRun[c]
           n == Len(lines[r])
<1>1. r \in Runs /\ sPc[c] = "read" /\ sOff'[c] = n
  BY OnePass
<1>2. n \in Nat /\ n \in sOff[c]..Len(lines[r])
  BY <1>1 DEF IInv, StreamExact, TypeOK
<1>3. sRun[c] # NoRun
  BY <1>1, ConstantsAssumption
<1>4. UNCHANGED <<lines, pc, sRun>>
  BY OnePass DEF diskVars, threadVars
<1>5. sPc'[c] # "idle" /\ \A d \in Clients \ {c} : sPc'[d] = sPc[d] /\ sOff'[d] = sOff[d]
  BY OnePass
<1>6. UpTo' = [UpTo EXCEPT ![c] = n]
  BY <1>1, <1>5 DEF UpTo
<1>7. Told' = IF sPc'[c] = "done" THEN Told \cup {c} ELSE Told
  BY <1>1, <1>5 DEF Told
<1>8. ASSUME sPc'[c] = "done"
      PROVE  (\E i \in 1..n : lines[r][i] \in Terminal) \/ r \notin OpenRuns
  <2>1. sSaw'[c] \/ ~sAlive[c]
    BY <1>8, OnePass
  <2>2. CASE sSaw'[c]
    <3>1. PICK i \in Parsed(lines[r]) : lines[r][i] \in Terminal
      BY <2>2, OnePass
    <3> QED BY <3>1 DEF Parsed
  <2>3. CASE ~sAlive[c]
    <3>1. r \in ApiRuns
      BY <1>1 DEF Runs
    <3>2. pc[r] \in Left
      BY <1>1, <2>3, <3>1 DEF IInv, StreamsRemember
    <3> QED BY <3>2 DEF OpenRuns, Producing, Left
  <2> QED BY <2>1, <2>2, <2>3
<1>9. UpTo[c] = sOff[c] /\ c \notin Told
  BY <1>1 DEF UpTo, Told
<1>10. OpenRuns' = OpenRuns
  BY <1>4 DEF OpenRuns, Producing
<1> HIDE DEF n
<1>11. CASE sPc'[c] = "done"
  BY <1>2, <1>3, <1>4, <1>6, <1>7, <1>8, <1>9, <1>10, <1>11
     DEF Log!Hand, Log!Ended, OpenRuns, UpTo, Told, n
<1>12. CASE sPc'[c] # "done"
  BY <1>2, <1>3, <1>4, <1>6, <1>7, <1>9, <1>10, <1>12
     DEF Log!Hand, Log!Ended, OpenRuns, UpTo, Told, n
<1> QED BY <1>11, <1>12

\* Attaching, leaving, and everybody leaving when the process dies
LEMMA ClientsComeAndGo ==
    ASSUME IInv
    PROVE  /\ \A c \in Clients, r \in Runs : Attach(c, r) => Log!Follow(c, r)
           /\ \A c \in Clients : Disconnect(c) => Log!Leave({c}, {})
           /\ Crash => Log!Leave(Clients, Runs)
<1>1. ASSUME NEW c \in Clients, NEW r \in Runs, Attach(c, r) PROVE Log!Follow(c, r)
  <2>1. UpTo' = [UpTo EXCEPT ![c] = 0] /\ Told' = Told \ {c}
    BY <1>1 DEF Attach, IInv, TypeOK, UpTo, Told
  <2>2. sRun' = [sRun EXCEPT ![c] = r] /\ lines' = lines /\ OpenRuns' = OpenRuns
    BY <1>1 DEF Attach, diskVars, threadVars, OpenRuns, Producing
  <2> QED BY <2>1, <2>2 DEF Log!Follow, UpTo, Told, OpenRuns
<1>2. ASSUME NEW c \in Clients, Disconnect(c) PROVE Log!Leave({c}, {})
  <2>1. UpTo' = [d \in Clients |-> IF d \in {c} THEN 0 ELSE UpTo[d]] /\ Told' = Told \ {c}
    BY <1>2 DEF Disconnect, IInv, TypeOK, UpTo, Told
  <2>2. sRun' = [d \in Clients |-> IF d \in {c} THEN NoRun ELSE sRun[d]]
    BY <1>2 DEF Disconnect, IInv, TypeOK
  <2>3. lines' = lines /\ OpenRuns' = OpenRuns \ {}
    BY <1>2 DEF Disconnect, diskVars, threadVars, OpenRuns, Producing
  <2> QED BY <2>1, <2>2, <2>3 DEF Log!Leave, UpTo, Told, OpenRuns
<1>3. ASSUME Crash PROVE Log!Leave(Clients, Runs)
  <2>1. UpTo' = [d \in Clients |-> IF d \in Clients THEN 0 ELSE UpTo[d]] /\ Told' = Told \ Clients
    BY <1>3 DEF Crash, UpTo, Told
  <2>2. sRun' = [d \in Clients |-> IF d \in Clients THEN NoRun ELSE sRun[d]]
    BY <1>3 DEF Crash
  <2>3. lines' = lines /\ OpenRuns' = OpenRuns \ Runs
    BY <1>3 DEF Crash, OpenRuns, Producing
  <2> QED BY <2>1, <2>2, <2>3 DEF Log!Leave, UpTo, Told, OpenRuns
<1> QED BY <1>1, <1>2, <1>3

\* The thread steps between two appends, and those of the sweep, are unseen
LEMMA UnseenSteps ==
    ASSUME WaveRuns = {}, IInv,
           \/ \E r \in Runs : ThreadStep(r) \/ Sweep(r) \/ WaveSteps(r)
           \/ \E v \in Verifiers : VerifyEmit(v) \/ \E r \in Runs : VerifyStart(v, r)
           \/ \E c \in Clients : SnapshotAlive(c)
           \/ Restart \/ SweepDone \/ UNCHANGED vars
    PROVE  UNCHANGED Seen
<1>1. ASSUME NEW r \in Runs, ThreadStep(r) PROVE UNCHANGED Seen
  <2>1. CASE BodyRaises(r) \/ Deregister(r)
    <3>1. UNCHANGED <<lines, sRun, sPc, sOff>>
      BY <2>1 DEF BodyRaises, Deregister, diskVars, streamVars
    <3>2. \A q \in Runs : Producing(q)' <=> Producing(q)
      BY <2>1 DEF BodyRaises, Deregister, Producing, IInv, TypeOK
    <3> QED BY <3>1, <3>2 DEF Seen, OpenRuns, UpTo, Told
  <2>2. CASE ~(BodyRaises(r) \/ Deregister(r))
    BY <1>1, <2>2 DEF ThreadStep, EmitStart, EmitNoSignature, EmitStep, EmitEnd, EmitError,
       Emit, threadVars, streamVars, Seen, OpenRuns, UpTo, Told, Producing
  <2> QED BY <2>1, <2>2
<1>2. ASSUME NEW r \in Runs, Sweep(r) PROVE UNCHANGED Seen
  BY <1>2 DEF Sweep, SweepSkip, SweepMark, diskVars, threadVars, streamVars,
     Seen, OpenRuns, UpTo, Told, Producing
<1>3. ASSUME NEW r \in Runs PROVE ~WaveSteps(r)
  BY DEF WaveSteps, WaveRegister, WaveStart, IInv, ApiStarted, Runs
<1>4. ASSUME NEW v \in Verifiers, VerifyEmit(v) \/ \E r \in Runs : VerifyStart(v, r)
      PROVE  UNCHANGED Seen
  BY <1>4 DEF VerifyEmit, VerifyStart, diskVars, threadVars, streamVars,
     Seen, OpenRuns, UpTo, Told, Producing
<1>5. ASSUME NEW c \in Clients, SnapshotAlive(c) PROVE UNCHANGED Seen
  <2>1. UNCHANGED <<lines, pc, sRun, sOff>>
    BY <1>5 DEF SnapshotAlive, diskVars, threadVars
  <2>2. sPc[c] = "poll" /\ sPc' = [sPc EXCEPT ![c] = "read"]
    BY <1>5 DEF SnapshotAlive
  <2>3. \A d \in Clients : /\ sPc'[d] = "idle" <=> sPc[d] = "idle"
                           /\ sPc'[d] = "done" <=> sPc[d] = "done"
    BY <2>2 DEF IInv, TypeOK
  <2> QED BY <2>1, <2>3 DEF Seen, OpenRuns, UpTo, Told, Producing
<1>6. ASSUME Restart \/ SweepDone \/ UNCHANGED vars PROVE UNCHANGED Seen
  BY <1>6 DEF Restart, SweepDone, vars, diskVars, threadVars, streamVars,
     Seen, OpenRuns, UpTo, Told, Producing
<1> QED BY <1>1, <1>2, <1>3, <1>4, <1>5, <1>6

LEMMA StepImplements ==
    ASSUME WaveRuns = {}, IInv, [Next]_vars
    PROVE  [Log!LogNext]_(Log!logVars)
<1>1. ASSUME NEW r \in Runs, StartRun(r) PROVE Log!LogNext \/ UNCHANGED Seen
  BY <1>1, PostOpens DEF StartRun, Log!LogNext
<1>2. ASSUME NEW r \in Runs, FinishWrite(r) PROVE Log!LogNext
  BY <1>2, FinishWrites DEF Log!LogNext
<1>3. ASSUME NEW r \in Runs, FailWrite(r) PROVE Log!LogNext \/ UNCHANGED Seen
  BY <1>3, FailCloses DEF Log!LogNext
<1>4. ASSUME NEW c \in Clients,
             ReadPass(c) \/ Disconnect(c) \/ \E r \in Runs : Attach(c, r)
      PROVE  Log!LogNext
  BY <1>4, PassHands, ClientsComeAndGo DEF Log!LogNext
<1>5. ASSUME Crash PROVE Log!LogNext
  BY <1>5, ClientsComeAndGo DEF Log!LogNext
<1>6. Log!LogNext \/ UNCHANGED Seen
  BY <1>1, <1>2, <1>3, <1>4, <1>5, UnseenSteps
     DEF Next, AppendEnds, StreamStep
<1>7. UNCHANGED Seen => UNCHANGED Log!logVars
  BY DEF Seen, Log!logVars, OpenRuns, UpTo, Told
<1> QED BY <1>6, <1>7

\* The runs of POST /api/run, their files and their streams implement EventLog.
THEOREM LifecycleImplementsLog ==
    ASSUME WaveRuns = {}
    PROVE  Spec => ImplementsLog
<1>1. Init => Log!LogInit
  BY InitImplements
<1>2. IInv /\ [Next]_vars => [Log!LogNext]_(Log!logVars)
  BY StepImplements
<1> QED BY <1>1, <1>2, InvariantHolds, PTL DEF Spec, ImplementsLog, Log!LogSpec
=============================================================================
