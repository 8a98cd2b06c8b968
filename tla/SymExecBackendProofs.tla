------------------------ MODULE SymExecBackendProofs ------------------------
(***************************************************************************)
(* A round of the backend, for every finite set of functions and every     *)
(* size of the pools: the six invariants of its runs.                      *)
(***************************************************************************)
EXTENDS SymExecBackend, FiniteSetTheorems, TLAPS

\* The pool of a side is at work in its own stage only; no Rust job before the C jobs.
PoolsInTurn ==
    /\ stage # "C" => AllEnded("C")
    /\ stage # "Rust" => AllEnded("Rust")
    /\ stage \in {"emit", "emitRust", "C"} =>
        \A f \in Fns : job["Rust"][f].pc = "absent" /\ graph["Rust"][f] = "absent"

\* Processes are the jobs that wait for KLEE, and the workers of a pool are at most MAX_JOBS.
KleesAreJobs == klees = {j \in Side \X Fns : job[j[1]][j[2]].pc = "klee"}
PoolsBounded == \A s \in Side : Cardinality(Workers(s)) <= MaxJobs

\* Values come from a target, and a target from the pass.
FindingsInOrder ==
    \A s \in Side, f \in Fns :
        /\ job[s][f].sym => job[s][f].found
        /\ job[s][f].pc \in {"queued", "link", "symbolize"} => ~ job[s][f].found

\* Where the offsets of a job that found its target are, step by step.
OffsetsInPlace ==
    /\ stage \in {"emit", "emitRust", "C"} => \A f \in Fns : offset[f] # "Rust"
    /\ \A f \in Fns : moved["C"][f] # "Rust"
    /\ \A s \in Side, f \in Fns :
        /\ job[s][f].found /\ job[s][f].pc \in {"dce", "klee", "fetch"} =>
            offset[f] = s \/ <<s, f>> \in unsaved
        /\ job[s][f].sym /\ job[s][f].pc = "convert" =>
            moved[s][f] \in {s, "none"} \/ <<s, f>> \in unsaved

\* A job that has not ended has no graphs yet; Rust graphs are of compiled functions.
GraphsFresh ==
    /\ stage = "emit" => \A f \in Fns : graph["C"][f] = "absent"
    /\ stage = "emitRust" => Reused \/ \A f \in Fns : graph["C"][f] = "absent"
    /\ \A s \in Side, f \in Fns : job[s][f].pc \notin Ended => graph[s][f] = "absent"
    /\ \A f \in Fns : job["Rust"][f].pc \notin Ended \/ graph["Rust"][f] = "graphs" => f \in bc["Rust"]

\* The table is written once, over graphs that do not change any more.
TableFinal ==
    /\ csv.written => stage \in {"time", "output", "done"}
    /\ ~ csv.written => DOMAIN csv.rows = {}
    /\ csv.written => \A f \in Rows : csv.rows[f] = "0.0" => graph["Rust"][f] = "graphs"
    /\ result.written => stage = "done" /\ csv.written /\ timed

\* The inductive invariant.
IInv ==
    /\ BackendTypeOK
    /\ PoolsInTurn /\ KleesAreJobs /\ PoolsBounded
    /\ FindingsInOrder /\ OffsetsInPlace /\ GraphsFresh /\ OwnOffsets
    /\ TableFinal /\ RowsMatchGraphs
-----------------------------------------------------------------------------
\* The round starts in the invariant.
LEMMA InitInv == BackendInit => IInv
<1> SUFFICES ASSUME BackendInit PROVE IInv
  OBVIOUS
<1> USE DEF BackendInit
<1>1. BackendTypeOK
  BY DEF BackendTypeOK, Side, Writer, Running, Ended, Job, NoCsv, NoResult
<1>2. PoolsInTurn /\ KleesAreJobs /\ FindingsInOrder /\ OffsetsInPlace /\ GraphsFresh /\ OwnOffsets
  BY DEF PoolsInTurn, AllEnded, KleesAreJobs, FindingsInOrder, OffsetsInPlace,
         GraphsFresh, OwnOffsets, Side, Ended, Job
<1>3. PoolsBounded
  <2>1. \A s \in Side : Workers(s) = {}
    BY DEF Workers, Running, Job
  <2>2. \A s \in Side : Cardinality(Workers(s)) = 0
    BY <2>1, FS_EmptySet, Zenon
  <2> QED BY <2>2, BackendAssumption DEF PoolsBounded
<1>4. TableFinal /\ RowsMatchGraphs
  BY DEF TableFinal, RowsMatchGraphs, Rows, NoCsv, NoResult
<1> QED BY <1>1, <1>2, <1>3, <1>4 DEF IInv

-----------------------------------------------------------------------------
\* Steps of a job.

\* A job whose step is not an end is of the side at work.
LEMMA AtWork ==
    ASSUME BackendTypeOK, PoolsInTurn, NEW s \in Side, NEW f \in Fns, job[s][f].pc \notin Ended
    PROVE  /\ s = "C" <=> stage = "C"
           /\ s = "Rust" <=> stage = "Rust"
           /\ \A t \in Side, g \in Fns : t # s => job[t][g].pc \in Ended
BY DEF PoolsInTurn, AllEnded, Side

\* What a step of a job may change: the entries of its function on its side.
JobMoves(s, f, x) ==
    /\ job' = [job EXCEPT ![s][f] = x]
    /\ job[s][f].pc \notin Ended
    /\ UNCHANGED <<stage, bc, csv, timed, result>>

\* The new entry of a job.
LEMMA JobEntry ==
    ASSUME BackendTypeOK, NEW s \in Side, NEW f \in Fns, NEW x, JobMoves(s, f, x)
    PROVE  /\ job'[s][f] = x
           /\ \A t \in Side, g \in Fns : t # s \/ g # f => job'[t][g] = job[t][g]
BY DEF BackendTypeOK, JobMoves

JobStepOrEnd(s, f) == JobStep(s, f) \/ KleeEnds(s, f)

\* Every step of a job moves it, to an entry of the right type.
LEMMA JobStepMoves ==
    ASSUME BackendTypeOK, NEW s \in Side, NEW f \in Fns, JobStepOrEnd(s, f)
    PROVE  \E x \in [pc : Running \cup Ended, found : BOOLEAN, sym : BOOLEAN] : JobMoves(s, f, x)
<1> DEFINE J == [pc : Running \cup Ended, found : BOOLEAN, sym : BOOLEAN]
<1> USE DEF JobMoves, Ended, At, files, scores
<1>0. job \in [Side -> [Fns -> [pc : Running \cup Ended \cup {"queued"}, found : BOOLEAN, sym : BOOLEAN]]]
  BY DEF BackendTypeOK
<1>e. job[s][f] \in [pc : Running \cup Ended \cup {"queued"}, found : BOOLEAN, sym : BOOLEAN]
  BY <1>0
<1>a. ASSUME NEW p \in Running \cup Ended, Goto(s, f, p)
      PROVE  \E x \in J : job' = [job EXCEPT ![s][f] = x]
  <2>1. job' = [job EXCEPT ![s][f] = [job[s][f] EXCEPT !.pc = p]]
    BY <1>a DEF Goto
  <2> HIDE DEF Ended
  <2>2. [job[s][f] EXCEPT !.pc = p] \in J
    BY <1>e
  <2> QED BY <2>1, <2>2
<1>b. ASSUME NEW p \in Running \cup Ended, End(s, f, p)
      PROVE  \E x \in J : job' = [job EXCEPT ![s][f] = x]
  BY <1>b DEF End, Job
<1>c. ASSUME Logged(s, f)
      PROVE  \E x \in J : job' = [job EXCEPT ![s][f] = x]
  <2>1. PICK b \in {FALSE, job[s][f].found} : job' = [job EXCEPT ![s][f].pc = "fetch", ![s][f].sym = b]
    BY <1>c DEF Logged
  <2>2. job' = [job EXCEPT ![s][f] = [job[s][f] EXCEPT !.pc = "fetch", !.sym = b]]
    BY <1>0, <2>1
  <2>3. b \in BOOLEAN /\ "fetch" \in Running \cup Ended
    BY <1>e, <2>1 DEF Running
  <2> HIDE DEF Ended
  <2>4. [job[s][f] EXCEPT !.pc = "fetch", !.sym = b] \in J
    BY <1>e, <2>3
  <2> QED BY <2>2, <2>4
<1>1. CASE Start(s, f)
  BY <1>1, <1>a DEF Start, Running
<1>2. CASE Link(s, f)
  BY <1>2, <1>a DEF Link, Running
<1>3. CASE ToolFails(s, f)
  BY <1>3, <1>b DEF ToolFails
<1>4. CASE SymbolizeFinds(s, f)
  BY <1>4 DEF SymbolizeFinds, Running
<1>5. CASE SymbolizeCannotWrite(s, f)
  BY <1>5 DEF SymbolizeCannotWrite, Running
<1>6. CASE SymbolizeMisses(s, f)
  BY <1>6, <1>a DEF SymbolizeMisses, Running
<1>7. CASE StartKlee(s, f)
  BY <1>7, <1>a DEF StartKlee, Running
<1>8. CASE KleeTimeout(s, f)
  BY <1>8, <1>c DEF KleeTimeout
<1>9. CASE KleeEnds(s, f)
  BY <1>9, <1>c DEF KleeEnds
<1>10. CASE FetchOffset(s, f)
  BY <1>10, <1>a DEF FetchOffset, Running
<1>11. CASE Convert(s, f)
  BY <1>11, <1>b DEF Convert
<1>12. CASE ConvertFails(s, f)
  BY <1>12, <1>b DEF ConvertFails
<1> QED BY <1>1, <1>2, <1>3, <1>4, <1>5, <1>6, <1>7, <1>8, <1>9, <1>10, <1>11, <1>12
        DEF JobStepOrEnd, JobStep

\* A step of a job leaves the files of other jobs alone, but for the offset file of its function.
OthersKept(s, f) ==
    /\ \A t \in Side, g \in Fns : t # s \/ g # f =>
        moved'[t][g] = moved[t][g] /\ graph'[t][g] = graph[t][g]
    /\ \A g \in Fns : g # f => offset'[g] = offset[g]
    /\ unsaved \subseteq unsaved'

\* Steps of jobs keep the types and the files of others.
LEMMA JobStepKeeps ==
    ASSUME BackendTypeOK, NEW s \in Side, NEW f \in Fns, JobStepOrEnd(s, f)
    PROVE  BackendTypeOK' /\ OthersKept(s, f)
<1>1. PICK x \in [pc : Running \cup Ended, found : BOOLEAN, sym : BOOLEAN] : JobMoves(s, f, x)
  BY JobStepMoves
<1>2. /\ job' \in [Side -> [Fns -> [pc : Running \cup Ended \cup {"queued"}, found : BOOLEAN, sym : BOOLEAN]]]
      /\ UNCHANGED <<stage, bc, csv, timed, result>>
  BY <1>1 DEF BackendTypeOK, JobMoves
<1> DEFINE FilesOK == /\ klees' \subseteq Side \X Fns
                      /\ offset' \in [Fns -> Writer]
                      /\ moved' \in [Side -> [Fns -> Writer]]
                      /\ graph' \in [Side -> [Fns -> {"absent", "empty", "graphs"}]]
                      /\ unsaved' \subseteq Side \X Fns
<1>3. FilesOK /\ OthersKept(s, f)
  <2> USE DEF BackendTypeOK, OthersKept, files
  <2>1. CASE Start(s, f) \/ Link(s, f) \/ ToolFails(s, f) \/ SymbolizeMisses(s, f)
    BY <2>1 DEF Start, Link, ToolFails, SymbolizeMisses
  <2>2. CASE SymbolizeFinds(s, f)
    BY <2>2 DEF SymbolizeFinds, Writer
  <2>3. CASE SymbolizeCannotWrite(s, f)
    BY <2>3 DEF SymbolizeCannotWrite
  <2>4. CASE StartKlee(s, f) \/ KleeTimeout(s, f) \/ KleeEnds(s, f)
    BY <2>4 DEF StartKlee, KleeTimeout, KleeEnds
  <2>5. CASE FetchOffset(s, f)
    BY <2>5 DEF FetchOffset, Writer
  <2>6. CASE Convert(s, f)
    BY <2>6 DEF Convert
  <2>7. CASE ConvertFails(s, f)
    <3>1. PICK g \in {"absent", "empty", "graphs"} : graph' = [graph EXCEPT ![s][f] = g]
      BY <2>7 DEF ConvertFails
    <3>2. UNCHANGED <<klees, offset, moved, unsaved>>
      BY <2>7 DEF ConvertFails
    <3> QED BY <3>1, <3>2
  <2> QED BY <2>1, <2>2, <2>3, <2>4, <2>5, <2>6, <2>7 DEF JobStepOrEnd, JobStep
<1> QED BY <1>2, <1>3 DEF BackendTypeOK

\* A pool has room for the job it starts.
LEMMA JobStepPools ==
    ASSUME IInv, NEW s \in Side, NEW f \in Fns, JobStepOrEnd(s, f)
    PROVE  PoolsInTurn' /\ KleesAreJobs' /\ PoolsBounded'
<1> USE DEF IInv
<1>1. PICK x \in [pc : Running \cup Ended, found : BOOLEAN, sym : BOOLEAN] : JobMoves(s, f, x)
  BY JobStepMoves
<1>2. /\ job'[s][f] = x
      /\ \A t \in Side, g \in Fns : t # s \/ g # f => job'[t][g] = job[t][g]
  BY <1>1, JobEntry
<1>3. OthersKept(s, f)
  BY JobStepKeeps
<1>4. /\ s = "C" <=> stage = "C"
      /\ s = "Rust" <=> stage = "Rust"
  BY <1>1, AtWork DEF JobMoves
<1>5. PoolsInTurn'
  BY <1>1, <1>2, <1>3, <1>4 DEF PoolsInTurn, AllEnded, JobMoves, OthersKept, Side
<1>6. KleesAreJobs'
  <2>0. klees \subseteq Side \X Fns /\ klees' \subseteq Side \X Fns
    BY JobStepKeeps DEF BackendTypeOK
  <2> SUFFICES ASSUME NEW t \in Side, NEW g \in Fns
               PROVE  <<t, g>> \in klees' <=> job'[t][g].pc = "klee"
    BY <2>0 DEF KleesAreJobs
  <2>1. <<t, g>> \in klees <=> job[t][g].pc = "klee"
    BY DEF KleesAreJobs
  <2>2. CASE StartKlee(s, f)
    <3>1. klees' = klees \cup {<<s, f>>} /\ job'[s][f].pc = "klee"
      BY <2>2 DEF StartKlee, Goto, BackendTypeOK
    <3>2. CASE t = s /\ g = f
      BY <3>1, <3>2
    <3>3. CASE t # s \/ g # f
      BY <2>1, <3>1, <3>3, <1>2
    <3> QED BY <3>2, <3>3
  <2>3. CASE KleeTimeout(s, f) \/ KleeEnds(s, f)
    <3>1. klees' = klees \ {<<s, f>>} /\ job'[s][f].pc # "klee"
      BY <2>3 DEF KleeTimeout, KleeEnds, Logged, BackendTypeOK
    <3>2. CASE t = s /\ g = f
      BY <3>1, <3>2
    <3>3. CASE t # s \/ g # f
      BY <2>1, <3>1, <3>3, <1>2
    <3> QED BY <3>2, <3>3
  <2>4. ASSUME klees' = klees, job[s][f].pc # "klee", job'[s][f].pc # "klee"
        PROVE  <<t, g>> \in klees' <=> job'[t][g].pc = "klee"
    <3>1. CASE t = s /\ g = f
      BY <2>1, <2>4, <3>1
    <3>2. CASE t # s \/ g # f
      BY <2>1, <2>4, <3>2, <1>2
    <3> QED BY <3>1, <3>2
  <2>5. CASE Start(s, f) \/ Link(s, f) \/ SymbolizeMisses(s, f) \/ FetchOffset(s, f)
    <3>1. klees' = klees /\ job[s][f].pc # "klee" /\ job'[s][f].pc # "klee"
      BY <2>5 DEF Start, Link, SymbolizeMisses, FetchOffset, At, Goto, files, BackendTypeOK
    <3> QED BY <2>4, <3>1
  <2>6. CASE SymbolizeFinds(s, f) \/ SymbolizeCannotWrite(s, f)
    <3>1. klees' = klees /\ job[s][f].pc # "klee" /\ job'[s][f].pc # "klee"
      BY <2>6 DEF SymbolizeFinds, SymbolizeCannotWrite, At, BackendTypeOK
    <3> QED BY <2>4, <3>1
  <2>7. CASE ToolFails(s, f) \/ Convert(s, f) \/ ConvertFails(s, f)
    <3>1. klees' = klees /\ job[s][f].pc # "klee" /\ job'[s][f].pc # "klee"
      BY <2>7 DEF ToolFails, Convert, ConvertFails, At, End, Job, files, BackendTypeOK
    <3> QED BY <2>4, <3>1
  <2> QED BY <2>2, <2>3, <2>5, <2>6, <2>7 DEF JobStepOrEnd, JobStep
<1>7. PoolsBounded'
  <2> SUFFICES ASSUME NEW t \in Side PROVE Cardinality(Workers(t)') <= MaxJobs
    BY DEF PoolsBounded
  <2>1. /\ IsFiniteSet(Workers(t)) /\ IsFiniteSet(Workers(t)')
        /\ Cardinality(Workers(t)) \in Nat /\ Cardinality(Workers(t)') \in Nat
    BY BackendAssumption, FS_Subset, FS_CardinalityType DEF Workers
  <2>2. Cardinality(Workers(t)) <= MaxJobs
    BY DEF PoolsBounded
  <2>3. ASSUME Workers(t)' \subseteq Workers(t)
        PROVE  Cardinality(Workers(t)') <= MaxJobs
    <3>1. Cardinality(Workers(t)') <= Cardinality(Workers(t))
      BY <2>1, <2>3, FS_Subset
    <3> QED BY <2>1, <2>2, <3>1, BackendAssumption
  <2>4. CASE t # s \/ job[s][f].pc \in Running
    BY <2>3, <2>4, <1>2 DEF Workers
  <2>5. CASE t = s /\ job[s][f].pc \notin Running
    <3>1. job[s][f].pc = "queued"
      BY <1>1, <2>5 DEF JobMoves, BackendTypeOK
    <3>2. Start(s, f)
      BY <3>1 DEF JobStepOrEnd, JobStep, Link, ToolFails, SymbolizeFinds, SymbolizeCannotWrite,
                  SymbolizeMisses, StartKlee, KleeTimeout, KleeEnds, FetchOffset, Convert, ConvertFails, At
    <3>3. Cardinality(Workers(t)) < MaxJobs
      BY <3>2, <2>5 DEF Start
    <3>4. Workers(t)' \subseteq Workers(t) \cup {f}
      BY <1>2, <2>5 DEF Workers
    <3>5. IsFiniteSet(Workers(t) \cup {f}) /\ Cardinality(Workers(t) \cup {f}) <= Cardinality(Workers(t)) + 1
      <4>1. /\ IsFiniteSet(Workers(t) \cup {f})
            /\ Cardinality(Workers(t) \cup {f}) \in {Cardinality(Workers(t)), Cardinality(Workers(t)) + 1}
        BY <2>1, FS_AddElement, Zenon
      <4> QED BY <2>1, <4>1
    <3>6. Cardinality(Workers(t)') <= Cardinality(Workers(t) \cup {f})
      BY <3>4, <3>5, FS_Subset
    <3>7. Cardinality(Workers(t) \cup {f}) \in Nat
      BY <3>5, FS_CardinalityType
    <3> QED BY <2>1, <3>3, <3>5, <3>6, <3>7, BackendAssumption
  <2> QED BY <2>4, <2>5
<1> QED BY <1>5, <1>6, <1>7

\* The findings of a job and the files it uses, through the chain of its tools.
JobInv(s, f) ==
    /\ job[s][f].sym => job[s][f].found
    /\ job[s][f].pc \in {"queued", "link", "symbolize"} => ~ job[s][f].found
    /\ s = "C" => moved[s][f] # "Rust"
    /\ job[s][f].found /\ job[s][f].pc \in {"dce", "klee", "fetch"} =>
        offset[f] = s \/ <<s, f>> \in unsaved
    /\ job[s][f].sym /\ job[s][f].pc = "convert" =>
        moved[s][f] \in {s, "none"} \/ <<s, f>> \in unsaved
    /\ job[s][f].pc \notin Ended => graph[s][f] = "absent"
    /\ graph[s][f] = "graphs" => moved[s][f] \in {s, "none"} \/ <<s, f>> \in unsaved

\* The four invariants of jobs, job by job.
LEMMA JobInvs ==
    (FindingsInOrder /\ OwnOffsets /\ OffsetsInPlace /\ GraphsFresh)
      <=> /\ \A s \in Side, f \in Fns : JobInv(s, f)
          /\ stage \in {"emit", "emitRust", "C"} => \A f \in Fns : offset[f] # "Rust"
          /\ stage = "emit" => \A f \in Fns : graph["C"][f] = "absent"
          /\ stage = "emitRust" => Reused \/ \A f \in Fns : graph["C"][f] = "absent"
          /\ \A f \in Fns : job["Rust"][f].pc \notin Ended \/ graph["Rust"][f] = "graphs"
                => f \in bc["Rust"]
BY DEF JobInv, FindingsInOrder, OwnOffsets, OffsetsInPlace, GraphsFresh, Side

\* A step keeps what holds of its own job.
LEMMA JobStepOwn ==
    ASSUME BackendTypeOK, NEW s \in Side, NEW f \in Fns, JobInv(s, f), JobStepOrEnd(s, f),
           s = "C" => offset[f] # "Rust"
    PROVE  /\ JobInv(s, f)'
           /\ s = "C" => offset'[f] # "Rust"
<1> DEFINE Goal == JobInv(s, f)' /\ (s = "C" => offset'[f] # "Rust")
<1> USE DEF BackendTypeOK, JobInv, Ended, At, Goto, End, Job, files, Writer
<1>1. CASE Start(s, f)
  BY <1>1 DEF Start
<1>2. CASE Link(s, f)
  BY <1>2 DEF Link
<1>3. CASE ToolFails(s, f)
  BY <1>3 DEF ToolFails
<1>4. CASE SymbolizeFinds(s, f)
  BY <1>4 DEF SymbolizeFinds
<1>5. CASE SymbolizeCannotWrite(s, f)
  BY <1>5 DEF SymbolizeCannotWrite
<1>6. CASE SymbolizeMisses(s, f)
  BY <1>6 DEF SymbolizeMisses
<1>7. CASE StartKlee(s, f)
  BY <1>7 DEF StartKlee
<1>8. CASE KleeTimeout(s, f) \/ KleeEnds(s, f)
  <2>0. PICK b \in {FALSE, job[s][f].found} : job' = [job EXCEPT ![s][f].pc = "fetch", ![s][f].sym = b]
    BY <1>8 DEF KleeTimeout, KleeEnds, Logged
  <2>1. job'[s][f].pc = "fetch" /\ job'[s][f].found = job[s][f].found
    BY <2>0
  <2>2. job'[s][f].sym => job[s][f].found
    <3>1. job'[s][f].sym = b /\ b \in BOOLEAN
      <4>1. job'[s][f] = [job[s][f] EXCEPT !.pc = "fetch", !.sym = b]
        BY <2>0
      <4>2. job[s][f] \in [pc : Running \cup Ended \cup {"queued"}, found : BOOLEAN, sym : BOOLEAN]
        OBVIOUS
      <4> HIDE DEF BackendTypeOK, JobInv, Ended
      <4> QED BY <4>1, <4>2, <2>0
    <3>2. b = TRUE => job[s][f].found = TRUE
      BY <2>0
    <3> HIDE DEF JobInv
    <3> QED BY <3>1, <3>2
  <2>3. job[s][f].pc = "klee" /\ UNCHANGED <<offset, moved, graph, unsaved>>
    BY <1>8 DEF KleeTimeout, KleeEnds
  <2> QED BY <2>1, <2>2, <2>3
<1>9. CASE FetchOffset(s, f)
  <2>1. job'[s][f].pc = "convert" /\ job'[s][f].found = job[s][f].found /\ job'[s][f].sym = job[s][f].sym
    BY <1>9 DEF FetchOffset
  <2>2. /\ moved'[s][f] = IF offset[f] = "none" THEN moved[s][f] ELSE offset[f]
        /\ offset'[f] = "none"
        /\ graph' = graph /\ unsaved' = unsaved
    BY <1>9 DEF FetchOffset
  <2>3. job[s][f].pc = "fetch"
    BY <1>9 DEF FetchOffset
  <2> QED BY <2>1, <2>2, <2>3 DEF Side
<1>10. CASE Convert(s, f) \/ ConvertFails(s, f)
  <2>1. job'[s][f].pc \in Ended /\ ~ job'[s][f].sym /\ ~ job'[s][f].found
    BY <1>10 DEF Convert, ConvertFails
  <2>2. graph'[s][f] = "graphs" => job[s][f].sym /\ job[s][f].pc = "convert"
    BY <1>10 DEF Convert, ConvertFails
  <2>3. UNCHANGED <<offset, moved, unsaved>>
    BY <1>10 DEF Convert, ConvertFails
  <2> QED BY <2>1, <2>2, <2>3
<1> QED BY <1>1, <1>2, <1>3, <1>4, <1>5, <1>6, <1>7, <1>8, <1>9, <1>10
        DEF JobStepOrEnd, JobStep

\* Steps of jobs keep the invariant.
LEMMA JobStepInv ==
    ASSUME IInv, NEW s \in Side, NEW f \in Fns, JobStepOrEnd(s, f)
    PROVE  IInv'
<1>0. BackendTypeOK /\ PoolsInTurn
  BY DEF IInv
<1>1. PICK x \in [pc : Running \cup Ended, found : BOOLEAN, sym : BOOLEAN] : JobMoves(s, f, x)
  BY <1>0, JobStepMoves
<1>2. \A t \in Side, g \in Fns : t # s \/ g # f => job'[t][g] = job[t][g]
  BY <1>0, <1>1, JobEntry
<1>3. BackendTypeOK' /\ OthersKept(s, f)
  BY <1>0, JobStepKeeps
<1>4. /\ s = "C" <=> stage = "C"
      /\ s = "Rust" <=> stage = "Rust"
      /\ \A t \in Side, g \in Fns : t # s => job[t][g].pc \in Ended
  BY <1>0, <1>1, AtWork DEF JobMoves
<1>5. /\ stage' = stage /\ bc' = bc /\ csv' = csv /\ timed' = timed /\ result' = result
      /\ job[s][f].pc \notin Ended
  BY <1>1 DEF JobMoves
<1>6. \A t \in Side, g \in Fns : JobInv(t, g)
  BY JobInvs DEF IInv
<1>7. \A g \in Fns : stage \in {"emit", "emitRust", "C"} => offset[g] # "Rust"
  BY DEF IInv, OffsetsInPlace
<1>8. JobInv(s, f)' /\ (s = "C" => offset'[f] # "Rust")
  BY <1>0, <1>4, <1>6, <1>7, JobStepOwn
<1>9. ASSUME NEW t \in Side, NEW g \in Fns, t # s \/ g # f
      PROVE  JobInv(t, g)'
  <2>1. job'[t][g] = job[t][g] /\ moved'[t][g] = moved[t][g] /\ graph'[t][g] = graph[t][g]
    BY <1>2, <1>3, <1>9 DEF OthersKept
  <2>2. unsaved \subseteq unsaved' /\ (g # f => offset'[g] = offset[g])
    BY <1>3 DEF OthersKept
  <2>3. g = f => job[t][g].pc \in Ended
    BY <1>4, <1>9
  <2> QED BY <1>6, <2>1, <2>2, <2>3 DEF JobInv, Ended
<1>10. stage' \in {"emit", "emitRust", "C"} => \A g \in Fns : offset'[g] # "Rust"
  BY <1>3, <1>4, <1>5, <1>7, <1>8, <1>0 DEF OthersKept, PoolsInTurn, AllEnded, Side
<1>11. stage' # "emit" /\ stage' # "emitRust"
  BY <1>4, <1>5 DEF Side
<1>12. ASSUME NEW g \in Fns, job'["Rust"][g].pc \notin Ended \/ graph'["Rust"][g] = "graphs"
       PROVE  g \in bc'["Rust"]
  <2>1. job["Rust"][g].pc \notin Ended \/ graph["Rust"][g] = "graphs" => g \in bc["Rust"]
    BY DEF IInv, GraphsFresh
  <2>2. CASE s = "Rust" /\ g = f
    BY <1>5, <2>1, <2>2
  <2>3. CASE s # "Rust" \/ g # f
    <3>1. job'["Rust"][g] = job["Rust"][g] /\ graph'["Rust"][g] = graph["Rust"][g]
      BY <1>2, <1>3, <2>3 DEF OthersKept, Side
    <3> QED BY <1>5, <1>12, <2>1, <3>1
  <2> QED BY <2>2, <2>3
<1>13. (FindingsInOrder /\ OwnOffsets /\ OffsetsInPlace /\ GraphsFresh)'
  <2>1. \A t \in Side, g \in Fns : JobInv(t, g)'
    BY <1>8, <1>9
  <2> QED BY <2>1, <1>10, <1>11, <1>12 DEF JobInv, FindingsInOrder, OwnOffsets, OffsetsInPlace, GraphsFresh, Side
<1>14. TableFinal' /\ RowsMatchGraphs'
  <2>1. ~ csv.written /\ DOMAIN csv.rows = {} /\ ~ result.written
    BY <1>4, <1>5 DEF IInv, TableFinal, Side
  <2> QED BY <1>5, <2>1 DEF TableFinal, RowsMatchGraphs, Rows
<1> QED BY <1>3, <1>13, <1>14, JobStepPools DEF IInv

-----------------------------------------------------------------------------
\* Steps of main.

\* A fresh entry has no findings.
LEMMA JobFields == \A p : Job(p).pc = p /\ ~ Job(p).found /\ ~ Job(p).sym
BY DEF Job

\* Handing a side to its pool, or marking it reused, leaves it without workers and findings.
LEMMA SideReset ==
    ASSUME BackendTypeOK, PoolsBounded, KleesAreJobs, NEW s \in Side,
           NEW h \in [Fns -> {"absent", "queued", "skip"}],
           job' = [job EXCEPT ![s] = [f \in Fns |-> Job(h[f])]], UNCHANGED klees, AllEnded(s)
    PROVE  /\ job' \in [Side -> [Fns -> [pc : Running \cup Ended \cup {"queued"}, found : BOOLEAN, sym : BOOLEAN]]]
           /\ \A f \in Fns : job'[s][f] = Job(h[f])
           /\ \A t \in Side : t # s => job'[t] = job[t]
           /\ PoolsBounded' /\ KleesAreJobs'
<1>1. \A f \in Fns : Job(h[f]) \in [pc : Running \cup Ended \cup {"queued"}, found : BOOLEAN, sym : BOOLEAN]
  BY DEF Job, Ended
<1>2. job' \in [Side -> [Fns -> [pc : Running \cup Ended \cup {"queued"}, found : BOOLEAN, sym : BOOLEAN]]]
  BY <1>1 DEF BackendTypeOK
<1>3. /\ \A f \in Fns : job'[s][f] = Job(h[f]) /\ job'[s][f].pc \in {"absent", "queued", "skip"}
      /\ \A t \in Side : t # s => job'[t] = job[t]
  BY DEF BackendTypeOK, Job
<1>4. PoolsBounded'
  <2>1. \A t \in Side : t # s => Workers(t)' = Workers(t)
    BY <1>3 DEF Workers
  <2>2. Workers(s)' = {}
    BY <1>3 DEF Workers, Running
  <2>3. Cardinality(Workers(s)') = 0
    BY <2>2, FS_EmptySet, Zenon
  <2> QED BY <2>1, <2>3, BackendAssumption DEF PoolsBounded
<1>5. KleesAreJobs'
  <2> SUFFICES ASSUME NEW t \in Side, NEW g \in Fns
               PROVE  job'[t][g].pc = "klee" <=> job[t][g].pc = "klee"
    BY DEF KleesAreJobs
  <2>1. CASE t = s
    BY <2>1, <1>3 DEF AllEnded, Ended
  <2>2. CASE t # s
    BY <2>2, <1>3
  <2> QED BY <2>1, <2>2
<1> QED BY <1>2, <1>3, <1>4, <1>5

\* The counts of the table are numbers.
LEMMA CountsTyped ==
    ASSUME BackendTypeOK
    PROVE  Cardinality(RowsOfCompiled) \in Nat /\ Cardinality(EqualRows) \in Nat
<1>1. IsFiniteSet(RowsOfCompiled) /\ IsFiniteSet(EqualRows)
  <2>1. RowsOfCompiled \subseteq Fns /\ EqualRows \subseteq Fns
    BY DEF RowsOfCompiled, EqualRows, Rows, BackendTypeOK
  <2> QED BY <2>1, BackendAssumption, FS_Subset
<1> QED BY <1>1, FS_CardinalityType

\* Main's steps before the pools.
LEMMA EmitInv ==
    ASSUME IInv, EmitC \/ ReuseC \/ EmitRust
    PROVE  IInv'
<1> USE DEF IInv, files, scores
<1>1. CASE EmitC
  <2>1. PICK S \in SUBSET Fns : bc' = [bc EXCEPT !["C"] = S]
    BY <1>1 DEF EmitC
  <2>2. stage = "emit" /\ stage' = "emitRust" /\ UNCHANGED <<job, klees, files, scores>>
    BY <1>1 DEF EmitC
  <2>3. BackendTypeOK'
    BY <2>1, <2>2 DEF BackendTypeOK
  <2>4. PoolsInTurn' /\ KleesAreJobs' /\ PoolsBounded' /\ FindingsInOrder' /\ OffsetsInPlace' /\ OwnOffsets'
    BY <2>2 DEF PoolsInTurn, AllEnded, KleesAreJobs, PoolsBounded, Workers, FindingsInOrder, OffsetsInPlace, OwnOffsets
  <2>5. GraphsFresh'
    <3>1. bc'["Rust"] = bc["Rust"]
      BY <2>1 DEF BackendTypeOK, Side
    <3> QED BY <2>2, <3>1 DEF GraphsFresh
  <2>6. TableFinal' /\ RowsMatchGraphs'
    BY <2>2 DEF TableFinal, RowsMatchGraphs, Rows
  <2> QED BY <2>3, <2>4, <2>5, <2>6
<1>2. CASE ReuseC
  <2>1. PICK S \in SUBSET Fns, G \in SUBSET Fns :
          /\ bc' = [bc EXCEPT !["C"] = S]
          /\ graph' = [graph EXCEPT !["C"] = [f \in Fns |-> IF f \in G THEN "graphs" ELSE @[f]]]
          /\ moved' = [moved EXCEPT !["C"] = [f \in Fns |-> IF f \in G THEN "C" ELSE @[f]]]
    BY <1>2 DEF ReuseC
  <2>2. /\ job' = [job EXCEPT !["C"] = [f \in Fns |-> Job("skip")]]
        /\ stage = "emit" /\ stage' = "emitRust" /\ UNCHANGED <<klees, offset, unsaved, scores>>
    BY <1>2 DEF ReuseC
  <2> DEFINE h == [f \in Fns |-> "skip"]
  <2>3. job' = [job EXCEPT !["C"] = [f \in Fns |-> Job(h[f])]] /\ AllEnded("C")
    BY <2>2 DEF PoolsInTurn
  <2>4. /\ job' \in [Side -> [Fns -> [pc : Running \cup Ended \cup {"queued"}, found : BOOLEAN, sym : BOOLEAN]]]
        /\ \A f \in Fns : job'["C"][f] = Job("skip")
        /\ job'["Rust"] = job["Rust"]
        /\ PoolsBounded' /\ KleesAreJobs'
    <3>1. h \in [Fns -> {"absent", "queued", "skip"}] /\ \A f \in Fns : h[f] = "skip"
      OBVIOUS
    <3> HIDE DEF h
    <3>2. "C" \in Side /\ "Rust" \in Side /\ "Rust" # "C"
      BY DEF Side
    <3>3. BackendTypeOK /\ PoolsBounded /\ KleesAreJobs /\ UNCHANGED klees
      BY <2>2
    <3>4. /\ job' \in [Side -> [Fns -> [pc : Running \cup Ended \cup {"queued"}, found : BOOLEAN, sym : BOOLEAN]]]
          /\ \A f \in Fns : job'["C"][f] = Job(h[f])
          /\ \A t \in Side : t # "C" => job'[t] = job[t]
          /\ PoolsBounded' /\ KleesAreJobs'
      BY ONLY <2>3, <3>1, <3>2, <3>3, SideReset
    <3> QED BY <3>1, <3>2, <3>4
  <2>5. /\ \A f \in Fns : graph'["C"][f] \in {graph["C"][f], "graphs"} /\ moved'["C"][f] \in {moved["C"][f], "C"}
        /\ \A f \in Fns : graph'["C"][f] = "graphs" => graph["C"][f] = "graphs" \/ moved'["C"][f] = "C"
        /\ graph'["Rust"] = graph["Rust"] /\ moved'["Rust"] = moved["Rust"] /\ bc'["Rust"] = bc["Rust"]
    BY <2>1 DEF BackendTypeOK, Side
  <2>6. BackendTypeOK'
    BY <2>1, <2>2, <2>4 DEF BackendTypeOK, Writer, Side
  <2>7. PoolsInTurn'
    BY <2>2, <2>4, <2>5 DEF PoolsInTurn, AllEnded, Ended, Job
  <2>8. FindingsInOrder'
    BY <2>4 DEF FindingsInOrder, Job, Side
  <2>9. OffsetsInPlace'
    BY <2>2, <2>4, <2>5 DEF OffsetsInPlace, Job, Side
  <2>10. OwnOffsets'
    BY <2>2, <2>5 DEF OwnOffsets, GraphsFresh, Side
  <2>11. GraphsFresh'
    BY <2>2, <2>4, <2>5 DEF GraphsFresh, Reused, Job, Side, Ended
  <2>12. TableFinal' /\ RowsMatchGraphs'
    BY <2>2 DEF TableFinal, RowsMatchGraphs, Rows
  <2> QED BY <2>4, <2>6, <2>7, <2>8, <2>9, <2>10, <2>11, <2>12
<1>3. CASE EmitRust
  <2>1. PICK S \in SUBSET Fns : bc' = [bc EXCEPT !["Rust"] = S]
    BY <1>3 DEF EmitRust
  <2>2. /\ stage = "emitRust" /\ stage' = "C" /\ UNCHANGED <<klees, files, scores>>
        /\ job' = IF Reused THEN job ELSE Submitted("C", bc["C"])
    BY <1>3 DEF EmitRust
  <2>3. /\ job' \in [Side -> [Fns -> [pc : Running \cup Ended \cup {"queued"}, found : BOOLEAN, sym : BOOLEAN]]]
        /\ job' = job \/ (\A f \in Fns : graph["C"][f] = "absent"
                                        /\ ~ job'["C"][f].found /\ ~ job'["C"][f].sym)
        /\ job'["Rust"] = job["Rust"]
        /\ PoolsBounded' /\ KleesAreJobs'
    <3>1. CASE Reused
      BY <2>2, <3>1 DEF BackendTypeOK, PoolsBounded, KleesAreJobs, Workers
    <3>2. CASE ~ Reused
      <4> DEFINE h == [f \in Fns |-> IF f \in bc["C"] THEN "queued" ELSE "absent"]
      <4>1. job' = [job EXCEPT !["C"] = [f \in Fns |-> Job(h[f])]] /\ AllEnded("C")
        BY <2>2, <3>2 DEF PoolsInTurn, Submitted
      <4>2. h \in [Fns -> {"absent", "queued", "skip"}]
        OBVIOUS
      <4> HIDE DEF h
      <4>3. "C" \in Side /\ "Rust" \in Side /\ "Rust" # "C"
        BY DEF Side
      <4>4. /\ job' \in [Side -> [Fns -> [pc : Running \cup Ended \cup {"queued"}, found : BOOLEAN, sym : BOOLEAN]]]
            /\ \A f \in Fns : job'["C"][f] = Job(h[f])
            /\ job'["Rust"] = job["Rust"]
            /\ PoolsBounded' /\ KleesAreJobs'
        <5>1. BackendTypeOK /\ PoolsBounded /\ KleesAreJobs /\ UNCHANGED klees
          BY <2>2
        <5>2. /\ job' \in [Side -> [Fns -> [pc : Running \cup Ended \cup {"queued"}, found : BOOLEAN, sym : BOOLEAN]]]
              /\ \A f \in Fns : job'["C"][f] = Job(h[f])
              /\ \A t \in Side : t # "C" => job'[t] = job[t]
              /\ PoolsBounded' /\ KleesAreJobs'
          BY ONLY <4>1, <4>2, <4>3, <5>1, SideReset
        <5> QED BY <4>3, <5>2
      <4>5. \A f \in Fns : graph["C"][f] = "absent"
        BY <2>2, <3>2 DEF GraphsFresh
      <4>6. \A f \in Fns : ~ job'["C"][f].found /\ ~ job'["C"][f].sym
        BY ONLY <4>4, JobFields
      <4> QED BY ONLY <4>4, <4>5, <4>6
    <3> QED BY <3>1, <3>2
  <2>4. BackendTypeOK'
    BY <2>1, <2>2, <2>3 DEF BackendTypeOK
  <2>5. PoolsInTurn'
    BY <2>2, <2>3 DEF PoolsInTurn, AllEnded, Ended
  <2>6. FindingsInOrder' /\ OffsetsInPlace' /\ OwnOffsets'
    BY <2>2, <2>3 DEF FindingsInOrder, OffsetsInPlace, OwnOffsets, Side
  <2>7. GraphsFresh'
    BY <2>2, <2>3 DEF GraphsFresh, PoolsInTurn, Side, Ended
  <2>8. TableFinal' /\ RowsMatchGraphs'
    BY <2>2 DEF TableFinal, RowsMatchGraphs, Rows
  <2> QED BY <2>3, <2>4, <2>5, <2>6, <2>7, <2>8
<1> QED BY <1>1, <1>2, <1>3

\* The C pool is done: the Rust jobs are submitted.
LEMMA StartRustInv ==
    ASSUME IInv, StartRust
    PROVE  IInv'
<1> USE DEF files, scores
<1>1. /\ BackendTypeOK /\ PoolsInTurn /\ KleesAreJobs /\ PoolsBounded
      /\ FindingsInOrder /\ OffsetsInPlace /\ GraphsFresh /\ OwnOffsets
      /\ TableFinal /\ RowsMatchGraphs
  BY DEF IInv
<1>2. /\ stage = "C" /\ stage' = "Rust" /\ AllEnded("C") /\ UNCHANGED <<bc, klees, files, scores>>
      /\ job' = Submitted("Rust", bc["Rust"])
  BY DEF StartRust, CBarrier
<1> DEFINE h == [f \in Fns |-> IF f \in bc["Rust"] THEN "queued" ELSE "absent"]
<1>3. job' = [job EXCEPT !["Rust"] = [f \in Fns |-> Job(h[f])]]
  BY <1>2 DEF Submitted
<1>4. h \in [Fns -> {"absent", "queued", "skip"}] /\ \A f \in Fns : h[f] = "queued" => f \in bc["Rust"]
  OBVIOUS
<1> HIDE DEF h
<1>5. AllEnded("Rust") /\ \A f \in Fns : graph["Rust"][f] = "absent"
  BY <1>1, <1>2 DEF PoolsInTurn
<1>6. "C" \in Side /\ "Rust" \in Side /\ Side = {"C", "Rust"} /\ "C" # "Rust"
  BY DEF Side
<1>7. /\ job' \in [Side -> [Fns -> [pc : Running \cup Ended \cup {"queued"}, found : BOOLEAN, sym : BOOLEAN]]]
      /\ \A f \in Fns : job'["Rust"][f] = Job(h[f])
      /\ \A t \in Side : t # "Rust" => job'[t] = job[t]
      /\ PoolsBounded' /\ KleesAreJobs'
  <2>1. UNCHANGED klees
    BY <1>2
  <2> QED BY ONLY <1>1, <1>3, <1>4, <1>5, <1>6, <2>1, SideReset
<1>8. /\ \A f \in Fns : /\ ~ job'["Rust"][f].found /\ ~ job'["Rust"][f].sym
                        /\ job'["Rust"][f].pc \notin Ended => f \in bc["Rust"]
      /\ job'["C"] = job["C"]
  <2>1. \A f \in Fns : job'["Rust"][f].pc = h[f] /\ ~ job'["Rust"][f].found /\ ~ job'["Rust"][f].sym
    BY ONLY <1>7, JobFields
  <2>2. \A f \in Fns : h[f] \notin Ended => f \in bc["Rust"]
    BY ONLY <1>4 DEF Ended
  <2> QED BY ONLY <2>1, <2>2, <1>6, <1>7
<1>9. BackendTypeOK'
  BY <1>1, <1>2, <1>7 DEF BackendTypeOK
<1>10. PoolsInTurn'
  BY <1>2, <1>8 DEF PoolsInTurn, AllEnded
<1>11. \A s \in Side, f \in Fns : \/ job'[s][f] = job[s][f]
                                   \/ /\ s = "Rust" /\ ~ job'[s][f].found /\ ~ job'[s][f].sym
                                      /\ job'[s][f].pc \notin Ended => f \in bc["Rust"]
  <2> SUFFICES ASSUME NEW s \in Side, NEW f \in Fns
               PROVE  \/ job'[s][f] = job[s][f]
                      \/ /\ s = "Rust" /\ ~ job'[s][f].found /\ ~ job'[s][f].sym
                         /\ job'[s][f].pc \notin Ended => f \in bc["Rust"]
    OBVIOUS
  <2>1. CASE s = "C"
    BY ONLY <1>8, <2>1
  <2>2. CASE s = "Rust"
    BY ONLY <1>8, <2>2
  <2> QED BY ONLY <1>6, <2>1, <2>2
<1>12. FindingsInOrder' /\ OffsetsInPlace'
  <2>1. FindingsInOrder'
    BY ONLY <1>1, <1>11 DEF FindingsInOrder
  <2>2. offset' = offset /\ moved' = moved /\ unsaved' = unsaved /\ stage' = "Rust"
    BY <1>2
  <2>3. OffsetsInPlace'
    BY ONLY <1>1, <1>11, <2>2 DEF OffsetsInPlace
  <2> QED BY <2>1, <2>3
<1>13. OwnOffsets'
  BY <1>1, <1>2 DEF OwnOffsets
<1>14. GraphsFresh'
  <2>1. graph' = graph /\ bc' = bc /\ stage' = "Rust"
    BY <1>2
  <2>2. \A s \in Side, f \in Fns : job'[s][f].pc \notin Ended => graph'[s][f] = "absent"
    BY ONLY <1>1, <1>5, <1>11, <2>1 DEF GraphsFresh
  <2>3. \A f \in Fns : job'["Rust"][f].pc \notin Ended \/ graph'["Rust"][f] = "graphs" => f \in bc'["Rust"]
    BY ONLY <1>5, <1>8, <2>1
  <2> QED BY ONLY <2>1, <2>2, <2>3 DEF GraphsFresh
<1>15. TableFinal' /\ RowsMatchGraphs'
  BY <1>1, <1>2 DEF TableFinal, RowsMatchGraphs, Rows, CFns
<1> QED BY <1>7, <1>9, <1>10, <1>11, <1>12, <1>13, <1>14, <1>15 DEF IInv

\* After the pools only the table, the times and the result are written.
LEMMA LateInv ==
    ASSUME IInv, StartDistance \/ Distance \/ DistanceFails \/ WriteTime \/ MainRaises
                 \/ ProcessOutput \/ ProcessOutputRaises
    PROVE  IInv'
<1> USE DEF files, scores
<1>1. /\ BackendTypeOK /\ PoolsInTurn /\ KleesAreJobs /\ PoolsBounded
      /\ FindingsInOrder /\ OffsetsInPlace /\ GraphsFresh /\ OwnOffsets
      /\ TableFinal /\ RowsMatchGraphs
  BY DEF IInv
<1>2. UNCHANGED <<bc, job, klees, files>>
  BY DEF StartDistance, Distance, DistanceFails, WriteTime, MainRaises, ProcessOutput, ProcessOutputRaises
<1>3. /\ stage' \in {"distance", "time", "output", "done"}
      /\ AllEnded("C") /\ AllEnded("Rust")
  BY <1>1 DEF StartDistance, RustBarrier, Distance, DistanceFails, WriteTime, MainRaises, ProcessOutput,
              ProcessOutputRaises, PoolsInTurn
<1>4. PoolsInTurn' /\ KleesAreJobs' /\ PoolsBounded' /\ FindingsInOrder' /\ OffsetsInPlace'
      /\ GraphsFresh' /\ OwnOffsets'
  BY <1>1, <1>2, <1>3 DEF PoolsInTurn, AllEnded, KleesAreJobs, PoolsBounded, Workers, FindingsInOrder,
                          OffsetsInPlace, GraphsFresh, OwnOffsets
<1>5. CASE Distance
  <2>1. PICK r \in [CFns -> RowKinds] : (\A f \in CFns : r[f] \in RowOf(f)) /\ csv' = [written |-> TRUE, rows |-> r]
    BY <1>5 DEF Distance
  <2>2. csv'.written = TRUE /\ csv'.rows = r /\ DOMAIN r = CFns /\ CFns \subseteq Fns
    BY <2>1 DEF CFns
  <2>3. stage = "distance" /\ stage' = "time" /\ UNCHANGED <<timed, result>>
    BY <1>5 DEF Distance
  <2>4. \A f \in CFns : /\ r[f] = "0.0" => graph["Rust"][f] = "graphs"
                        /\ r[f] = "Rust Empty!" <=> graph["Rust"][f] # "graphs"
    BY <2>1 DEF RowOf
  <2>5. BackendTypeOK'
    BY <1>1, <1>2, <2>2, <2>3 DEF BackendTypeOK
  <2>6. TableFinal'
    BY <1>1, <1>2, <2>2, <2>3, <2>4 DEF TableFinal, Rows
  <2>7. RowsMatchGraphs'
    BY <1>2, <2>2, <2>4 DEF RowsMatchGraphs, Rows, CFns
  <2> QED BY <1>4, <2>5, <2>6, <2>7 DEF IInv
<1>6. CASE ProcessOutput
  <2>1. /\ stage = "output" /\ stage' = "done" /\ csv.written /\ timed /\ UNCHANGED <<csv, timed>>
        /\ result' = [written |-> TRUE, total |-> Cardinality(RowsOfCompiled),
                      equal |-> IF AllNumeric THEN 0 ELSE Cardinality(EqualRows)]
    BY <1>6 DEF ProcessOutput, OutputInputs
  <2>2. BackendTypeOK'
    BY <1>1, <1>2, <2>1, CountsTyped DEF BackendTypeOK
  <2>3. TableFinal' /\ RowsMatchGraphs'
    BY <1>1, <1>2, <2>1 DEF TableFinal, RowsMatchGraphs, Rows, CFns
  <2> QED BY <1>4, <2>2, <2>3 DEF IInv
<1>7. CASE StartDistance \/ DistanceFails \/ WriteTime \/ MainRaises \/ ProcessOutputRaises
  <2>1. /\ UNCHANGED <<csv, result>> /\ timed' \in BOOLEAN /\ (timed => timed')
        /\ stage # "done"
        /\ csv.written => stage' \in {"time", "output", "done"}
    BY <1>1, <1>7 DEF StartDistance, RustBarrier, DistanceFails, WriteTime, MainRaises, ProcessOutputRaises,
                      TableFinal, BackendTypeOK
  <2>2. BackendTypeOK'
    BY <1>1, <1>2, <1>3, <2>1 DEF BackendTypeOK
  <2>3. TableFinal' /\ RowsMatchGraphs'
    BY <1>1, <1>2, <2>1 DEF TableFinal, RowsMatchGraphs, Rows, CFns
  <2> QED BY <1>4, <2>2, <2>3 DEF IInv
<1> QED BY <1>5, <1>6, <1>7

\* Every step of main and of the jobs keeps the invariant.
LEMMA NextInv == IInv /\ [BackendNext]_vars => IInv'
<1> SUFFICES ASSUME IInv, [BackendNext]_vars PROVE IInv'
  OBVIOUS
<1>1. CASE MainStep
  BY <1>1, EmitInv, StartRustInv, LateInv DEF MainStep
<1>2. CASE \E s \in Side, f \in Fns : JobStep(s, f) \/ KleeEnds(s, f)
  BY <1>2, JobStepInv DEF JobStepOrEnd
<1>3. CASE UNCHANGED vars
  <2> USE <1>3 DEF vars, files, scores
  <2>1. BackendTypeOK' /\ PoolsInTurn' /\ KleesAreJobs' /\ PoolsBounded'
    BY DEF IInv, BackendTypeOK, PoolsInTurn, AllEnded, KleesAreJobs, PoolsBounded, Workers
  <2>2. FindingsInOrder' /\ OffsetsInPlace' /\ GraphsFresh' /\ OwnOffsets'
    BY DEF IInv, FindingsInOrder, OffsetsInPlace, GraphsFresh, Reused, OwnOffsets
  <2>3. TableFinal' /\ RowsMatchGraphs'
    BY DEF IInv, TableFinal, RowsMatchGraphs, Rows, CFns
  <2> QED BY <2>1, <2>2, <2>3 DEF IInv
<1> QED BY <1>1, <1>2, <1>3 DEF BackendNext

\* The invariant holds throughout a round.
THEOREM Inductive == BackendSpec => []IInv
BY InitInv, NextInv, PTL DEF BackendSpec
-----------------------------------------------------------------------------
(***************************************************************************)
(* The stages, the jobs and the files keep their types (symbolicExecution).*)
(***************************************************************************)
THEOREM BackendTypeCorrect == BackendSpec => []BackendTypeOK
<1>1. IInv => BackendTypeOK
  BY DEF IInv
<1> QED BY <1>1, Inductive, PTL

(***************************************************************************)
(* The graphs of a side come from offsets of that side, unless the pass    *)
(* could not save them, however the jobs of a pool interleave and wherever *)
(* they fail (process_rust_file's "fetch offset.json").                    *)
(***************************************************************************)
THEOREM OffsetsAreOwn == BackendSpec => []OwnOffsets
<1>1. IInv => OwnOffsets
  BY DEF IInv
<1> QED BY <1>1, Inductive, PTL

\* The processes are at most the workers of the side at work.
LEMMA FewKlees == IInv => KleesBounded
<1> SUFFICES ASSUME IInv PROVE KleesBounded
  OBVIOUS
<1>1. /\ BackendTypeOK /\ PoolsInTurn /\ PoolsBounded
      /\ klees = {j \in Side \X Fns : job[j[1]][j[2]].pc = "klee"}
  BY DEF IInv, KleesAreJobs
<1>2. ASSUME NEW s \in Side, \A t \in Side : t # s => AllEnded(t)
      PROVE  Cardinality(klees) <= MaxJobs
  <2> DEFINE w == [f \in Workers(s) |-> <<s, f>>]
             image == {w[f] : f \in Workers(s)}
  <2>1. IsFiniteSet(Workers(s))
    BY BackendAssumption, FS_Subset DEF Workers
  <2>2. w \in Surjection(Workers(s), image)
    BY DEF Surjection
  <2>3. IsFiniteSet(image) /\ Cardinality(image) <= Cardinality(Workers(s))
    BY <2>1, <2>2, FS_Surjection
  <2>4. klees \subseteq image
    <3> SUFFICES ASSUME NEW j \in klees PROVE j \in image
      OBVIOUS
    <3>1. j = <<j[1], j[2]>> /\ j[1] \in Side /\ j[2] \in Fns /\ job[j[1]][j[2]].pc = "klee"
      BY <1>1
    <3>2. j[1] = s
      BY <1>2, <3>1 DEF AllEnded, Ended
    <3>3. j[2] \in Workers(s)
      BY <3>1, <3>2 DEF Workers, Running
    <3> QED BY <3>1, <3>2, <3>3
  <2>5. IsFiniteSet(klees) /\ Cardinality(klees) <= Cardinality(image)
    BY <2>3, <2>4, FS_Subset
  <2>6. Cardinality(Workers(s)) <= MaxJobs
    BY <1>1 DEF PoolsBounded
  <2>7. Cardinality(klees) \in Nat /\ Cardinality(image) \in Nat /\ Cardinality(Workers(s)) \in Nat
    BY <2>1, <2>3, <2>5, FS_CardinalityType
  <2> QED BY <2>3, <2>5, <2>6, <2>7, BackendAssumption
<1>3. \E s \in Side : \A t \in Side : t # s => AllEnded(t)
  BY <1>1 DEF PoolsInTurn, Side
<1>4. stage = "done" => klees = {}
  BY <1>1 DEF PoolsInTurn, AllEnded, Ended, Side
<1> QED BY <1>2, <1>3, <1>4 DEF KleesBounded

(***************************************************************************)
(* At most MAX_JOBS KLEE processes live at once, whatever times out        *)
(* (run_command_and_log's killpg).                                         *)
(***************************************************************************)
THEOREM KleesAreBounded == BackendSpec => []KleesBounded
BY Inductive, FewKlees, PTL

(***************************************************************************)
(* A 0.0 in the table is of a function whose Rust was compiled: numerator  *)
(* and denominator of the score are over the same functions (score.py).    *)
(***************************************************************************)
THEOREM EqualMeansCompiled == BackendSpec => []EqualRowsAreCompiled
<1>1. IInv => EqualRowsAreCompiled
  <2> SUFFICES ASSUME IInv, NEW f \in EqualRows PROVE f \in RowsOfCompiled
    BY DEF EqualRowsAreCompiled
  <2>1. f \in Rows /\ csv.rows[f] = "0.0" /\ f \in Fns
    BY DEF EqualRows, Rows, IInv, BackendTypeOK
  <2>2. csv.written
    BY <2>1 DEF IInv, TableFinal, Rows
  <2>3. graph["Rust"][f] = "graphs"
    BY <2>1, <2>2 DEF IInv, TableFinal
  <2>4. f \in bc["Rust"]
    BY <2>1, <2>3 DEF IInv, GraphsFresh
  <2> QED BY <2>1, <2>4 DEF RowsOfCompiled
<1> QED BY <1>1, Inductive, PTL

(***************************************************************************)
(* The table stays about the final graphs (compare_and_export_csv).        *)
(***************************************************************************)
THEOREM TableMatchesGraphs == BackendSpec => []RowsMatchGraphs
<1>1. IInv => RowsMatchGraphs
  BY DEF IInv
<1> QED BY <1>1, Inductive, PTL

(***************************************************************************)
(* result.csv, which run_eval takes for success, means that every job has  *)
(* ended and that distances and times are there.                           *)
(***************************************************************************)
THEOREM ResultIsComplete == BackendSpec => []ResultMeansComplete
<1>1. IInv => ResultMeansComplete
  BY DEF IInv, ResultMeansComplete, TableFinal, PoolsInTurn, Side
<1> QED BY <1>1, Inductive, PTL
=============================================================================
