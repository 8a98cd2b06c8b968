--------------------------- MODULE SymExecBackend ---------------------------
(***************************************************************************)
(* One round of the symbolic-execution backend: symbolicExecution.py under *)
(* performSymbolExecution.py, up to result.csv.                            *)
(*                                                                         *)
(* The two sides run one after the other, each as a pool of MAX_JOBS       *)
(* threads with one job per bitcode file.  A job is a chain of external    *)
(* tools; a tool that fails raises and ends the job, except KLEE, whose    *)
(* failure and timeout are swallowed.  The Symbolizer pass leaves          *)
(* <fn>_offset.json in the working directory, under the same name for both *)
(* sides; the job moves it to its own side before it builds the graphs.    *)
(* Each function stands for one of its arguments.                          *)
(***************************************************************************)
EXTENDS Naturals, FiniteSets

CONSTANTS
    Fns,           \* functions that passed the backend contract
    MaxJobs        \* MAX_JOBS

ASSUME BackendAssumption ==
    /\ IsFiniteSet(Fns)
    /\ MaxJobs \in Nat \ {0}

VARIABLES
    stage,    \* where main is
    bc,       \* testcase/<side>/*.bc
    job,      \* the job of a bitcode file: its step and its local findings
    klees,    \* live KLEE processes
    offset,   \* <fn>_offset.json in the working directory: who wrote it
    moved,    \* klee_symbol_log/<side>/<fn>_offset.json: who wrote it
    graph,    \* graph_output/<side>/<fn>
    unsaved,  \* jobs whose pass could not open its offset file
    csv,      \* edit_distance/best_edit_distances.csv
    timed,    \* execution_time.txt is written
    result    \* result.csv

files == <<offset, moved, graph, unsaved>>
scores == <<csv, timed, result>>
vars == <<stage, bc, job, klees, files, scores>>

Side == {"C", "Rust"}
Writer == Side \cup {"none"}

\* The steps of a job; "absent" has no bitcode, "skip" is reused.
Running == {"link", "symbolize", "dce", "klee", "fetch", "convert"}
Ended == {"absent", "skip", "ok", "failed"}

\* found: the pass found the target function.  sym: KLEE printed SYM VALUEs.
Job(pc) == [pc |-> pc, found |-> FALSE, sym |-> FALSE]

NoCsv == [written |-> FALSE, rows |-> [f \in {} |-> "0.0"]]
NoResult == [written |-> FALSE, total |-> 0, equal |-> 0]

BackendTypeOK ==
    /\ stage \in {"emit", "emitRust", "C", "Rust", "distance", "time", "output", "done"}
    /\ bc \in [Side -> SUBSET Fns]
    /\ job \in [Side -> [Fns -> [pc : Running \cup Ended \cup {"queued"},
                                 found : BOOLEAN, sym : BOOLEAN]]]
    /\ klees \subseteq Side \X Fns
    /\ offset \in [Fns -> Writer]
    /\ moved \in [Side -> [Fns -> Writer]]
    /\ graph \in [Side -> [Fns -> {"absent", "empty", "graphs"}]]
    /\ unsaved \subseteq Side \X Fns
    /\ csv.written \in BOOLEAN /\ DOMAIN csv.rows \subseteq Fns
    /\ timed \in BOOLEAN
    /\ result \in [written : BOOLEAN, total : Nat, equal : Nat]

\* prepare_directory: a fresh directory.
BackendInit ==
    /\ stage = "emit"
    /\ bc = [s \in Side |-> {}]
    /\ job = [s \in Side |-> [f \in Fns |-> Job("absent")]]
    /\ klees = {}
    /\ offset = [f \in Fns |-> "none"]
    /\ moved = [s \in Side |-> [f \in Fns |-> "none"]]
    /\ graph = [s \in Side |-> [f \in Fns |-> "absent"]]
    /\ unsaved = {}
    /\ csv = NoCsv /\ timed = FALSE /\ result = NoResult

(***************************************************************************)
(* The stages of main                                                      *)
(***************************************************************************)

\* The bitcode of the C files that clang accepts, up to where the emitter died.
EmitC ==
    /\ stage = "emit"
    /\ \E S \in SUBSET Fns : bc' = [bc EXCEPT !["C"] = S]
    /\ stage' = "emitRust"
    /\ UNCHANGED <<job, klees, files, scores>>

\* ASSURE_REUSE_C: bitcode, offsets and graphs of an earlier round are copied.
ReuseC ==
    /\ stage = "emit"
    /\ \E S \in SUBSET Fns : \E G \in SUBSET S :
        /\ bc' = [bc EXCEPT !["C"] = S]
        /\ graph' = [graph EXCEPT !["C"] = [f \in Fns |-> IF f \in G THEN "graphs" ELSE @[f]]]
        /\ moved' = [moved EXCEPT !["C"] = [f \in Fns |-> IF f \in G THEN "C" ELSE @[f]]]
    /\ job' = [job EXCEPT !["C"] = [f \in Fns |-> Job("skip")]]
    /\ stage' = "emitRust"
    /\ UNCHANGED <<klees, offset, unsaved, scores>>

Reused == \A f \in Fns : job["C"][f].pc = "skip"

\* executor.submit for every .bc of the side.
Submitted(s, S) == [job EXCEPT ![s] = [f \in Fns |-> Job(IF f \in S THEN "queued" ELSE "absent")]]

(***************************************************************************)
(* Rust bitcode: rustc, then rustc with libc, then none.  The argument map *)
(* and the C struct map follow; what they hold is not modelled.  Then the  *)
(* C jobs are submitted.                                                   *)
(***************************************************************************)
EmitRust ==
    /\ stage = "emitRust"
    /\ \E S \in SUBSET Fns : bc' = [bc EXCEPT !["Rust"] = S]
    /\ job' = IF Reused THEN job ELSE Submitted("C", bc["C"])
    /\ stage' = "C"
    /\ UNCHANGED <<klees, files, scores>>

\* as_completed has returned every future, and the executor is shut down.
AllEnded(s) == \A f \in Fns : job[s][f].pc \in Ended

\* Fault: the pool of a side is not waited for.
MutCBarrier == stage = "C"
MutRustBarrier == stage = "Rust"

CBarrier == stage = "C" /\ AllEnded("C")
RustBarrier == stage = "Rust" /\ AllEnded("Rust")

\* Duplicate graphs go, the Rust struct map is made, the Rust jobs are submitted.
StartRust ==
    /\ CBarrier
    /\ job' = Submitted("Rust", bc["Rust"])
    /\ stage' = "Rust"
    /\ UNCHANGED <<bc, klees, files, scores>>

StartDistance ==
    /\ RustBarrier
    /\ stage' = "distance"
    /\ UNCHANGED <<bc, job, klees, files, scores>>

\* Fault: an argument without Rust graphs is compared with nothing.
MutRowOf(f) == {"0.0", "number", "Rust Empty! (arg absent)", "Rust Empty!"}

(***************************************************************************)
(* compare_and_export_csv: one row per C argument.  "number" is every      *)
(* distance but 0.0, the sentinel 1000 included.                           *)
(***************************************************************************)
RowOf(f) ==
    IF graph["Rust"][f] = "graphs"
    THEN {"0.0", "number", "Rust Empty! (arg absent)"}
    ELSE {"Rust Empty!"}

CFns == {f \in Fns : graph["C"][f] = "graphs"}
RowKinds == {"0.0", "number", "Rust Empty! (arg absent)", "Rust Empty!"}

Distance ==
    /\ stage = "distance"
    /\ \E r \in [CFns -> RowKinds] :
        /\ \A f \in CFns : r[f] \in RowOf(f)
        /\ csv' = [written |-> TRUE, rows |-> r]
    /\ stage' = "time"
    /\ UNCHANGED <<bc, job, klees, files, timed, result>>

\* distance.py fails, on a graph it cannot load: the error is logged.
DistanceFails ==
    /\ stage = "distance"
    /\ stage' = "time"
    /\ UNCHANGED <<bc, job, klees, files, scores>>

WriteTime ==
    /\ stage = "time"
    /\ timed' = TRUE
    /\ stage' = "output"
    /\ UNCHANGED <<bc, job, klees, files, csv, result>>

(***************************************************************************)
(* What main does outside its try blocks: the copy of the C artifacts, the *)
(* argument map, execution_time.txt.  start_process ignores the exit code. *)
(***************************************************************************)
MainRaises ==
    /\ stage \in {"emit", "emitRust", "time"}
    /\ stage' = "output"
    /\ UNCHANGED <<bc, job, klees, files, scores>>

(***************************************************************************)
(* count_edit_distance.  pandas reads a column that holds only numbers as  *)
(* floats, none of which equals the text "0.0".                            *)
(***************************************************************************)
Rows == DOMAIN csv.rows
RowsOfCompiled == {f \in Rows : f \in bc["Rust"]}
EqualRows == {f \in Rows : csv.rows[f] = "0.0"}
AllNumeric == \A f \in Rows : csv.rows[f] \in {"0.0", "number"}

\* Fault: process_output reads execution_time.txt first and tolerates no csv.
MutOutputInputs == timed

OutputInputs == csv.written /\ timed

ProcessOutput ==
    /\ stage = "output"
    /\ OutputInputs
    /\ result' = [written |-> TRUE,
                  total |-> Cardinality(RowsOfCompiled),
                  equal |-> IF AllNumeric THEN 0 ELSE Cardinality(EqualRows)]
    /\ stage' = "done"
    /\ UNCHANGED <<bc, job, klees, files, csv, timed>>

\* A file is missing, or coverage or termination counts raise: no result.csv.
ProcessOutputRaises ==
    /\ stage = "output"
    /\ stage' = "done"
    /\ UNCHANGED <<bc, job, klees, files, scores>>

(***************************************************************************)
(* The jobs: process_c_file and process_rust_file                          *)
(***************************************************************************)
At(s, f, pc) == job[s][f].pc = pc
Goto(s, f, pc) == job' = [job EXCEPT ![s][f].pc = pc]
End(s, f, pc) == job' = [job EXCEPT ![s][f] = Job(pc)]
Workers(s) == {f \in Fns : job[s][f].pc \in Running}

Start(s, f) ==
    /\ At(s, f, "queued")
    /\ Cardinality(Workers(s)) < MaxJobs
    /\ Goto(s, f, "link")
    /\ UNCHANGED <<stage, bc, klees, files, scores>>

\* C links libc; Rust is demangled, then linked with core and alloc.
Link(s, f) ==
    /\ At(s, f, "link")
    /\ Goto(s, f, "symbolize")
    /\ UNCHANGED <<stage, bc, klees, files, scores>>

\* run_command raises: the files of the tools before it stay.
ToolFails(s, f) ==
    /\ \E pc \in {"link", "symbolize", "dce"} : At(s, f, pc)
    /\ End(s, f, "failed")
    /\ UNCHANGED <<stage, bc, klees, files, scores>>

\* The pass finds the target and writes the offsets of its arguments.
SymbolizeFinds(s, f) ==
    /\ At(s, f, "symbolize")
    /\ job' = [job EXCEPT ![s][f] = [pc |-> "dce", found |-> TRUE, sym |-> FALSE]]
    /\ offset' = [offset EXCEPT ![f] = s]
    /\ UNCHANGED <<stage, bc, klees, moved, graph, unsaved, scores>>

\* write_json cannot open the file: it says so, and opt succeeds.
SymbolizeCannotWrite(s, f) ==
    /\ At(s, f, "symbolize")
    /\ job' = [job EXCEPT ![s][f] = [pc |-> "dce", found |-> TRUE, sym |-> FALSE]]
    /\ unsaved' = unsaved \cup {<<s, f>>}
    /\ UNCHANGED <<stage, bc, klees, offset, moved, graph, scores>>

\* Fault: a job without a target stops in a state the pool does not know.
MutSymbolizeMisses(s, f) ==
    /\ At(s, f, "symbolize")
    /\ End(s, f, "no target")
    /\ UNCHANGED <<stage, bc, klees, files, scores>>

\* "target function not found": no offsets, an empty main, and opt succeeds.
SymbolizeMisses(s, f) ==
    /\ At(s, f, "symbolize")
    /\ Goto(s, f, "dce")
    /\ UNCHANGED <<stage, bc, klees, files, scores>>

\* internalize and globaldce; then KLEE is started in a session of its own.
StartKlee(s, f) ==
    /\ At(s, f, "dce")
    /\ Goto(s, f, "klee")
    /\ klees' = klees \cup {<<s, f>>}
    /\ UNCHANGED <<stage, bc, files, scores>>

\* What the log holds: nothing without a target; otherwise some values or none.
Logged(s, f) ==
    \E b \in {FALSE, job[s][f].found} :
        job' = [job EXCEPT ![s][f].pc = "fetch", ![s][f].sym = b]

\* KLEE ends by itself; a non-zero exit is logged and the job goes on.
KleeEnds(s, f) ==
    /\ At(s, f, "klee")
    /\ Logged(s, f)
    /\ klees' = klees \ {<<s, f>>}
    /\ UNCHANGED <<stage, bc, files, scores>>

\* Fault: only the shell is killed; KLEE lives on as an orphan.
MutKleeTimeout(s, f) ==
    /\ At(s, f, "klee")
    /\ Logged(s, f)
    /\ UNCHANGED <<stage, bc, klees, files, scores>>

\* Fault: no timeout.
MutNoTimeout(s, f) ==
    /\ FALSE
    /\ UNCHANGED vars

\* The timeout kills the process group and returns as if KLEE had ended.
KleeTimeout(s, f) ==
    /\ At(s, f, "klee")
    /\ Logged(s, f)
    /\ klees' = klees \ {<<s, f>>}
    /\ UNCHANGED <<stage, bc, files, scores>>

\* An offset file in the working directory is moved to the side of the job.
FetchOffset(s, f) ==
    /\ At(s, f, "fetch")
    /\ moved' = [moved EXCEPT ![s][f] = IF offset[f] = "none" THEN @ ELSE offset[f]]
    /\ offset' = [offset EXCEPT ![f] = "none"]
    /\ Goto(s, f, "convert")
    /\ UNCHANGED <<stage, bc, klees, graph, unsaved, scores>>

\* KqueryConverter: a fresh directory, and a graph for every logged value; with
\* no offsets loaded that works for return values only.
Convert(s, f) ==
    /\ At(s, f, "convert")
    /\ graph' = [graph EXCEPT ![s][f] = IF job[s][f].sym THEN "graphs" ELSE "empty"]
    /\ End(s, f, "ok")
    /\ UNCHANGED <<stage, bc, klees, offset, moved, unsaved, scores>>

(***************************************************************************)
(* The converter fails before, between or after the graphs: a value it     *)
(* cannot parse, or an argument it must look up with no offsets loaded.    *)
(***************************************************************************)
ConvertFails(s, f) ==
    /\ At(s, f, "convert")
    /\ \E g \in {"absent", "empty"} \cup (IF job[s][f].sym THEN {"graphs"} ELSE {}) :
        graph' = [graph EXCEPT ![s][f] = g]
    /\ End(s, f, "failed")
    /\ UNCHANGED <<stage, bc, klees, offset, moved, unsaved, scores>>

JobStep(s, f) ==
    \/ Start(s, f) \/ Link(s, f) \/ ToolFails(s, f)
    \/ SymbolizeFinds(s, f) \/ SymbolizeCannotWrite(s, f) \/ SymbolizeMisses(s, f)
    \/ StartKlee(s, f) \/ KleeTimeout(s, f)
    \/ FetchOffset(s, f) \/ Convert(s, f) \/ ConvertFails(s, f)

MainStep ==
    \/ EmitC \/ ReuseC \/ EmitRust \/ StartRust \/ StartDistance
    \/ Distance \/ DistanceFails \/ WriteTime \/ MainRaises
    \/ ProcessOutput \/ ProcessOutputRaises

BackendNext ==
    \/ MainStep
    \/ \E s \in Side, f \in Fns : JobStep(s, f) \/ KleeEnds(s, f)

BackendSpec == BackendInit /\ [][BackendNext]_vars

(***************************************************************************)
(* Fairness: main and the threads of the pool run on, and every tool but   *)
(* KLEE comes to an end.  KLEE may never end; the timer of the job does.   *)
(***************************************************************************)
BackendFairSpec ==
    /\ BackendSpec
    /\ WF_vars(MainStep)
    /\ \A s \in Side, f \in Fns : WF_vars(JobStep(s, f))

-----------------------------------------------------------------------------

(***************************************************************************)
(* The graphs of a side are built with the offsets of that side, although  *)
(* both sides write <fn>_offset.json to the same place and a C job that    *)
(* fails after the pass leaves its file there for the Rust job to find     *)
(* (process_rust_file's "fetch offset.json").  The exception is a pass     *)
(* that could not open the file: it does not replace the one it finds.     *)
(***************************************************************************)
OwnOffsets ==
    \A s \in Side, f \in Fns :
        graph[s][f] = "graphs" => moved[s][f] \in {s, "none"} \/ <<s, f>> \in unsaved

(***************************************************************************)
(* At most MAX_JOBS KLEE processes are alive at once, timeouts included,   *)
(* and none is left when the round is over (run_command_and_log's killpg). *)
(***************************************************************************)
KleesBounded ==
    /\ Cardinality(klees) <= MaxJobs
    /\ stage = "done" => klees = {}

(***************************************************************************)
(* A row with distance 0.0 belongs to a function whose Rust compiled, so   *)
(* the score's numerator, taken over the whole table, never leaves its     *)
(* denominator (score.py; the distortion feared in LIMITATION.md L2).      *)
(***************************************************************************)
EqualRowsAreCompiled == EqualRows \subseteq RowsOfCompiled

(***************************************************************************)
(* The table is about the final graphs: a row for every function with C    *)
(* graphs, and "Rust Empty!" exactly where the Rust side has none, even    *)
(* after the jobs have all ended (compare_and_export_csv).                 *)
(***************************************************************************)
RowsMatchGraphs ==
    csv.written =>
        /\ Rows = CFns
        /\ \A f \in Rows : csv.rows[f] = "Rust Empty!" <=> graph["Rust"][f] # "graphs"

(***************************************************************************)
(* result.csv exists only for a round whose jobs, distances and timing are *)
(* complete: run_eval takes its presence as the backend's success.         *)
(***************************************************************************)
ResultMeansComplete ==
    result.written => /\ csv.written /\ timed
                      /\ \A s \in Side : AllEnded(s)

(***************************************************************************)
(* Whatever fails or hangs, the round comes to its end: every job's KLEE   *)
(* is bounded by the outer timeout (run_command_and_log).                  *)
(***************************************************************************)
BackendEnds == <>(stage = "done")
=============================================================================
