----------------------------- MODULE SplitMerged -----------------------------
(***************************************************************************)
(* The handover of a translation to the symbolic-execution backend: what   *)
(* the translation loop left on disk is split by split_merged.py into one  *)
(* <fn>.rs per function, and checkBackendContract.py then demands a <fn>.i *)
(* for every .rs and a .rs for every .i (every function has its .i).       *)
(*                                                                         *)
(* rs[f] is <f>.rs in the output directory: what it is, and the functions  *)
(* of the code base whose bodies it holds.  run_eval goes on after a front *)
(* end that raised, so a translation without a manifest is judged as well. *)
(***************************************************************************)
EXTENDS SccTranslateLoop

VARIABLES
    stage,    \* "translate", "split", "closure", "judging", "passed", "failed"
    rs,       \* the <fn>.rs files
    todo,     \* functions main has not come to yet
    target,   \* the function whose file is being assembled
    seen,     \* closure_blocks: functions visited
    stack,    \* closure_blocks: functions to visit
    need      \* closure_blocks: blocks, by unit

closure == <<target, seen, stack, need>>
splitVars == <<stage, rs, todo, closure>>

Names == Funcs \cup {"nobody"}
NoRs == [kind |-> "none", has |-> {}]

\* block_of in split_manifest.json: the unit of a function, failed or not.
UnitOf(f) == CHOOSE s \in Units : f \in sccs[s]

\* split_blocks/<block>.rs is on disk.
HasBlock(s) == outcome[s] \in {"accepted", "fixed"}

SplitInit ==
    /\ Init
    /\ stage = "translate"
    /\ rs = [f \in Funcs |-> NoRs]
    /\ todo = {} /\ target = "nobody"
    /\ seen = {} /\ stack = {} /\ need = {}

\* Fault: no failure scene is dumped.
MutNoDump == {}

(***************************************************************************)
(* The failure scene of a single function is <fn>.rs; that of a group is   *)
(* one scc_<members>.rs.  What code a dump holds is not modelled.          *)
(***************************************************************************)
GroupDumps == {s \in dumps : Cardinality(sccs[s]) > 1}
Dumped == {f \in Funcs : UnitOf(f) \in dumps \ GroupDumps}

LeftByLoop == [f \in Funcs |-> IF f \in Dumped THEN [kind |-> "dump", has |-> {}] ELSE NoRs]

\* main: the manifest is there, so the translation came to its end.
StartSplit ==
    /\ stage = "translate"
    /\ manifest
    /\ rs' = LeftByLoop
    /\ todo' = Funcs
    /\ stage' = "split"
    /\ UNCHANGED closure

\* main after an exception: no manifest, nothing is split and nothing is moved away.
SkipSplit ==
    /\ stage = "translate"
    /\ pc = "raised" /\ ~ manifest
    /\ rs' = LeftByLoop
    /\ stage' = "judging"
    /\ UNCHANGED <<todo, closure>>

\* No block: "keeping the frontend failure dump".
SkipFailed(f) ==
    /\ stage = "split"
    /\ f \in todo
    /\ ~ HasBlock(UnitOf(f))
    /\ todo' = todo \ {f}
    /\ UNCHANGED <<stage, rs, closure>>

StartClosure(f) ==
    /\ stage = "split"
    /\ f \in todo
    /\ HasBlock(UnitOf(f))
    /\ todo' = todo \ {f}
    /\ target' = f
    /\ seen' = {} /\ stack' = {f} /\ need' = {}
    /\ stage' = "closure"
    /\ UNCHANGED rs

\* deps in split_manifest.json.
ManifestDeps(g) == Adj(deps, g) \ {g}

\* Fault: the callees of callees are not chased.
MutVisitDirect(g) ==
    /\ stage = "closure"
    /\ g \in stack
    /\ seen' = seen \cup {g}
    /\ need' = need \cup {UnitOf(g)}
    /\ stack' = (stack \cup (IF g = target THEN ManifestDeps(g) ELSE {})) \ seen'
    /\ UNCHANGED <<stage, rs, todo, target>>

\* Fault: visited functions are visited again.
MutVisitAgain(g) ==
    /\ stage = "closure"
    /\ g \in stack
    /\ seen' = seen \cup {g}
    /\ need' = need \cup {UnitOf(g)}
    /\ stack' = (stack \cup UNION {ManifestDeps(m) : m \in sccs[UnitOf(g)]}) \ {g}
    /\ UNCHANGED <<stage, rs, todo, target>>

(***************************************************************************)
(* One turn of closure_blocks: the block of a popped function is needed,   *)
(* and what any member of the block calls is pushed.  The order in which   *)
(* the stack is popped, and a name pushed twice, make no difference.       *)
(***************************************************************************)
Visit(g) ==
    /\ stage = "closure"
    /\ g \in stack
    /\ seen' = seen \cup {g}
    /\ need' = need \cup {UnitOf(g)}
    /\ stack' = (stack \cup UNION {ManifestDeps(m) : m \in sccs[UnitOf(g)]}) \ seen'
    /\ UNCHANGED <<stage, rs, todo, target>>

\* Fault: the function's own block is left out.
MutOthersOnly == UNION {sccs[s] : s \in {t \in need : HasBlock(t) /\ target \notin sccs[t]}}

\* The functions in the concatenated blocks; a block that is missing is skipped.
Assembled == UNION {sccs[s] : s \in {t \in need : HasBlock(t)}}

(***************************************************************************)
(* The file is written and compiled: with the FILE* adapter if there was   *)
(* something to adapt, else or after that as it is (both hold the same     *)
(* functions), and if rustc takes neither the whole merge replaces it.     *)
(***************************************************************************)
WriteRs ==
    /\ stage = "closure"
    /\ stack = {}
    /\ \E file_ \in {[kind |-> "split", has |-> Assembled],
                     [kind |-> "merge", has |-> DOMAIN merged.text]} :
          rs' = [rs EXCEPT ![target] = file_]
    /\ stage' = "split"
    /\ UNCHANGED <<todo, closure>>

\* merged_funcs.rs and the material go to split_artifacts/.
Tidy ==
    /\ stage = "split"
    /\ todo = {}
    /\ stage' = "judging"
    /\ UNCHANGED <<rs, todo, closure>>

\* checkBackendContract.check on the top level of the directory.
MissingRs == {f \in Funcs : rs[f].kind = "none"}
MissingI == GroupDumps

\* Fault: merged_funcs.rs is not looked for.
MutNoMergedFile == FALSE

\* merged_funcs.rs is at the top level: only a main with a manifest moves it away.
MergedFile == merged.present /\ ~ manifest

CheckContract ==
    /\ stage = "judging"
    /\ stage' = IF MissingRs = {} /\ MissingI = {} /\ ~ MergedFile THEN "passed" ELSE "failed"
    /\ UNCHANGED <<rs, todo, closure>>

SplitStep ==
    \/ StartSplit \/ SkipSplit
    \/ \E f \in Funcs : SkipFailed(f) \/ StartClosure(f) \/ Visit(f)
    \/ WriteRs
    \/ Tidy
    \/ CheckContract

SplitNext ==
    \/ Next /\ UNCHANGED splitVars
    \/ SplitStep /\ UNCHANGED vars

SplitSpec ==
    /\ SplitInit
    /\ [][SplitNext]_<<vars, splitVars>>
    /\ WF_<<vars, splitVars>>(SplitNext)
-----------------------------------------------------------------------------
(***************************************************************************)
(* closure_blocks computes reachability: the blocks needed for a function  *)
(* are those of the functions it reaches by calls, no more and no fewer.   *)
(***************************************************************************)
ClosureIsReachability ==
    stage = "closure" /\ stack = {} => UNION {sccs[s] : s \in need} = Reach(deps, target)

(***************************************************************************)
(* The backend looks for the function a file is named after.  Once main    *)
(* has split a translation, every function an agent translated has a file  *)
(* that holds it, split or whole merge, whatever rustc said.               *)
(***************************************************************************)
AcceptedFileHasItsFunction ==
    manifest /\ stage \in {"judging", "passed", "failed"} =>
        \A f \in Funcs : outcome[UnitOf(f)] = "accepted" => f \in rs[f].has

(***************************************************************************)
(* Failed functions alone do not break the contract, and nor do repaired   *)
(* ones: each has its dump or its file.  A translation is refused because  *)
(* of a group of functions that was not accepted, or because an exception  *)
(* ended it.                                                               *)
(***************************************************************************)
OnlyGroupsBreakContract ==
    stage = "failed" /\ pc # "raised" =>
        \E s \in Units : Cardinality(sccs[s]) > 1 /\ outcome[s] # "accepted"

(***************************************************************************)
(* A translation an exception ended goes to the backend only when no unit  *)
(* of it was accepted or repaired: merged_funcs.rs is written after each,  *)
(* stays where it is without a manifest, and the contract forbids it       *)
(* (run_eval continues, "partial output may exist").                       *)
(***************************************************************************)
UnfinishedIsRefused ==
    stage = "passed" /\ ~ manifest => \A s \in Units : outcome[s] \notin {"accepted", "fixed"}

(***************************************************************************)
(* Every translation is judged, also one that an exception ends: the loop  *)
(* and the closures come to an end.                                        *)
(***************************************************************************)
EventuallyJudged == <>(stage \in {"passed", "failed"})

(***************************************************************************)
(* split_merged.py: "A function that already failed at the merge stage has *)
(* no block -- the frontend already dumped the failure scene as <fn>.rs".  *)
(***************************************************************************)
FailureSceneIsThere ==
    stage = "judging" => \A f \in Funcs : outcome[UnitOf(f)] = "dropped" => rs[f].kind = "dump"
=============================================================================
