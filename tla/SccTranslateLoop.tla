--------------------------- MODULE SccTranslateLoop ---------------------------
(***************************************************************************)
(* The struct-fn-replay translation of a code base: createSccTopoQueue and *)
(* _runSccTopoTranslateLoop, with agentTranslate for each unit (one        *)
(* function, or one group of mutually recursive functions).                *)
(*                                                                         *)
(* The agents edit one file (agentFile).  A unit whose edited file passes  *)
(* _agentCheckFile replaces it; a unit that does not is dropped and its    *)
(* failure scene is dumped, unless the user repairs the dump by hand.      *)
(*                                                                         *)
(* The text of a function is abstracted to who wrote it last: a unit's     *)
(* agent, the hand repair of a unit, or the agents of the type batches     *)
(* that ran before.                                                        *)
(***************************************************************************)
EXTENDS CallGraph

CONSTANT InteractiveFix   \* canPromptForInteractiveFix()

ASSUME InteractiveFixAssumption == InteractiveFix \in BOOLEAN

VARIABLES
    deps,      \* funcMap[f].dependFunctions
    sccs,      \* result of findStronglyConnectedComponents
    incoming,  \* sccIncomingEdges
    queue,     \* sccQueue
    pc,        \* where the loop is
    cur,       \* sccId of the current iteration, 0 before the first
    pending,   \* consumers of cur not yet decremented
    file,      \* agentFile: the functions in it, with their writers
    outcome,   \* how each unit ended
    blocks,    \* split_blocks/: what was dumped for each accepted unit
    dumps,     \* the units with a failure dump on disk
    merged,    \* merged_funcs.rs on disk
    manifest   \* split_manifest.json is on disk

graph == <<deps, sccs>>
kahn == <<incoming, queue, cur, pending>>
result == <<file, outcome, blocks, dumps, merged, manifest>>
vars == <<graph, kahn, pc, result>>

Units == DOMAIN sccs

Writers == {<<"types", 0>>} \cup ({"agent", "hand"} \X Units)
IsText(t) == DOMAIN t \subseteq Funcs /\ t \in [DOMAIN t -> Writers]
NoText == [f \in {} |-> <<"types", 0>>]
NoFile == [present |-> FALSE]
Written(text) == [present |-> TRUE, text |-> text]

\* Fault: calls inside a group count as edges.
MutCallsInside(t, s) == \E f \in sccs[t] : Adj(deps, f) \cap sccs[s] # {}

(***************************************************************************)
(* createSccTopoQueue: t consumes s when some function of t calls one of s *)
(* (an edge is counted once per pair of components).                       *)
(***************************************************************************)
Calls(t, s) == t # s /\ \E f \in sccs[t] : Adj(deps, f) \cap sccs[s] # {}
Consumers(s) == {t \in Units : Calls(t, s)}
CalleeUnits(t) == {s \in Units : Calls(t, s)}

\* The one sequence that lists the set S of unit indices in increasing order.
InIndexOrder(S) ==
    {q \in [1..Cardinality(S) -> S] :
        /\ \A t \in S : \E i \in DOMAIN q : q[i] = t
        /\ \A i, j \in DOMAIN q : i < j => q[i] < q[j]}

TypeOK ==
    /\ deps \in Graphs
    /\ sccs \in SccOrders(deps)
    /\ incoming \in [Units -> Nat]
    /\ queue \in Seq(Units)
    /\ pc \in {"pop", "unit", "fix", "release", "done", "raised"}
    /\ cur \in Units \cup {0}
    /\ pending \in SUBSET Units
    /\ IsText(file)
    /\ outcome \in [Units -> {"none", "accepted", "fixed", "dropped"}]
    /\ DOMAIN blocks = Units /\ \A s \in Units : IsText(blocks[s])
    /\ dumps \in SUBSET Units
    /\ merged = NoFile \/ (merged = Written(merged.text) /\ IsText(merged.text))
    /\ manifest \in BOOLEAN

(***************************************************************************)
(* The queue starts with the components that call no other, in index       *)
(* order.  Type-batch agents may already have left functions in the file.  *)
(***************************************************************************)
Init ==
    /\ deps \in Graphs
    /\ sccs \in SccOrders(deps)
    /\ incoming = [t \in Units |-> Cardinality(CalleeUnits(t))]
    /\ queue \in InIndexOrder({t \in Units : incoming[t] = 0})
    /\ pc = "pop"
    /\ cur = 0
    /\ pending = {}
    /\ \E D \in SUBSET Funcs : file = [f \in D |-> <<"types", 0>>]
    /\ outcome = [s \in Units |-> "none"]
    /\ blocks = [s \in Units |-> NoText]
    /\ dumps = {}
    /\ merged = NoFile
    /\ manifest = FALSE

\* while sccQueue: sccId = sccQueue.popleft()
Pop ==
    /\ pc = "pop"
    /\ queue # <<>>
    /\ cur' = Head(queue)
    /\ queue' = Tail(queue)
    /\ pc' = "unit"
    /\ UNCHANGED <<graph, incoming, pending, result>>

(***************************************************************************)
(* agentTranslate: a callee the pipeline dealt with before, which is not   *)
(* in the file, failed; the unit is then refused without an agent session. *)
(***************************************************************************)
FailedCallees(s) == CalleesOf(deps, sccs[s]) \ DOMAIN file

\* Fault: functions that are gone are not noticed.
MutOnlyTargets(s, text) == sccs[s] \subseteq DOMAIN text

(***************************************************************************)
(* _agentCheckFile on the edited file: every function of the unit is in    *)
(* it and none that was there is gone.  What the agent rewrote besides is  *)
(* its own affair, and so are functions it added.                          *)
(***************************************************************************)
PassesCheck(s, text) == sccs[s] \cup DOMAIN file \subseteq DOMAIN text

\* The files the agent of unit s can leave: functions D, of which it kept
\* the ones in K as they were.
Edited(s) ==
    {[f \in D |-> IF f \in K \cap DOMAIN file THEN file[f] ELSE <<"agent", s>>] :
        D \in SUBSET Funcs, K \in SUBSET Funcs}

\* _agentCutFunctions: the unit's functions, cut out of the file.
Cut(s, text) == [f \in sccs[s] |-> text[f]]

(***************************************************************************)
(* The success branch of the loop: split block, merged_funcs.rs, and on to *)
(* the consumers.  text is the file the agents edited, whatever the block. *)
(***************************************************************************)
Succeed(how, block, text) ==
    /\ outcome' = [outcome EXCEPT ![cur] = how]
    /\ blocks' = [blocks EXCEPT ![cur] = block]
    /\ merged' = Written(text)
    /\ pc' = "release"
    /\ pending' = Consumers(cur)

\* Fault: the consumers of a dropped unit are not released.
MutDropForgetsConsumers ==
    /\ outcome' = [outcome EXCEPT ![cur] = "dropped"]
    /\ pc' = "release"
    /\ pending' = {}
    /\ UNCHANGED <<blocks, merged>>

\* The unit is given up: nothing of it reaches the merged file.
Drop ==
    /\ outcome' = [outcome EXCEPT ![cur] = "dropped"]
    /\ pc' = "release"
    /\ pending' = Consumers(cur)
    /\ UNCHANGED <<blocks, merged>>

Accept ==
    /\ pc = "unit"
    /\ FailedCallees(cur) = {}
    /\ \E text \in Edited(cur) :
          /\ PassesCheck(cur, text)
          /\ file' = text
          /\ Succeed("accepted", Cut(cur, text), text)
    /\ UNCHANGED <<graph, incoming, queue, cur, dumps, manifest>>

(***************************************************************************)
(* No accepted result, or no session at all: the failure scene goes to     *)
(* disk, then the unit is dropped or offered for repair by hand.           *)
(***************************************************************************)
Fail ==
    /\ pc = "unit"
    /\ dumps' = dumps \cup {cur}
    /\ \/ /\ InteractiveFix
          /\ pc' = "fix"
          /\ UNCHANGED <<outcome, blocks, merged, pending>>
       \/ /\ ~ InteractiveFix
          /\ Drop
    /\ UNCHANGED <<graph, incoming, queue, cur, file, manifest>>

\* _offerManualFunctionFix, _offerManualSccFix: the repaired dump compiles
\* and has the unit's functions.
HandFix ==
    /\ pc = "fix"
    /\ Succeed("fixed", [f \in sccs[cur] |-> <<"hand", cur>>], file)
    /\ UNCHANGED <<graph, incoming, queue, cur, file, dumps, manifest>>

\* The user skips the repair, or stdin is at its end.
SkipFix ==
    /\ pc = "fix"
    /\ Drop
    /\ UNCHANGED <<graph, incoming, queue, cur, file, dumps, manifest>>

(***************************************************************************)
(* _agentInvokeWithBackoff raises on a provider error nothing can mend     *)
(* (AgentSessions), Ctrl+C at the repair prompt raises too, and the loop   *)
(* catches neither.                                                        *)
(***************************************************************************)
Raise ==
    /\ pc \in {"unit", "fix"}
    /\ pc = "unit" => FailedCallees(cur) = {}
    /\ pc' = "raised"
    /\ UNCHANGED <<graph, kahn, result>>

\* Fault: a consumer is listed more than once.
MutReleaseAgain(t) ==
    /\ pc = "release"
    /\ t \in pending
    /\ pending' \in {pending, pending \ {t}}
    /\ incoming' = [incoming EXCEPT ![t] = @ - 1]
    /\ queue' = IF incoming[t] = 1 THEN Append(queue, t) ELSE queue
    /\ UNCHANGED <<graph, cur, pc, result>>

\* Fault: a unit is ready when one counted edge is left.
MutReleaseEarly(t) ==
    /\ pc = "release"
    /\ t \in pending
    /\ pending' = pending \ {t}
    /\ incoming' = [incoming EXCEPT ![t] = @ - 1]
    /\ queue' = IF incoming[t] <= 2 THEN Append(queue, t) ELSE queue
    /\ UNCHANGED <<graph, cur, pc, result>>

\* for consumerSccId in sccConsumers[sccId]: one turn of the loop.
Release(t) ==
    /\ pc = "release"
    /\ t \in pending
    /\ pending' = pending \ {t}
    /\ incoming' = [incoming EXCEPT ![t] = @ - 1]
    /\ queue' = IF incoming[t] = 1 THEN Append(queue, t) ELSE queue
    /\ UNCHANGED <<graph, cur, pc, result>>

EndRelease ==
    /\ pc = "release"
    /\ pending = {}
    /\ pc' = "pop"
    /\ UNCHANGED <<graph, kahn, result>>

\* The queue is empty: the final merged file, and the manifest.
Finish ==
    /\ pc = "pop"
    /\ queue = <<>>
    /\ merged' = Written(file)
    /\ manifest' = TRUE
    /\ pc' = "done"
    /\ UNCHANGED <<graph, kahn, file, outcome, blocks, dumps>>

Next ==
    \/ Pop
    \/ Accept
    \/ Fail
    \/ HandFix
    \/ SkipFix
    \/ Raise
    \/ \E t \in Units : Release(t)
    \/ EndRelease
    \/ Finish

Spec == Init /\ [][Next]_vars /\ WF_vars(Next)
-----------------------------------------------------------------------------
(***************************************************************************)
(* What the loop promises its callers: every unit is decided once, after   *)
(* the units it calls.                                                     *)
(***************************************************************************)
Order == INSTANCE UnitOrder
ImplementsUnitOrder == Order!Spec

(***************************************************************************)
(* The counter of an undecided unit is the number of units it calls that   *)
(* have not yet been taken off it: a unit becomes ready exactly when the   *)
(* last one is, however the decisions and the releases interleave.         *)
(***************************************************************************)
ReleasedTo(t) ==
    {s \in CalleeUnits(t) :
        outcome[s] # "none" /\ ~ (pc = "release" /\ s = cur /\ t \in pending)}
IncomingIsExact ==
    \A t \in Units :
        incoming[t] = Cardinality(CalleeUnits(t) \ ReleasedTo(t))

(***************************************************************************)
(* The error "Loop ended with unprocessed SCC(s)" is never logged: when    *)
(* the queue has drained no counter is left above zero and every unit,     *)
(* hence every function, has been decided.                                 *)
(***************************************************************************)
NothingLeftOver ==
    pc = "done" =>
        /\ \A s \in Units : incoming[s] = 0 /\ outcome[s] # "none"
        /\ Funcs = UNION {sccs[s] : s \in Units}

(***************************************************************************)
(* A unit the agent got accepted stays in the translation, and so does     *)
(* every function of funcMap it calls, however later agents edit the file: *)
(* the refusal of units with failed callees and the check that no function *)
(* is gone together keep the file closed under calls.                      *)
(***************************************************************************)
AcceptedKeepsItsCallees ==
    \A s \in Units :
        outcome[s] = "accepted" =>
            sccs[s] \cup CalleesOf(deps, sccs[s]) \subseteq DOMAIN file

(***************************************************************************)
(* merged_funcs.rs, whenever it is on disk, is the file that last passed   *)
(* the check, also when the run is cut short by an exception.              *)
(***************************************************************************)
MergedIsCheckedFile == merged.present => merged.text = file

(***************************************************************************)
(* _offerManualFunctionFix tells the user that the accepted repair "will   *)
(* flow into merged_funcs and downstream stages".                          *)
(***************************************************************************)
HandFixReachesMerged ==
    pc = "done" =>
        \A s \in Units : outcome[s] = "fixed" => sccs[s] \subseteq DOMAIN merged.text
=============================================================================
