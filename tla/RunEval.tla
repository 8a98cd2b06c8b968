------------------------------- MODULE RunEval -------------------------------
(***************************************************************************)
(* Rounds of run_eval in one checkout.  A round finds its inputs by name   *)
(* and age: the newest individual-funcs_<RUN_ID>_* is taken for what the   *)
(* front end wrote, the newest perform_general_execution_* for what the    *)
(* backend wrote.  RUN_ID may be given with -i and so be used again.       *)
(*                                                                         *)
(* Directories are kept in order of age.  Front end and backend are        *)
(* reduced to what they can leave behind: nothing, when they die before    *)
(* they make their directory; a directory without output; a full one.  No  *)
(* RUN_ID is another's beginning: run_1 would also match run_1_b's.        *)
(***************************************************************************)
EXTENDS Naturals, Sequences, FiniteSets, SequencesExt

CONSTANTS
    Ids,        \* RUN_IDs in use
    MaxRounds   \* bound on the rounds

ASSUME RunEvalAssumption == IsFiniteSet(Ids) /\ MaxRounds \in Nat \ {0}

VARIABLES
    stage,     \* what the running round does next
    round,     \* rounds begun
    id,        \* RUN_ID of the running round
    fes,       \* individual-funcs directories, oldest first
    bes,       \* perform_general_execution directories, oldest first
    FE, BE,    \* the shell variables: the round that made the directory
    status,    \* runs/<id>/STATUS
    metrics    \* runs/<id>/metrics.json: its round and the FE, BE it is from

dirs == <<fes, bes>>
out == <<status, metrics>>
vars == <<stage, round, id, dirs, FE, BE, out>>

Rounds == 0..MaxRounds
NoDir == 0

RunEvalTypeOK ==
    /\ stage \in {"idle", "start", "frontend", "find", "contract", "backend", "result", "score"}
    /\ round \in Rounds /\ id \in Ids
    /\ \A i \in DOMAIN fes : fes[i] \in [round : Rounds, id : Ids, has : {"bare", "partial", "complete"}]
    /\ \A i \in DOMAIN bes : bes[i] \in [round : Rounds, src : Rounds, result : BOOLEAN]
    /\ FE \in Rounds /\ BE \in Rounds
    /\ status \in [Ids -> {"none", "OK", "FAILED"}]
    /\ metrics \in [Ids -> [round : Rounds, fe : Rounds, be : Rounds]]

RunEvalInit ==
    /\ stage = "idle" /\ round = 0 /\ id \in Ids
    /\ fes = <<>> /\ bes = <<>>
    /\ FE = NoDir /\ BE = NoDir
    /\ status = [i \in Ids |-> "none"]
    /\ metrics = [i \in Ids |-> [round |-> 0, fe |-> NoDir, be |-> NoDir]]

\* fail(): STATUS and exit.
Fail ==
    /\ status' = [status EXCEPT ![id] = "FAILED"]
    /\ stage' = "idle"
    /\ UNCHANGED <<round, id, dirs, BE, metrics>>

\* runs/<id> is made, or taken over as it is.
Begin ==
    /\ stage = "idle" /\ round < MaxRounds
    /\ round' = round + 1
    /\ id' \in Ids
    /\ FE' = NoDir /\ BE' = NoDir
    /\ stage' = "start"
    /\ UNCHANGED <<dirs, out>>

\* llm_mode is not opencode:<provider/model>.
BadMode == stage = "start" /\ Fail /\ UNCHANGED FE

GoodMode ==
    /\ stage = "start"
    /\ stage' = "frontend"
    /\ UNCHANGED <<round, id, dirs, FE, BE, out>>

(***************************************************************************)
(* translationValidator: its exit status only makes a warning.  It makes   *)
(* its directory before it extracts the functions, so it can leave one     *)
(* with no .i ("bare") or one without split_manifest.json ("partial").     *)
(***************************************************************************)
Frontend ==
    /\ stage = "frontend"
    /\ \E has \in {"bare", "partial", "complete"} :
        fes' = Append(fes, [round |-> round, id |-> id, has |-> has])
    /\ stage' = "find"
    /\ UNCHANGED <<round, id, bes, FE, BE, out>>

FrontendLeavesNothing ==
    /\ stage = "frontend"
    /\ stage' = "find"
    /\ UNCHANGED <<round, id, dirs, FE, BE, out>>

Matching == {i \in DOMAIN fes : fes[i].id = id}

\* ls -dt | head -1: the newest of them.
FindFrontend ==
    /\ stage = "find"
    /\ \E i \in Matching : (\A j \in Matching : j <= i) /\ FE' = fes[i].round
    /\ stage' = "contract"
    /\ UNCHANGED <<round, id, dirs, BE, out>>

NoFrontend == stage = "find" /\ Matching = {} /\ Fail /\ UNCHANGED FE

TheFrontend == CHOOSE d \in ToSet(fes) : d.round = FE

\* Fault: the exit status looked at is tee's.
MutContractHolds ==
    /\ stage = "contract"
    /\ stage' = "backend"
    /\ UNCHANGED <<round, id, dirs, FE, BE, out>>

(***************************************************************************)
(* split_merged.py, then the contract.  An unfinished directory has .i     *)
(* files without .rs; one with neither passes; a finished one may fail.    *)
(***************************************************************************)
ContractHolds ==
    /\ stage = "contract"
    /\ TheFrontend.has # "partial"
    /\ stage' = "backend"
    /\ UNCHANGED <<round, id, dirs, FE, BE, out>>

ContractFails ==
    /\ stage = "contract"
    /\ TheFrontend.has # "bare"
    /\ Fail
    /\ UNCHANGED FE

(***************************************************************************)
(* performSymbolExecution: its exit status is not looked at.  The          *)
(* test-case backend before it never fails the round.                      *)
(***************************************************************************)
Backend ==
    /\ stage = "backend"
    /\ \E r \in BOOLEAN : bes' = Append(bes, [round |-> round, src |-> FE, result |-> r])
    /\ stage' = "result"
    /\ UNCHANGED <<round, id, fes, FE, BE, out>>

BackendLeavesNothing ==
    /\ stage = "backend"
    /\ stage' = "result"
    /\ UNCHANGED <<round, id, dirs, FE, BE, out>>

\* Fault: a directory without result.csv is passed over for an older one.
MutHasResult(i) == bes[i].result /\ \A j \in (i + 1)..Len(bes) : ~ bes[j].result

\* The newest directory, if it has a result.csv.
HasResult(i) == i = Len(bes) /\ bes[i].result

FindResult ==
    /\ stage = "result"
    /\ \E i \in DOMAIN bes : HasResult(i) /\ BE' = bes[i].round
    /\ stage' = "score"
    /\ UNCHANGED <<round, id, dirs, FE, out>>

NoResult ==
    /\ stage = "result"
    /\ ~ \E i \in DOMAIN bes : HasResult(i)
    /\ Fail
    /\ UNCHANGED FE

\* Safety report, export, assemble_run and score; none can stop the round.
Score ==
    /\ stage = "score"
    /\ metrics' = [metrics EXCEPT ![id] = [round |-> round, fe |-> FE, be |-> BE]]
    /\ status' = [status EXCEPT ![id] = "OK"]
    /\ stage' = "idle"
    /\ UNCHANGED <<round, id, dirs, FE, BE>>

\* assemble_run or score fails: an older metrics.json stays, and STATUS is OK.
ScoreFails ==
    /\ stage = "score"
    /\ status' = [status EXCEPT ![id] = "OK"]
    /\ stage' = "idle"
    /\ UNCHANGED <<round, id, dirs, FE, BE, metrics>>

\* Fault: a trap leaves a STATUS that nobody reads.
MutKilled ==
    /\ stage # "idle"
    /\ stage' = "idle"
    /\ status' = [status EXCEPT ![id] = "KILLED"]
    /\ UNCHANGED <<round, id, dirs, FE, BE, metrics>>

\* The container is stopped: an older STATUS stays as it is.
Killed ==
    /\ stage # "idle"
    /\ stage' = "idle"
    /\ UNCHANGED <<round, id, dirs, FE, BE, out>>

RunEvalNext ==
    \/ Begin \/ BadMode \/ GoodMode
    \/ Frontend \/ FrontendLeavesNothing \/ FindFrontend \/ NoFrontend
    \/ ContractHolds \/ ContractFails
    \/ Backend \/ BackendLeavesNothing \/ FindResult \/ NoResult
    \/ Score \/ ScoreFails \/ Killed

RunEvalSpec == RunEvalInit /\ [][RunEvalNext]_vars

-----------------------------------------------------------------------------
MadeFrontend(r) == \E i \in DOMAIN fes : fes[i].round = r
MadeBackend(r) == \E i \in DOMAIN bes : bes[i].round = r
Metrics == {metrics[i] : i \in Ids}

(***************************************************************************)
(* A round that made its directories scores them and no others: metrics of *)
(* another round's files need a front end or a backend that died before it *)
(* made one (run_eval's two ls -dt | head -1).                             *)
(***************************************************************************)
StaleOnlyIfNothingMade ==
    \A m \in Metrics :
        /\ m.fe # m.round => ~ MadeFrontend(m.round)
        /\ m.be # m.round => ~ MadeBackend(m.round)

(***************************************************************************)
(* What runs/<id> has metrics of came through run_eval's two gates: a      *)
(* front-end directory of the same id in which no function lacks its .rs,  *)
(* and a backend directory with a result.csv, whatever rounds failed or    *)
(* were killed before.  The gates ask no more: a directory without any     *)
(* function passes the contract, also one a failed round of the id left,   *)
(* and so does the result.csv of a round that was killed after it.         *)
(***************************************************************************)
ScoredPassedGates ==
    \A i \in Ids : metrics[i].round # 0 =>
        /\ \E d \in ToSet(fes) : d.round = metrics[i].fe /\ d.id = i /\ d.has # "partial"
        /\ \E d \in ToSet(bes) : d.round = metrics[i].be /\ d.result

(***************************************************************************)
(* A round whose backend produced no result.csv fails, so the metrics of a *)
(* round are of its own translation ("backend produced no result.csv").    *)
(***************************************************************************)
MetricsOfOwnTranslation ==
    \A m \in Metrics : m.round # 0 => \E d \in ToSet(bes) : d.round = m.be /\ d.src = m.fe
=============================================================================
