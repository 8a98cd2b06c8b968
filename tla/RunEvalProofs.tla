---------------------------- MODULE RunEvalProofs ----------------------------
(***************************************************************************)
(* Rounds of run_eval, for every set of run ids and any number of rounds:  *)
(* what a round is scored on.                                              *)
(***************************************************************************)
EXTENDS RunEval, TLAPS

FeDir == [round : Rounds, id : Ids, has : {"bare", "partial", "complete"}]
BeDir == [round : Rounds, src : Rounds, result : BOOLEAN]

\* RunEvalTypeOK says of what directories are; they are also listed.
DirsAreLists == fes \in Seq(FeDir) /\ bes \in Seq(BeDir)

\* Oldest first, and a round makes one directory of a kind at most.
OldestFirst ==
    /\ \A i, j \in DOMAIN fes : i < j => fes[i].round < fes[j].round
    /\ \A i, j \in DOMAIN bes : i < j => bes[i].round < bes[j].round

\* Directories are of rounds that were begun, those of the running round of its id and stages.
DirsOfRounds ==
    /\ \A i \in DOMAIN fes :
        /\ fes[i].round <= round
        /\ fes[i].round = round => stage \notin {"start", "frontend"} /\ fes[i].id = id
    /\ \A i \in DOMAIN bes :
        /\ bes[i].round <= round
        /\ bes[i].round = round => stage \notin {"start", "frontend", "find", "contract", "backend"}

\* FE is there, of the round's id, and an older one only if the round made none; past the gate it is no torso.
FrontendChosen ==
    /\ stage \in {"contract", "backend", "result", "score"} =>
        /\ \E d \in ToSet(fes) : d.round = FE /\ d.id = id
        /\ FE # round => ~ MadeFrontend(round)
    /\ stage \in {"backend", "result", "score"} =>
        \E d \in ToSet(fes) : d.round = FE /\ d.id = id /\ d.has # "partial"

\* The same of BE, which has its result.csv.
BackendChosen ==
    stage = "score" =>
        /\ \E d \in ToSet(bes) : d.round = BE /\ d.result
        /\ BE # round => ~ MadeBackend(round)

\* Metrics are of rounds that are over.
MetricsOfThePast ==
    \A i \in Ids :
        /\ metrics[i].round <= round
        /\ metrics[i].round = round => stage = "idle"

\* The inductive invariant.
IInv ==
    /\ RunEvalTypeOK /\ DirsAreLists /\ OldestFirst /\ DirsOfRounds
    /\ FrontendChosen /\ BackendChosen /\ MetricsOfThePast
    /\ StaleOnlyIfNothingMade /\ ScoredPassedGates
-----------------------------------------------------------------------------
\* The first round finds nothing.
LEMMA InitInv == RunEvalInit => IInv
<1> SUFFICES ASSUME RunEvalInit PROVE IInv
  OBVIOUS
<1> USE RunEvalAssumption DEF RunEvalInit
<1>1. RunEvalTypeOK /\ DirsAreLists
  BY DEF RunEvalTypeOK, DirsAreLists, Rounds, NoDir
<1>2. OldestFirst /\ DirsOfRounds /\ FrontendChosen /\ BackendChosen /\ MetricsOfThePast
  BY DEF OldestFirst, DirsOfRounds, FrontendChosen, BackendChosen, MetricsOfThePast
<1>3. StaleOnlyIfNothingMade /\ ScoredPassedGates
  BY DEF StaleOnlyIfNothingMade, ScoredPassedGates, Metrics, NoDir
<1> QED BY <1>1, <1>2, <1>3 DEF IInv

\* A list with one directory more.
LEMMA Appended ==
    ASSUME NEW D, NEW s \in Seq(D), NEW d \in D
    PROVE  /\ Append(s, d) \in Seq(D)
           /\ DOMAIN Append(s, d) = DOMAIN s \cup {Len(s) + 1}
           /\ \A i \in DOMAIN s : Append(s, d)[i] = s[i] /\ i <= Len(s) /\ i \in Nat
           /\ Append(s, d)[Len(s) + 1] = d
           /\ Len(s) + 1 \notin DOMAIN s
           /\ ToSet(s) \subseteq ToSet(Append(s, d))
           /\ Len(s) \in Nat
<1>1. Append(s, d) \in Seq(D) /\ Len(Append(s, d)) = Len(s) + 1 /\ Len(s) \in Nat
  OBVIOUS
<1>2. DOMAIN Append(s, d) = 1..(Len(s) + 1) /\ DOMAIN s = 1..Len(s)
  BY <1>1
<1>3. \A i \in DOMAIN s : Append(s, d)[i] = s[i]
  BY <1>2
<1>4. ToSet(s) \subseteq ToSet(Append(s, d))
  BY <1>1, <1>2, <1>3 DEF ToSet
<1> QED BY <1>1, <1>2, <1>3, <1>4

\* The variables keep their types.
LEMMA NextTypeOK == RunEvalTypeOK /\ DirsAreLists /\ [RunEvalNext]_vars => RunEvalTypeOK' /\ DirsAreLists'
<1> SUFFICES ASSUME RunEvalTypeOK, DirsAreLists, [RunEvalNext]_vars
             PROVE  RunEvalTypeOK' /\ DirsAreLists'
  OBVIOUS
<1>r. round \in Rounds /\ FE \in Rounds /\ BE \in Rounds /\ id \in Ids /\ \A n \in Rounds : n \in Nat
  BY RunEvalAssumption DEF RunEvalTypeOK, Rounds
<1>1. CASE Begin
  <2>1. round' \in Rounds /\ NoDir \in Rounds
    BY <1>1, <1>r, RunEvalAssumption DEF Begin, Rounds, NoDir
  <2> QED BY <1>1, <2>1 DEF Begin, RunEvalTypeOK, DirsAreLists, dirs, out
<1>2. CASE Frontend
  <2>1. PICK has \in {"bare", "partial", "complete"} :
          fes' = Append(fes, [round |-> round, id |-> id, has |-> has])
    BY <1>2 DEF Frontend
  <2>2. [round |-> round, id |-> id, has |-> has] \in FeDir
    BY <1>r DEF FeDir
  <2>3. fes' \in Seq(FeDir)
    BY <2>1, <2>2, Appended DEF DirsAreLists
  <2>4. \A i \in DOMAIN fes' : fes'[i] \in FeDir
    BY <2>3
  <2> QED BY <1>2, <2>3, <2>4 DEF Frontend, RunEvalTypeOK, DirsAreLists, FeDir, BeDir, out
<1>3. CASE Backend
  <2>1. PICK r \in BOOLEAN : bes' = Append(bes, [round |-> round, src |-> FE, result |-> r])
    BY <1>3 DEF Backend
  <2>2. [round |-> round, src |-> FE, result |-> r] \in BeDir
    BY <1>r DEF BeDir
  <2>3. bes' \in Seq(BeDir)
    BY <2>1, <2>2, Appended DEF DirsAreLists
  <2>4. \A i \in DOMAIN bes' : bes'[i] \in BeDir
    BY <2>3
  <2> QED BY <1>3, <2>3, <2>4 DEF Backend, RunEvalTypeOK, DirsAreLists, FeDir, BeDir, out
<1>4. CASE FindFrontend
  BY <1>4 DEF FindFrontend, Matching, RunEvalTypeOK, DirsAreLists, dirs, out
<1>5. CASE FindResult
  BY <1>5 DEF FindResult, HasResult, RunEvalTypeOK, DirsAreLists, dirs, out
<1>6. CASE Score
  BY <1>6 DEF Score, RunEvalTypeOK, DirsAreLists, dirs
<1>7. CASE BadMode \/ NoFrontend \/ ContractFails \/ NoResult \/ ScoreFails
  BY <1>7 DEF BadMode, NoFrontend, ContractFails, NoResult, ScoreFails, Fail,
              RunEvalTypeOK, DirsAreLists, dirs
<1>8. CASE GoodMode \/ FrontendLeavesNothing \/ ContractHolds \/ BackendLeavesNothing \/ Killed
  BY <1>8 DEF GoodMode, FrontendLeavesNothing, ContractHolds, BackendLeavesNothing, Killed,
              RunEvalTypeOK, DirsAreLists, dirs, out
<1>9. CASE UNCHANGED vars
  BY <1>9 DEF vars, dirs, out, RunEvalTypeOK, DirsAreLists
<1> QED BY <1>1, <1>2, <1>3, <1>4, <1>5, <1>6, <1>7, <1>8, <1>9 DEF RunEvalNext

\* Rounds and positions in the lists can be compared.
LEMMA RoundsAreNumbers ==
    ASSUME RunEvalTypeOK, DirsAreLists
    PROVE  /\ round \in Nat
           /\ \A i \in DOMAIN fes : i \in Nat /\ fes[i].round \in Nat
           /\ \A i \in DOMAIN bes : i \in Nat /\ bes[i].round \in Nat
<1>1. \A r \in Rounds : r \in Nat
  BY RunEvalAssumption DEF Rounds
<1>2. (\A i \in DOMAIN fes : i \in Nat) /\ (\A i \in DOMAIN bes : i \in Nat)
  BY DEF DirsAreLists
<1> QED BY <1>1, <1>2 DEF RunEvalTypeOK

\* The newest directory of an id is the round's, if the round made one.
LEMMA NewestIsOwn ==
    ASSUME RunEvalTypeOK, DirsAreLists, OldestFirst, DirsOfRounds,
           NEW i \in Matching, \A j \in Matching : j <= i,
           fes[i].round # round
    PROVE  ~ MadeFrontend(round)
<1> SUFFICES ASSUME NEW k \in DOMAIN fes, fes[k].round = round
             PROVE  FALSE
  BY DEF MadeFrontend
<1>1. k \in Matching
  BY DEF DirsOfRounds, Matching
<1>2. i \in DOMAIN fes /\ k <= i /\ k # i
  BY <1>1 DEF Matching
<1>3. fes[i].round \in Nat /\ fes[i].round <= round /\ round \in Nat /\ i \in Nat /\ k \in Nat
  BY <1>2, RoundsAreNumbers DEF DirsOfRounds
<1> QED BY <1>2, <1>3 DEF OldestFirst

\* The directories are as old and as many as before, or one of this round is added.
LEMMA NextDirs ==
    ASSUME IInv, [RunEvalNext]_vars, RunEvalTypeOK', DirsAreLists'
    PROVE  OldestFirst' /\ DirsOfRounds'
<1> USE RunEvalAssumption DEF IInv
<1>r. /\ round \in Nat
      /\ \A i \in DOMAIN fes : i \in Nat /\ fes[i].round \in Nat
      /\ \A i \in DOMAIN bes : i \in Nat /\ bes[i].round \in Nat
  BY RoundsAreNumbers
<1>1. CASE Begin
  BY <1>1, <1>r DEF Begin, dirs, OldestFirst, DirsOfRounds
<1>2. CASE Frontend
  <2>1. PICK has \in {"bare", "partial", "complete"} :
          fes' = Append(fes, [round |-> round, id |-> id, has |-> has])
    BY <1>2 DEF Frontend
  <2> DEFINE d == [round |-> round, id |-> id, has |-> has]
  <2>2. d \in FeDir /\ d.round = round /\ d.id = id
    BY DEF FeDir, RunEvalTypeOK
  <2>3. /\ DOMAIN fes' = DOMAIN fes \cup {Len(fes) + 1}
        /\ \A i \in DOMAIN fes : fes'[i] = fes[i] /\ i <= Len(fes)
        /\ fes'[Len(fes) + 1] = d /\ Len(fes) \in Nat
    BY <2>1, <2>2, Appended DEF DirsAreLists
  <2>4. \A i \in DOMAIN fes : fes[i].round < round
    BY <1>2, <1>r DEF Frontend, DirsOfRounds
  <2> HIDE DEF d
  <2> QED BY <1>2, <1>r, <2>2, <2>3, <2>4 DEF Frontend, out, OldestFirst, DirsOfRounds
<1>3. CASE Backend
  <2>1. PICK r \in BOOLEAN : bes' = Append(bes, [round |-> round, src |-> FE, result |-> r])
    BY <1>3 DEF Backend
  <2> DEFINE d == [round |-> round, src |-> FE, result |-> r]
  <2>2. d \in BeDir /\ d.round = round
    BY DEF BeDir, RunEvalTypeOK
  <2>3. /\ DOMAIN bes' = DOMAIN bes \cup {Len(bes) + 1}
        /\ \A i \in DOMAIN bes : bes'[i] = bes[i] /\ i <= Len(bes)
        /\ bes'[Len(bes) + 1] = d /\ Len(bes) \in Nat
    BY <2>1, <2>2, Appended DEF DirsAreLists
  <2>4. \A i \in DOMAIN bes : bes[i].round < round
    BY <1>3, <1>r DEF Backend, DirsOfRounds
  <2> HIDE DEF d
  <2> QED BY <1>3, <1>r, <2>2, <2>3, <2>4 DEF Backend, out, OldestFirst, DirsOfRounds
<1>4. CASE \/ BadMode \/ GoodMode \/ FrontendLeavesNothing \/ FindFrontend \/ NoFrontend
           \/ ContractHolds \/ ContractFails \/ BackendLeavesNothing \/ FindResult \/ NoResult
           \/ Score \/ ScoreFails \/ Killed \/ UNCHANGED vars
  <2>1. UNCHANGED <<round, id, dirs>>
    BY <1>4 DEF BadMode, GoodMode, FrontendLeavesNothing, FindFrontend, NoFrontend,
                ContractHolds, ContractFails, BackendLeavesNothing, FindResult, NoResult,
                Score, ScoreFails, Killed, Fail, vars
  <2>2. /\ stage \notin {"start", "frontend"} => stage' \notin {"start", "frontend"}
        /\ stage \notin {"start", "frontend", "find", "contract", "backend"} =>
             stage' \notin {"start", "frontend", "find", "contract", "backend"}
    BY <1>4 DEF BadMode, GoodMode, FrontendLeavesNothing, FindFrontend, NoFrontend,
                ContractHolds, ContractFails, BackendLeavesNothing, FindResult, NoResult,
                Score, ScoreFails, Killed, Fail, vars
  <2> QED BY <2>1, <2>2 DEF dirs, OldestFirst, DirsOfRounds
<1> QED BY <1>1, <1>2, <1>3, <1>4 DEF RunEvalNext

\* A round has one front-end directory.
LEMMA OneOfARound ==
    ASSUME OldestFirst, DirsAreLists, RunEvalTypeOK, NEW c \in ToSet(fes), NEW d \in ToSet(fes), c.round = d.round
    PROVE  c = d
<1>1. PICK i \in DOMAIN fes : c = fes[i]
  BY DEF ToSet
<1>2. PICK j \in DOMAIN fes : d = fes[j]
  BY DEF ToSet
<1>3. i \in Nat /\ j \in Nat /\ fes[i].round \in Nat /\ fes[j].round \in Nat
  <2>1. i \in Nat /\ j \in Nat
    BY DEF DirsAreLists
  <2>2. fes[i].round \in Rounds /\ fes[j].round \in Rounds
    BY DEF RunEvalTypeOK
  <2> QED BY <2>1, <2>2, RunEvalAssumption DEF Rounds
<1>4. ~ (i < j) /\ ~ (j < i)
  BY <1>1, <1>2, <1>3 DEF OldestFirst
<1> QED BY <1>1, <1>2, <1>3, <1>4

\* What FE names, and what the gate has seen of it.
LEMMA NextFrontend ==
    ASSUME IInv, [RunEvalNext]_vars
    PROVE  FrontendChosen'
<1> USE DEF IInv
<1>1. CASE FindFrontend
  <2>1. PICK i \in Matching : (\A j \in Matching : j <= i) /\ FE' = fes[i].round
    BY <1>1 DEF FindFrontend
  <2>2. FE' # round => ~ MadeFrontend(round)
    BY <2>1, NewestIsOwn
  <2>3. \E d \in ToSet(fes) : d.round = FE' /\ d.id = id
    BY <2>1 DEF Matching, ToSet
  <2> QED BY <1>1, <2>2, <2>3 DEF FindFrontend, FrontendChosen, MadeFrontend, dirs
<1>2. CASE ContractHolds
  <2>1. PICK d \in ToSet(fes) : d.round = FE /\ d.id = id
    BY <1>2 DEF ContractHolds, FrontendChosen
  <2>3. TheFrontend \in ToSet(fes) /\ TheFrontend.round = FE
    BY <2>1 DEF TheFrontend
  <2>4. TheFrontend = d
    BY <2>1, <2>3, OneOfARound
  <2>2. TheFrontend \in ToSet(fes) /\ TheFrontend.round = FE /\ TheFrontend.id = id
    BY <2>1, <2>3, <2>4
  <2> QED BY <1>2, <2>2 DEF ContractHolds, FrontendChosen, MadeFrontend, dirs
<1>3. CASE Begin \/ Frontend
  BY <1>3 DEF Begin, Frontend, FrontendChosen
<1>4. CASE Backend
  BY <1>4 DEF Backend, FrontendChosen, MadeFrontend
<1>5. CASE BackendLeavesNothing \/ FindResult
  BY <1>5 DEF BackendLeavesNothing, FindResult, FrontendChosen, MadeFrontend, dirs
<1>6. CASE GoodMode \/ FrontendLeavesNothing
  BY <1>6 DEF GoodMode, FrontendLeavesNothing, FrontendChosen
<1>7. CASE \/ BadMode \/ NoFrontend \/ ContractFails \/ NoResult
           \/ Score \/ ScoreFails \/ Killed
  BY <1>7 DEF BadMode, NoFrontend, ContractFails, NoResult, Score, ScoreFails, Killed, Fail,
              FrontendChosen
<1>8. CASE UNCHANGED vars
  BY <1>8 DEF vars, dirs, FrontendChosen, MadeFrontend
<1> QED BY <1>1, <1>2, <1>3, <1>4, <1>5, <1>6, <1>7, <1>8 DEF RunEvalNext

\* What BE names.
LEMMA NextBackend ==
    ASSUME IInv, [RunEvalNext]_vars
    PROVE  BackendChosen'
<1> USE DEF IInv
<1>1. CASE FindResult
  <2>1. PICK i \in DOMAIN bes : HasResult(i) /\ BE' = bes[i].round
    BY <1>1 DEF FindResult
  <2>2. \E d \in ToSet(bes) : d.round = BE' /\ d.result
    BY <2>1 DEF HasResult, ToSet
  <2>3. ASSUME NEW k \in DOMAIN bes, bes[k].round = round, BE' # round
        PROVE  FALSE
    <3>1. k < i /\ k \in Nat /\ i \in Nat
      BY <2>1, <2>3 DEF HasResult, DirsAreLists
    <3>2. bes[i].round \in Nat /\ round \in Nat
      BY RunEvalAssumption DEF RunEvalTypeOK, Rounds
    <3> QED BY <2>1, <2>3, <3>1, <3>2 DEF OldestFirst, DirsOfRounds
  <2> QED BY <1>1, <2>2, <2>3 DEF FindResult, BackendChosen, MadeBackend, dirs
<1>2. CASE UNCHANGED vars
  BY <1>2 DEF vars, dirs, BackendChosen, MadeBackend
<1>3. CASE \/ Begin \/ BadMode \/ GoodMode \/ Frontend \/ FrontendLeavesNothing \/ FindFrontend
           \/ NoFrontend \/ ContractHolds \/ ContractFails \/ Backend \/ BackendLeavesNothing
           \/ NoResult \/ Score \/ ScoreFails \/ Killed
  <2>1. stage' # "score"
    BY <1>3 DEF Begin, BadMode, GoodMode, Frontend, FrontendLeavesNothing, FindFrontend,
                NoFrontend, ContractHolds, ContractFails, Backend, BackendLeavesNothing,
                NoResult, Score, ScoreFails, Killed, Fail
  <2> QED BY <2>1 DEF BackendChosen
<1> QED BY <1>1, <1>2, <1>3 DEF RunEvalNext

\* No round begins before its number, and metrics come with the end of theirs.
LEMMA NextMetrics ==
    ASSUME IInv, [RunEvalNext]_vars
    PROVE  MetricsOfThePast'
<1> USE DEF IInv
<1>r. round \in Nat /\ \A i \in Ids : metrics[i].round \in Nat
  BY RoundsAreNumbers, RunEvalAssumption DEF RunEvalTypeOK, Rounds
<1>1. CASE Begin
  BY <1>1, <1>r DEF Begin, out, MetricsOfThePast
<1>2. CASE Score
  <2>1. \A i \in Ids : metrics'[i].round \in {metrics[i].round, round}
    BY <1>2 DEF Score, RunEvalTypeOK
  <2> QED BY <1>2, <1>r, <2>1 DEF Score, MetricsOfThePast
<1>3. CASE UNCHANGED vars
  BY <1>3 DEF vars, out, MetricsOfThePast
<1>4. CASE \/ BadMode \/ GoodMode \/ Frontend \/ FrontendLeavesNothing \/ FindFrontend
           \/ NoFrontend \/ ContractHolds \/ ContractFails \/ Backend \/ BackendLeavesNothing
           \/ FindResult \/ NoResult \/ ScoreFails \/ Killed
  <2>1. stage # "idle" /\ UNCHANGED <<round, metrics>>
    BY <1>4 DEF BadMode, GoodMode, Frontend, FrontendLeavesNothing, FindFrontend,
                NoFrontend, ContractHolds, ContractFails, Backend, BackendLeavesNothing,
                FindResult, NoResult, ScoreFails, Killed, Fail, out
  <2> QED BY <2>1 DEF MetricsOfThePast
<1> QED BY <1>1, <1>2, <1>3, <1>4 DEF RunEvalNext

\* Directories are never taken away, and one is only made for the running round.
LEMMA DirsStay ==
    ASSUME IInv, [RunEvalNext]_vars
    PROVE  /\ ToSet(fes) \subseteq ToSet(fes') /\ ToSet(bes) \subseteq ToSet(bes')
           /\ \A r \in Rounds : stage = "idle" \/ r # round =>
                /\ MadeFrontend(r)' => MadeFrontend(r)
                /\ MadeBackend(r)' => MadeBackend(r)
<1> USE DEF IInv
<1>1. CASE Frontend
  <2>1. PICK has \in {"bare", "partial", "complete"} :
          fes' = Append(fes, [round |-> round, id |-> id, has |-> has])
    BY <1>1 DEF Frontend
  <2> DEFINE d == [round |-> round, id |-> id, has |-> has]
  <2>2. d \in FeDir /\ d.round = round
    BY DEF FeDir, RunEvalTypeOK
  <2>3. /\ DOMAIN fes' = DOMAIN fes \cup {Len(fes) + 1}
        /\ \A i \in DOMAIN fes : fes'[i] = fes[i]
        /\ fes'[Len(fes) + 1] = d
        /\ ToSet(fes) \subseteq ToSet(fes')
    BY <2>1, <2>2, Appended DEF DirsAreLists
  <2> HIDE DEF d
  <2> QED BY <1>1, <2>2, <2>3 DEF Frontend, MadeFrontend, MadeBackend
<1>2. CASE Backend
  <2>1. PICK r \in BOOLEAN : bes' = Append(bes, [round |-> round, src |-> FE, result |-> r])
    BY <1>2 DEF Backend
  <2> DEFINE d == [round |-> round, src |-> FE, result |-> r]
  <2>2. d \in BeDir /\ d.round = round
    BY DEF BeDir, RunEvalTypeOK
  <2>3. /\ DOMAIN bes' = DOMAIN bes \cup {Len(bes) + 1}
        /\ \A i \in DOMAIN bes : bes'[i] = bes[i]
        /\ bes'[Len(bes) + 1] = d
        /\ ToSet(bes) \subseteq ToSet(bes')
    BY <2>1, <2>2, Appended DEF DirsAreLists
  <2> HIDE DEF d
  <2> QED BY <1>2, <2>2, <2>3 DEF Backend, MadeFrontend, MadeBackend
<1>3. CASE \/ Begin \/ BadMode \/ GoodMode \/ FrontendLeavesNothing \/ FindFrontend \/ NoFrontend
           \/ ContractHolds \/ ContractFails \/ BackendLeavesNothing \/ FindResult \/ NoResult
           \/ Score \/ ScoreFails \/ Killed \/ UNCHANGED vars
  <2>1. UNCHANGED dirs
    BY <1>3 DEF Begin, BadMode, GoodMode, FrontendLeavesNothing, FindFrontend, NoFrontend,
                ContractHolds, ContractFails, BackendLeavesNothing, FindResult, NoResult,
                Score, ScoreFails, Killed, Fail, vars
  <2> QED BY <2>1 DEF dirs, MadeFrontend, MadeBackend
<1> QED BY <1>1, <1>2, <1>3 DEF RunEvalNext

\* What the metrics of one id are, as StaleOnlyIfNothingMade and ScoredPassedGates say.
OwnOrNothing(i) ==
    /\ metrics[i].fe # metrics[i].round => \A k \in DOMAIN fes : fes[k].round # metrics[i].round
    /\ metrics[i].be # metrics[i].round => \A k \in DOMAIN bes : bes[k].round # metrics[i].round
PastTheGates(i) ==
    metrics[i].round # 0 =>
        /\ \E d \in ToSet(fes) : d.round = metrics[i].fe /\ d.id = i /\ d.has # "partial"
        /\ \E d \in ToSet(bes) : d.round = metrics[i].be /\ d.result

\* They say it of every id.
LEMMA ScoresById ==
    /\ StaleOnlyIfNothingMade <=> \A i \in Ids : OwnOrNothing(i)
    /\ ScoredPassedGates <=> \A i \in Ids : PastTheGates(i)
BY DEF StaleOnlyIfNothingMade, ScoredPassedGates, Metrics, MadeFrontend, MadeBackend,
       OwnOrNothing, PastTheGates

\* Metrics are written once they are true, and what is scored later is of a later round.
LEMMA NextScored ==
    ASSUME IInv, [RunEvalNext]_vars
    PROVE  StaleOnlyIfNothingMade' /\ ScoredPassedGates'
<1> USE DEF IInv
<1>1. SUFFICES ASSUME NEW i \in Ids
               PROVE  OwnOrNothing(i)' /\ PastTheGates(i)'
  BY DEF StaleOnlyIfNothingMade, ScoredPassedGates, Metrics, MadeFrontend, MadeBackend,
         OwnOrNothing, PastTheGates
<1>2. CASE metrics'[i] = metrics[i]
  <2>1. OwnOrNothing(i) /\ PastTheGates(i)
    BY ScoresById
  <2>2. metrics[i].round \in Rounds /\ (stage = "idle" \/ metrics[i].round # round)
    BY DEF RunEvalTypeOK, MetricsOfThePast
  <2>3. /\ ToSet(fes) \subseteq ToSet(fes') /\ ToSet(bes) \subseteq ToSet(bes')
        /\ \A r \in Rounds : stage = "idle" \/ r # round =>
             /\ (\E k \in DOMAIN fes' : fes'[k].round = r) => \E k \in DOMAIN fes : fes[k].round = r
             /\ (\E k \in DOMAIN bes' : bes'[k].round = r) => \E k \in DOMAIN bes : bes[k].round = r
    BY DirsStay DEF MadeFrontend, MadeBackend
  <2>4. OwnOrNothing(i)'
    BY <1>2, <2>1, <2>2, <2>3 DEF OwnOrNothing
  <2>5. PastTheGates(i)'
    BY <1>2, <2>1, <2>3 DEF PastTheGates
  <2> QED BY <2>4, <2>5
<1>3. CASE metrics'[i] # metrics[i]
  <2>1. Score /\ i = id
    BY <1>3 DEF RunEvalNext, Begin, BadMode, GoodMode, Frontend, FrontendLeavesNothing,
                FindFrontend, NoFrontend, ContractHolds, ContractFails, Backend,
                BackendLeavesNothing, FindResult, NoResult, Score, ScoreFails, Killed, Fail,
                vars, out, RunEvalTypeOK
  <2>2. /\ metrics'[i] = [round |-> round, fe |-> FE, be |-> BE]
        /\ UNCHANGED <<fes, bes>> /\ stage = "score"
    BY <2>1 DEF Score, dirs, RunEvalTypeOK
  <2>3. OwnOrNothing(i)'
    BY <2>2 DEF FrontendChosen, BackendChosen, MadeFrontend, MadeBackend, OwnOrNothing
  <2>4. PastTheGates(i)'
    BY <2>1, <2>2 DEF FrontendChosen, BackendChosen, PastTheGates
  <2> QED BY <2>3, <2>4
<1> QED BY <1>2, <1>3
-----------------------------------------------------------------------------
(***************************************************************************)
(* IInv is inductive.  The stages of run_eval hold on to the newest        *)
(* directory of a kind; it is the round's own if the round made one,       *)
(* because directories are listed by age and rounds follow each other.     *)
(***************************************************************************)
THEOREM Inductive == RunEvalSpec => []IInv
<1>1. IInv /\ [RunEvalNext]_vars => IInv'
  <2> SUFFICES ASSUME IInv, [RunEvalNext]_vars PROVE IInv'
    OBVIOUS
  <2>1. RunEvalTypeOK' /\ DirsAreLists'
    BY NextTypeOK DEF IInv
  <2>2. OldestFirst' /\ DirsOfRounds' /\ FrontendChosen' /\ BackendChosen' /\ MetricsOfThePast'
    BY <2>1, NextDirs, NextFrontend, NextBackend, NextMetrics
  <2>3. StaleOnlyIfNothingMade' /\ ScoredPassedGates'
    BY NextScored
  <2> QED BY <2>1, <2>2, <2>3 DEF IInv
<1> QED BY InitInv, <1>1, PTL DEF RunEvalSpec

(***************************************************************************)
(* The variables of run_eval keep their types in every round: STATUS is OK *)
(* or FAILED where it is written, under any number of rounds and ids.      *)
(***************************************************************************)
THEOREM RunEvalTypeCorrect == RunEvalSpec => []RunEvalTypeOK
<1>1. IInv => RunEvalTypeOK
  BY DEF IInv
<1> QED BY <1>1, Inductive, PTL

(***************************************************************************)
(* A round whose front end and backend made their directories is scored on *)
(* these, whatever older rounds of the same id and of others left behind   *)
(* (run_eval's two ls -dt | head -1).                                      *)
(***************************************************************************)
THEOREM ScoresItsOwn == RunEvalSpec => []StaleOnlyIfNothingMade
<1>1. IInv => StaleOnlyIfNothingMade
  BY DEF IInv
<1> QED BY <1>1, Inductive, PTL

(***************************************************************************)
(* The metrics in runs/<id> are of a front-end directory of that id that   *)
(* is not half translated and of a backend directory with a result.csv,    *)
(* however rounds fail and are killed.  That a directory is the round's    *)
(* own, or full, is not said.                                              *)
(***************************************************************************)
THEOREM GatesHold == RunEvalSpec => []ScoredPassedGates
<1>1. IInv => ScoredPassedGates
  BY DEF IInv
<1> QED BY <1>1, Inductive, PTL
=============================================================================
