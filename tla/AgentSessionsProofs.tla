------------------------- MODULE AgentSessionsProofs -------------------------
(***************************************************************************)
(* The agent sessions of a run, for every number of retries, every list of *)
(* pauses, every timeout and any number of units.                          *)
(***************************************************************************)
EXTENDS AgentSessions, WellFoundedInduction, TLAPS

\* A unit that was invoked on a broken provider and still has its file is lost, and no other.
LostOnce ==
    /\ pc # "next" => unit # 0
    /\ starved \/ lost # 0 => broken
    /\ lost \in {0, 1}
    /\ lost = 1 =>
        \/ pc \in {"next", "raised"}
        \/ pc \in {"attempt", "invoke"} /\ NoResult(out) /\ ~ starved

\* The message follows the session of the unit, which the retries keep.
SessionKept ==
    /\ withTask <=> ~ session
    /\ pc = "invoke" /\ session => resume

\* What is in the file was edited in a session; the first attempt starts from no result.
EditsHaveSession ==
    /\ pc \in {"attempt", "invoke"} /\ attempt = 0 => NoResult(out)
    /\ pc = "judge" /\ ~ NoResult(out) => session \/ found

\* The longest that the tries before try t can have taken, with their pauses.
Spent(t) == (t - 1) * AgentTimeout + SumTo[t - 1]

\* The attempt under way began before the deadline.
Clock ==
    /\ pc \in {"invoke", "judge"} => attempt <= Retries
    /\ pc = "attempt" /\ attempt = 0 => elapsed = 0
    /\ pc = "invoke" => elapsed <= UnitTimeout + Spent(try)

\* The inductive invariant.
IInv ==
    /\ TypeOK
    /\ LostOnce /\ SessionKept /\ EditsHaveSession /\ Clock
    /\ RejectedEditKeepsSession /\ UnitTimeBounded
-----------------------------------------------------------------------------
(***************************************************************************)
(* A set of numbers has a member that is 0 or comes right after a number   *)
(* outside the set: what fails for some number fails first somewhere.      *)
(***************************************************************************)
LEMMA FirstFailure ==
    ASSUME NEW T \in SUBSET Nat, T # {}
    PROVE  \E n \in T : n # 0 => n - 1 \in Nat /\ n - 1 \notin T
<1>1. \E n \in T : \A m \in T : ~ (<<m, n>> \in OpToRel(<, Nat))
  BY NatLessThanWellFounded, WFMin, Zenon
<1>2. PICK n \in T : \A m \in T : ~ (m < n)
  BY <1>1, Zenon DEF OpToRel
<1>3. n # 0 => n - 1 \in Nat /\ n - 1 < n
  BY ONLY n \in T, T \in SUBSET Nat
<1>4. n # 0 => n - 1 \notin T
  BY ONLY <1>2, <1>3, n \in T
<1> QED BY ONLY <1>3, <1>4, n \in T

(***************************************************************************)
(* The pauses add up to what SumTo says: its equation has a solution.  An  *)
(* argument by induction is one by the least number it fails for.          *)
(***************************************************************************)
LEMMA SumToEquation ==
    SumTo = [i \in 0..Len(Pauses) |-> IF i = 0 THEN 0 ELSE SumTo[i - 1] + Pauses[i]]
<1> DEFINE N == Len(Pauses)
           Sums(n) == {f \in [0..n -> Nat] :
                         \A i \in 0..n : f[i] = IF i = 0 THEN 0 ELSE f[i - 1] + Pauses[i]}
           T == {n \in 0..N : Sums(n) = {}}
<1>n. N \in Nat /\ \A i \in 1..N : Pauses[i] \in Nat
  BY AgentAssumption
<1>1. T = {}
  <2> SUFFICES ASSUME T # {} PROVE FALSE
    OBVIOUS
  <2>1. PICK n \in T : n # 0 => n - 1 \in Nat /\ n - 1 \notin T
    <3>1. T \in SUBSET Nat
      BY <1>n
    <3> HIDE DEF T
    <3> QED BY <3>1, FirstFailure
  <2>2. CASE n = 0
    <3>1. [i \in 0..0 |-> 0] \in Sums(0)
      OBVIOUS
    <3> QED BY <2>1, <2>2, <3>1
  <2>3. CASE n # 0
    <3>1. n \in 1..N /\ n - 1 \in 0..N /\ n - 1 \notin T
      BY <1>n, <2>1, <2>3
    <3>2. PICK f : f \in Sums(n - 1)
      BY <3>1
    <3> DEFINE g == [i \in 0..n |-> IF i = n THEN f[n - 1] + Pauses[n] ELSE f[i]]
    <3>3. g \in [0..n -> Nat]
      BY <1>n, <3>1, <3>2
    <3>4. ASSUME NEW i \in 0..n
          PROVE  g[i] = IF i = 0 THEN 0 ELSE g[i - 1] + Pauses[i]
      <4>1. CASE i = n
        BY <4>1, <3>1
      <4>2. CASE i # n
        BY <4>2, <3>1, <3>2
      <4> QED BY <4>1, <4>2
    <3>5. g \in Sums(n)
      BY <3>3, <3>4
    <3> QED BY <2>1, <3>5
  <2> QED BY <2>2, <2>3
<1>2. PICK f : f \in Sums(N)
  BY <1>1, <1>n
<1>3. f = [i \in 0..N |-> IF i = 0 THEN 0 ELSE f[i - 1] + Pauses[i]]
  BY <1>2
<1> QED BY <1>3 DEF SumTo

\* The sums are numbers, and those of fewer pauses are smaller.
LEMMA SumToFacts ==
    /\ \A i \in 0..Len(Pauses) : SumTo[i] \in Nat /\ SumTo[i] <= SumTo[Len(Pauses)]
    /\ \A i \in 1..Len(Pauses) : SumTo[i] = SumTo[i - 1] + Pauses[i]
    /\ SumTo[0] = 0
<1> DEFINE N == Len(Pauses)
<1>n. N \in Nat /\ \A i \in 1..N : Pauses[i] \in Nat
  BY AgentAssumption
<1>1. SumTo[0] = 0 /\ \A i \in 1..N : SumTo[i] = SumTo[i - 1] + Pauses[i]
  BY <1>n, SumToEquation
<1>2. \A i \in 0..N : SumTo[i] \in Nat
  <2> DEFINE T == {i \in 0..N : SumTo[i] \notin Nat}
  <2> SUFFICES ASSUME T # {} PROVE FALSE
    OBVIOUS
  <2>1. PICK n \in T : n # 0 => n - 1 \in Nat /\ n - 1 \notin T
    <3>1. T \in SUBSET Nat
      BY <1>n
    <3> HIDE DEF T
    <3> QED BY <3>1, FirstFailure
  <2>2. n \in 1..N /\ n - 1 \in 0..N /\ n - 1 \notin T
    BY <1>n, <1>1, <2>1
  <2>3. SumTo[n] = SumTo[n - 1] + Pauses[n] /\ SumTo[n - 1] \in Nat /\ Pauses[n] \in Nat
    BY <1>n, <1>1, <2>2
  <2> QED BY <2>1, <2>3
<1>3. \A i \in 0..N : SumTo[i] <= SumTo[N]
  <2> DEFINE T == {k \in 0..N : ~ (SumTo[N - k] <= SumTo[N])}
  <2> SUFFICES ASSUME T # {} PROVE FALSE
    <3>1. \A i \in 0..N : N - i \in 0..N /\ N - (N - i) = i
      BY <1>n
    <3> QED BY <3>1
  <2>1. PICK n \in T : n # 0 => n - 1 \in Nat /\ n - 1 \notin T
    <3>1. T \in SUBSET Nat
      BY <1>n
    <3> HIDE DEF T
    <3> QED BY <3>1, FirstFailure
  <2>2. n \in 1..N /\ n - 1 \in 0..N /\ n - 1 \notin T
    BY <1>n, <1>2, <2>1
  <2>3. N - n \in 0..N /\ N - (n - 1) \in 1..N /\ (N - (n - 1)) - 1 = N - n
    BY <1>n, <2>2
  <2>4. SumTo[N - (n - 1)] = SumTo[N - n] + Pauses[N - (n - 1)]
    BY <1>1, <2>3
  <2>5. SumTo[N - n] <= SumTo[N - (n - 1)]
    BY <1>n, <1>2, <2>3, <2>4
  <2>6. SumTo[N - (n - 1)] <= SumTo[N]
    BY <2>2
  <2>7. SumTo[N] \in Nat /\ SumTo[N - n] \in Nat /\ SumTo[N - (n - 1)] \in Nat
    BY <1>n, <1>2, <2>3
  <2> QED BY <2>1, <2>5, <2>6, <2>7
<1> QED BY <1>1, <1>2, <1>3

\* One more try and its pause, and the last try.
LEMMA SpentFacts ==
    /\ Spent(1) = 0
    /\ \A t \in 1..(Len(Pauses) + 1) : Spent(t) \in Nat /\ Spent(t) + AgentTimeout <= LongestAttempt
    /\ \A t \in 1..Len(Pauses) : Spent(t + 1) = Spent(t) + AgentTimeout + Pauses[t]
    /\ LongestAttempt \in Nat
<1> DEFINE N == Len(Pauses)
<1>n. N \in Nat /\ AgentTimeout \in Nat /\ \A i \in 1..N : Pauses[i] \in Nat
  BY AgentAssumption
<1>m. \A i, j \in Nat : i <= j => i * AgentTimeout \in Nat /\ i * AgentTimeout <= j * AgentTimeout
  BY <1>n
<1>1. Spent(1) = 0
  BY <1>n, SumToFacts DEF Spent
<1>2. LongestAttempt \in Nat
  <2>1. (N + 1) * AgentTimeout \in Nat /\ SumTo[N] \in Nat
    BY <1>n, <1>m, SumToFacts
  <2> QED BY <2>1 DEF LongestAttempt
<1>3. ASSUME NEW t \in 1..(N + 1)
      PROVE  Spent(t) \in Nat /\ Spent(t) + AgentTimeout <= LongestAttempt
  <2>1. t - 1 \in 0..N /\ t \in Nat /\ t - 1 \in Nat /\ t <= N + 1 /\ N + 1 \in Nat
    BY <1>n
  <2>2. SumTo[t - 1] \in Nat /\ SumTo[t - 1] <= SumTo[N] /\ SumTo[N] \in Nat
    BY <1>n, <2>1, SumToFacts
  <2> DEFINE a == (t - 1) * AgentTimeout
             b == (N + 1) * AgentTimeout
  <2>3. a \in Nat /\ t * AgentTimeout = a + AgentTimeout
    BY <1>n, <1>m, <2>1
  <2>4. a + AgentTimeout <= b /\ b \in Nat
    BY <1>n, <1>m, <2>1, <2>3
  <2>5. Spent(t) = a + SumTo[t - 1] /\ LongestAttempt = b + SumTo[N]
    BY DEF Spent, LongestAttempt
  <2> HIDE DEF a, b
  <2> QED BY <1>n, <2>2, <2>3, <2>4, <2>5
<1>4. ASSUME NEW t \in 1..N
      PROVE  Spent(t + 1) = Spent(t) + AgentTimeout + Pauses[t]
  <2>1. (t + 1) - 1 = t /\ t - 1 \in 0..N /\ t \in 0..N
    BY <1>n
  <2>2. SumTo[t] = SumTo[t - 1] + Pauses[t] /\ SumTo[t - 1] \in Nat
    BY <2>1, SumToFacts
  <2>3. (t - 1) * AgentTimeout \in Nat /\ t * AgentTimeout = (t - 1) * AgentTimeout + AgentTimeout
    BY <1>n, <1>m, <2>1
  <2>4. Spent(t + 1) = t * AgentTimeout + SumTo[t]
    BY <2>1 DEF Spent
  <2> QED BY <1>n, <2>2, <2>3, <2>4 DEF Spent
<1> QED BY <1>1, <1>2, <1>3, <1>4

\* The ranges of the counters.
LEMMA Ranges ==
    /\ Len(Pauses) \in Nat /\ Retries \in Nat /\ MaxUnits \in Nat /\ MaxUnits # 0
    /\ UnitTimeout \in Nat /\ AgentTimeout \in Nat /\ AgentTimeout # 0
    /\ LongestAttempt \in Nat
    /\ ClockStop \in Nat /\ ClockStop = UnitTimeout + LongestAttempt + 1
BY AgentAssumption, SpentFacts DEF ClockStop

\* Later adds, and stops at ClockStop.
LEMMA LaterFacts ==
    ASSUME TypeOK, NEW t \in Nat
    PROVE  Later(t) \in 0..ClockStop /\ Later(t) <= elapsed + t
BY Ranges DEF TypeOK, Later
-----------------------------------------------------------------------------
\* A run starts in the invariant.
LEMMA InitInv == Init => IInv
<1> SUFFICES ASSUME Init PROVE IInv
  OBVIOUS
<1> USE DEF Init
<1>1. TypeOK
  <2>1. attempt \in 0..(Retries + 1) /\ try \in 1..(Len(Pauses) + 1)
    BY Ranges
  <2>2. unit \in 0..MaxUnits /\ lost \in 0..MaxUnits /\ elapsed \in 0..ClockStop
    BY Ranges
  <2> QED BY <2>1, <2>2 DEF TypeOK, Outs
<1>2. LostOnce /\ SessionKept /\ EditsHaveSession /\ RejectedEditKeepsSession
  BY DEF LostOnce, SessionKept, EditsHaveSession, RejectedEditKeepsSession
<1>3. Clock /\ UnitTimeBounded
  BY Ranges DEF Clock, UnitTimeBounded
<1> QED BY <1>1, <1>2, <1>3 DEF IInv

\* The run of an invocation, and the three ways it is taken.
LEMMA InvokeShape ==
    ASSUME TypeOK, Invoke
    PROVE  /\ pc = "invoke" /\ starved' = (starved \/ broken)
           /\ UNCHANGED <<unit, mode, given, attempt, session, withTask, broken, lost>>
           /\ out' \in Outs /\ reply' \in {"none", "good", "bad"} /\ found' \in BOOLEAN
           /\ out' # out => found'
           /\ \E t \in {1, AgentTimeout}, error \in {"none", "transient", "fatal"} :
                /\ broken => out' = out /\ error = "fatal"
                /\ \/ /\ pc' = "judge" /\ elapsed' = Later(t) /\ UNCHANGED <<try, resume>>
                      /\ error = "fatal" => ~ NoResult(out')
                   \/ /\ pc' = "raised" /\ elapsed' = Later(t) /\ UNCHANGED <<try, resume>>
                   \/ /\ pc' = "invoke" /\ error = "transient" /\ NoResult(out') /\ try <= Len(Pauses)
                      /\ elapsed' = Later(t + Pauses[try])
                      /\ resume' = (resume \/ found') /\ try' = try + 1
<1>1. PICK r \in Runs : out' = r.out /\ reply' = r.reply /\ found' = r.found /\ AfterRun(r)
  BY DEF Invoke
<1>2. /\ r.out \in Outs /\ r.reply \in {"none", "good", "bad"} /\ r.found \in BOOLEAN
      /\ r.error \in {"none", "transient", "fatal"} /\ r.time \in {1, AgentTimeout}
      /\ r.out # out => r.found
      /\ broken => r.out = out /\ r.error = "fatal"
  BY DEF Runs
<1>3. \/ /\ pc' = "judge" /\ elapsed' = Later(r.time) /\ UNCHANGED <<try, resume>>
         /\ r.error = "fatal" => ~ NoResult(r.out)
      \/ /\ pc' = "raised" /\ elapsed' = Later(r.time) /\ UNCHANGED <<try, resume>>
      \/ /\ pc' = pc /\ r.error = "transient" /\ NoResult(r.out) /\ try <= Len(Pauses)
         /\ elapsed' = Later(r.time + Pauses[try])
         /\ resume' = (resume \/ r.found) /\ try' = try + 1
  BY <1>1 DEF AfterRun
<1>4. /\ pc = "invoke" /\ starved' = (starved \/ broken)
      /\ UNCHANGED <<unit, mode, given, attempt, session, withTask, broken, lost>>
  BY DEF Invoke, start, loop
<1> HIDE DEF Invoke, Runs, AfterRun
<1> QED BY ONLY <1>1, <1>2, <1>3, <1>4

\* Who is lost to a broken provider.
LEMMA NextLost == TypeOK /\ LostOnce /\ [Next]_vars => LostOnce'
<1> SUFFICES ASSUME TypeOK, LostOnce, [Next]_vars PROVE LostOnce'
  OBVIOUS
<1>1. CASE StartUnit
  BY <1>1, Ranges DEF StartUnit, LostOnce, NoResult, TypeOK
<1>2. CASE GiveUp
  BY <1>2 DEF GiveUp, Lose, start, loop, backoff, LostOnce, TypeOK
<1>3. CASE BeginAttempt
  BY <1>3 DEF BeginAttempt, start, loop, LostOnce
<1>4. CASE Invoke
  BY <1>4, InvokeShape DEF LostOnce, NoResult, TypeOK
<1>5. CASE Crash \/ Accept \/ Reject
  BY <1>5 DEF Crash, Accept, Reject, start, loop, backoff, LostOnce, TypeOK
<1>6. CASE Break \/ UNCHANGED vars
  BY <1>6 DEF Break, vars, start, loop, backoff, LostOnce
<1> QED BY <1>1, <1>2, <1>3, <1>4, <1>5, <1>6 DEF Next, Step

\* Which session a message goes to.
LEMMA NextSession == TypeOK /\ SessionKept /\ [Next]_vars => SessionKept'
<1> SUFFICES ASSUME TypeOK, SessionKept, [Next]_vars PROVE SessionKept'
  OBVIOUS
<1>1. CASE StartUnit \/ GiveUp \/ BeginAttempt
  BY <1>1 DEF StartUnit, GiveUp, BeginAttempt, Lose, start, loop, backoff, SessionKept, TypeOK
<1>2. CASE Invoke
  <2>1. UNCHANGED <<session, withTask>> /\ pc = "invoke"
    BY <1>2, InvokeShape
  <2>2. resume' = resume \/ resume' = (resume \/ found')
    BY <1>2, InvokeShape
  <2>3. session => resume'
    BY <2>1, <2>2 DEF SessionKept
  <2> QED BY <2>1, <2>3 DEF SessionKept
<1>3. CASE Crash \/ Accept \/ Reject
  BY <1>3 DEF Crash, Accept, Reject, start, loop, backoff, SessionKept, TypeOK
<1>4. CASE Break \/ UNCHANGED vars
  BY <1>4 DEF Break, vars, start, loop, backoff, SessionKept
<1> QED BY <1>1, <1>2, <1>3, <1>4 DEF Next, Step

\* Where the text in the file comes from.
LEMMA NextEdits ==
    TypeOK /\ EditsHaveSession /\ RejectedEditKeepsSession /\ [Next]_vars =>
        EditsHaveSession' /\ RejectedEditKeepsSession'
<1> SUFFICES ASSUME TypeOK, EditsHaveSession, RejectedEditKeepsSession, [Next]_vars
             PROVE  EditsHaveSession' /\ RejectedEditKeepsSession'
  OBVIOUS
<1> USE DEF EditsHaveSession, RejectedEditKeepsSession, NoResult
<1>1. CASE StartUnit \/ GiveUp \/ BeginAttempt
  BY <1>1 DEF StartUnit, GiveUp, BeginAttempt, Lose, start, loop, backoff
<1>2. CASE Invoke
  BY <1>2, InvokeShape DEF TypeOK, Outs
<1>3. CASE Reject
  BY <1>3, Ranges DEF Reject, start, backoff, TypeOK, Outs
<1>4. CASE Crash \/ Accept
  BY <1>4 DEF Crash, Accept, start, loop, backoff
<1>5. CASE Break \/ UNCHANGED vars
  BY <1>5 DEF Break, vars, start, loop, backoff
<1> QED BY <1>1, <1>2, <1>3, <1>4, <1>5 DEF Next, Step

\* How long a unit can be at work.
LEMMA NextClock ==
    TypeOK /\ Clock /\ UnitTimeBounded /\ [Next]_vars => Clock' /\ UnitTimeBounded'
<1> SUFFICES ASSUME TypeOK, Clock, UnitTimeBounded, [Next]_vars
             PROVE  Clock' /\ UnitTimeBounded'
  OBVIOUS
<1> USE DEF UnitTimeBounded
<1>1. CASE StartUnit
  BY <1>1, Ranges DEF StartUnit, Clock
<1>2. CASE GiveUp
  BY <1>2 DEF GiveUp, Lose, start, loop, backoff, Clock
<1>3. CASE BeginAttempt
  <2>1. attempt <= Retries /\ elapsed <= UnitTimeout
    BY <1>3, Ranges DEF BeginAttempt, OutOfBudget, Clock, TypeOK
  <2>2. try' = 1 /\ pc' = "invoke" /\ UNCHANGED <<attempt, elapsed>>
    BY <1>3 DEF BeginAttempt, loop
  <2>3. elapsed' <= UnitTimeout + Spent(try')
    BY <2>1, <2>2, SpentFacts, Ranges DEF TypeOK
  <2>4. Spent(try') = Spent(try)'
    BY DEF Spent
  <2> QED BY <2>1, <2>2, <2>3, <2>4 DEF Clock
<1>4. CASE Invoke
  <2>1. /\ pc = "invoke" /\ UNCHANGED attempt
        /\ \E t \in {1, AgentTimeout} :
             \/ pc' \in {"judge", "raised"} /\ elapsed' = Later(t)
             \/ /\ pc' = "invoke" /\ try <= Len(Pauses) /\ try' = try + 1
                /\ elapsed' = Later(t + Pauses[try])
    BY <1>4, InvokeShape
  <2>2. PICK t \in {1, AgentTimeout} :
          \/ pc' \in {"judge", "raised"} /\ elapsed' = Later(t)
          \/ /\ pc' = "invoke" /\ try <= Len(Pauses) /\ try' = try + 1
             /\ elapsed' = Later(t + Pauses[try])
    BY <2>1
  <2>3. t \in Nat /\ t <= AgentTimeout /\ elapsed \in Nat
    BY Ranges DEF TypeOK
  <2>4. /\ try \in 1..(Len(Pauses) + 1) /\ Spent(try) \in Nat
        /\ elapsed <= UnitTimeout + Spent(try) /\ Spent(try) + AgentTimeout <= LongestAttempt
    BY <2>1, SpentFacts DEF TypeOK, Clock
  <2>5. Spent(try') = Spent(try)'
    BY DEF Spent
  <2>6. CASE pc' \in {"judge", "raised"} /\ elapsed' = Later(t)
    <3>1. elapsed' \in Nat /\ elapsed' <= elapsed + t
      BY <2>3, <2>6, LaterFacts, Ranges
    <3>2. elapsed' <= UnitTimeout + LongestAttempt
      BY <2>3, <2>4, <3>1, Ranges
    <3> QED BY <2>1, <2>6, <3>2 DEF Clock
  <2>7. CASE /\ pc' = "invoke" /\ try <= Len(Pauses) /\ try' = try + 1
             /\ elapsed' = Later(t + Pauses[try])
    <3>1. try \in 1..Len(Pauses) /\ Pauses[try] \in Nat /\ try + 1 \in 1..(Len(Pauses) + 1)
      BY <2>4, <2>7, AgentAssumption, Ranges
    <3>2. elapsed' \in Nat /\ elapsed' <= elapsed + (t + Pauses[try])
      <4>1. PICK p \in Nat : p = t + Pauses[try]
        BY <2>3, <3>1
      <4>2. elapsed' = Later(p)
        BY <2>7, <4>1
      <4>3. Later(p) \in 0..ClockStop /\ Later(p) <= elapsed + p
        BY LaterFacts
      <4> HIDE DEF UnitTimeBounded
      <4> QED BY <4>1, <4>2, <4>3, Ranges
    <3>3. /\ Spent(try + 1) = Spent(try) + AgentTimeout + Pauses[try]
          /\ Spent(try + 1) \in Nat /\ Spent(try + 1) + AgentTimeout <= LongestAttempt
      BY <3>1, SpentFacts
    <3>4. elapsed' <= UnitTimeout + Spent(try + 1)
      <4>1. \A e, p, u, a, x, y, z \in Nat :
              /\ x <= e + (p + y) /\ e <= u + z /\ p <= a => x <= u + (z + a + y)
        OBVIOUS
      <4> QED BY <2>3, <2>4, <3>1, <3>2, <3>3, <4>1, Ranges
    <3>5. elapsed' <= UnitTimeout + LongestAttempt
      BY <3>2, <3>3, <3>4, Ranges
    <3> QED BY <2>1, <2>5, <2>7, <3>4, <3>5 DEF Clock
  <2> QED BY <2>2, <2>6, <2>7
<1>5. CASE Reject
  BY <1>5, Ranges DEF Reject, start, backoff, Clock, TypeOK
<1>6. CASE Crash \/ Accept
  BY <1>6 DEF Crash, Accept, start, loop, backoff, Clock
<1>7. CASE Break \/ UNCHANGED vars
  BY <1>7 DEF Break, vars, start, loop, backoff, Clock, Spent
<1> QED BY <1>1, <1>2, <1>3, <1>4, <1>5, <1>6, <1>7 DEF Next, Step

\* The variables keep their types.
LEMMA NextTypeOK == IInv /\ [Next]_vars => TypeOK'
<1> SUFFICES ASSUME IInv, [Next]_vars PROVE TypeOK'
  OBVIOUS
<1>0. TypeOK /\ LostOnce /\ Clock
  BY DEF IInv
<1>l. lost' \in 0..MaxUnits
  <2>1. lost' \in {0, 1}
    BY <1>0, NextLost DEF LostOnce
  <2> QED BY <2>1, Ranges
<1>1. CASE StartUnit
  <2>1. unit' \in 0..MaxUnits /\ attempt' \in 0..(Retries + 1) /\ elapsed' \in 0..ClockStop
    BY <1>0, <1>1, Ranges DEF StartUnit, TypeOK
  <2> QED BY <1>0, <1>l, <1>1, <2>1 DEF StartUnit, TypeOK, Outs
<1>2. CASE GiveUp
  BY <1>0, <1>l, <1>2 DEF GiveUp, Lose, start, loop, backoff, TypeOK
<1>3. CASE BeginAttempt
  <2>1. try' \in 1..(Len(Pauses) + 1)
    BY <1>3, Ranges DEF BeginAttempt
  <2> QED BY <1>0, <1>l, <1>3, <2>1 DEF BeginAttempt, start, loop, TypeOK
<1>4. CASE Invoke
  <2>1. /\ starved' = (starved \/ broken)
        /\ UNCHANGED <<unit, mode, given, attempt, session, withTask, broken, lost>>
        /\ out' \in Outs /\ reply' \in {"none", "good", "bad"} /\ found' \in BOOLEAN
        /\ \E t \in {1, AgentTimeout} :
             \/ /\ pc' \in {"judge", "raised"} /\ elapsed' = Later(t) /\ UNCHANGED <<try, resume>>
             \/ /\ pc' = "invoke" /\ try <= Len(Pauses) /\ elapsed' = Later(t + Pauses[try])
                /\ resume' = (resume \/ found') /\ try' = try + 1
    BY <1>0, <1>4, InvokeShape
  <2>2. PICK t \in {1, AgentTimeout} :
          \/ /\ pc' \in {"judge", "raised"} /\ elapsed' = Later(t) /\ UNCHANGED <<try, resume>>
          \/ /\ pc' = "invoke" /\ try <= Len(Pauses) /\ elapsed' = Later(t + Pauses[try])
             /\ resume' = (resume \/ found') /\ try' = try + 1
    BY <2>1
  <2>3. try \in 1..(Len(Pauses) + 1) /\ t \in Nat
    BY <1>0, Ranges DEF TypeOK
  <2>4. try' \in 1..(Len(Pauses) + 1) /\ elapsed' \in 0..ClockStop
    <3>1. CASE elapsed' = Later(t) /\ UNCHANGED try
      BY <1>0, <2>3, <3>1, LaterFacts
    <3>2. CASE try <= Len(Pauses) /\ elapsed' = Later(t + Pauses[try]) /\ try' = try + 1
      <4>1. try \in 1..Len(Pauses) /\ Pauses[try] \in Nat
        BY <2>3, <3>2, AgentAssumption, Ranges
      <4>2. PICK p \in Nat : p = t + Pauses[try]
        BY <2>3, <4>1
      <4>3. elapsed' = Later(p) /\ Later(p) \in 0..ClockStop
        BY <1>0, <3>2, <4>2, LaterFacts
      <4> QED BY <2>3, <3>2, <4>3, Ranges
    <3> QED BY <2>2, <3>1, <3>2
  <2>5. resume' \in BOOLEAN /\ starved' \in BOOLEAN
    BY <1>0, <2>1, <2>2 DEF TypeOK
  <2>6. pc' \in {"judge", "raised", "invoke"}
    BY <2>2
  <2> QED BY <1>0, <1>l, <2>1, <2>4, <2>5, <2>6 DEF TypeOK
<1>5. CASE Reject
  <2>1. attempt' \in 0..(Retries + 1) /\ session' \in BOOLEAN /\ withTask' \in BOOLEAN
    BY <1>0, <1>5, Ranges DEF Reject, Clock, TypeOK
  <2> QED BY <1>0, <1>l, <1>5, <2>1 DEF Reject, start, backoff, TypeOK
<1>6. CASE Crash \/ Accept
  BY <1>0, <1>l, <1>6 DEF Crash, Accept, start, loop, backoff, TypeOK
<1>7. CASE Break \/ UNCHANGED vars
  BY <1>0, <1>l, <1>7 DEF Break, vars, start, loop, backoff, TypeOK
<1> QED BY <1>1, <1>2, <1>3, <1>4, <1>5, <1>6, <1>7 DEF Next, Step
-----------------------------------------------------------------------------
(***************************************************************************)
(* IInv is inductive.  An attempt begins from a file without result or     *)
(* from one that a session of the unit edited, and begins in time.         *)
(***************************************************************************)
THEOREM Inductive == Spec => []IInv
<1>1. IInv /\ [Next]_vars => IInv'
  BY NextTypeOK, NextLost, NextSession, NextEdits, NextClock DEF IInv
<1> QED BY InitInv, <1>1, PTL DEF Spec

(***************************************************************************)
(* The variables of _agentRun and _agentInvokeWithBackoff keep their types *)
(* for every COMPILATION_RETRIES and every _API_ERROR_BACKOFF.             *)
(***************************************************************************)
THEOREM SessionsTypeCorrect == Spec => []TypeOK
<1>1. IInv => TypeOK
  BY DEF IInv
<1> QED BY <1>1, Inductive, PTL

(***************************************************************************)
(* However long the run, a provider that breaks down costs it one unit at  *)
(* most, whose agent had edited the file before ("instead of failing every *)
(* remaining unit one by one").                                            *)
(***************************************************************************)
THEOREM BreakdownIsCheap == Spec => []BreakdownLosesOneUnit
<1>1. IInv => BreakdownLosesOneUnit
  BY DEF IInv, LostOnce, BreakdownLosesOneUnit
<1> QED BY <1>1, Inductive, PTL

(***************************************************************************)
(* An invocation without --session always has the task in its message.     *)
(***************************************************************************)
THEOREM MessagesFit == Spec => []MessageFitsSession
<1>1. IInv => MessageFitsSession
  BY DEF IInv, SessionKept, MessageFitsSession
<1> QED BY <1>1, Inductive, PTL

(***************************************************************************)
(* Through any number of retries and pauses a rejected edit goes back into *)
(* the session that made it.                                               *)
(***************************************************************************)
THEOREM EditsKeepSession == Spec => []RejectedEditKeepsSession
<1>1. IInv => RejectedEditKeepsSession
  BY DEF IInv
<1> QED BY <1>1, Inductive, PTL

(***************************************************************************)
(* For every list of pauses a unit ends at most one attempt after          *)
(* AGENT_UNIT_TIMEOUT, the attempt taken with all its tries and pauses.    *)
(***************************************************************************)
THEOREM UnitsAreBounded == Spec => []UnitTimeBounded
<1>1. IInv => UnitTimeBounded
  BY DEF IInv
<1> QED BY <1>1, Inductive, PTL
=============================================================================
