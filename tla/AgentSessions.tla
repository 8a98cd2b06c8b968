---------------------------- MODULE AgentSessions ----------------------------
(***************************************************************************)
(* The agent sessions of a run, unit after unit: _agentRun, and the        *)
(* opencode invocations it makes through _agentInvokeWithBackoff.          *)
(*                                                                         *)
(* rust/out.rs is abstracted to how it stands to the unit: as it was given *)
(* ("given"), deleted ("absent"), blank, or edited into a text the         *)
(* pipeline's check accepts ("good") or rejects ("bad").  Time passes in   *)
(* the invocations and in the pauses between them.                         *)
(***************************************************************************)
EXTENDS Naturals, Sequences

CONSTANTS
    Retries,       \* COMPILATION_RETRIES
    Pauses,        \* _API_ERROR_BACKOFF
    AgentTimeout,  \* AGENT_TIMEOUT
    UnitTimeout,   \* AGENT_UNIT_TIMEOUT
    Modes,         \* of the units: "edit", "write", "ask"
    MaxUnits       \* bound: units per run

ASSUME AgentAssumption ==
    /\ Retries \in Nat
    /\ Pauses \in Seq(Nat)
    /\ AgentTimeout \in Nat \ {0}
    /\ UnitTimeout \in Nat
    /\ Modes \subseteq {"edit", "write", "ask"}
    /\ MaxUnits \in Nat \ {0}

VARIABLES
    pc,        \* "next" unit, "attempt", "invoke", "judge", "raised", "crashed"
    unit,      \* units started
    mode,      \* "edit": outInitial is given; "write": not; "ask": no check either
    given,     \* what the given file is to the check: "good", "bad" or "blank"
    out,       \* rust/out.rs
    attempt,   \* the for loop of _agentRun
    try,       \* the for loop of _agentInvokeWithBackoff
    session,   \* sessionId of _agentRun is set
    resume,    \* sessionId of _agentInvokeWithBackoff is set: --session is passed
    found,     \* foundSession of the last invocation is set
    withTask,  \* the message sends the agent to task.md
    reply,     \* code in the final text of the last invocation
    elapsed,   \* time since the unit started
    broken,    \* the provider is beyond waiting: no key, no credit, no route
    starved,   \* the unit has invoked a broken provider
    lost       \* units that ended without a result after such an invocation

start == <<unit, mode, given>>
loop == <<attempt, session, withTask>>
backoff == <<try, resume, found, reply, out, elapsed, starved>>
vars == <<pc, start, loop, backoff, broken, lost>>

Outs == {"given", "absent", "blank", "good", "bad"}

SumTo[i \in 0..Len(Pauses)] == IF i = 0 THEN 0 ELSE SumTo[i - 1] + Pauses[i]

\* Longest an attempt can take: every try up to the timeout, every pause.
LongestAttempt == (Len(Pauses) + 1) * AgentTimeout + SumTo[Len(Pauses)]

\* Bound: the clock of a unit stops just past what UnitTimeBounded allows.
ClockStop == UnitTimeout + LongestAttempt + 1
Later(t) == IF elapsed + t > ClockStop THEN ClockStop ELSE elapsed + t

TypeOK ==
    /\ pc \in {"next", "attempt", "invoke", "judge", "raised", "crashed"}
    /\ unit \in 0..MaxUnits
    /\ mode \in Modes
    /\ given \in {"good", "bad", "blank"}
    /\ out \in Outs
    /\ attempt \in 0..(Retries + 1)
    /\ try \in 1..(Len(Pauses) + 1)
    /\ session \in BOOLEAN /\ resume \in BOOLEAN /\ found \in BOOLEAN /\ withTask \in BOOLEAN
    /\ reply \in {"none", "good", "bad"}
    /\ elapsed \in 0..ClockStop
    /\ broken \in BOOLEAN /\ starved \in BOOLEAN
    /\ lost \in 0..MaxUnits

Init ==
    /\ pc = "next" /\ unit = 0 /\ mode \in Modes /\ given = "blank" /\ out = "absent"
    /\ attempt = 0 /\ try = 1
    /\ session = FALSE /\ resume = FALSE /\ found = FALSE /\ withTask = TRUE
    /\ reply = "none" /\ elapsed = 0
    /\ broken = FALSE /\ starved = FALSE /\ lost = 0

(***************************************************************************)
(* _agentRun down to its loop: the file is given anew, or removed.         *)
(***************************************************************************)
StartUnit ==
    /\ pc = "next"
    /\ unit < MaxUnits
    /\ unit' = unit + 1
    /\ mode' \in Modes
    /\ given' \in {"good", "bad", "blank"}
    /\ out' = IF mode' = "edit" THEN "given" ELSE "absent"
    /\ attempt' = 0
    /\ session' = FALSE
    /\ withTask' = TRUE
    /\ elapsed' = 0
    /\ starved' = FALSE
    /\ pc' = "attempt"
    /\ UNCHANGED <<try, resume, found, reply, broken, lost>>

\* The unit returns (False, lastResult).
Lose ==
    /\ pc' = "next"
    /\ lost' = IF starved THEN lost + 1 ELSE lost

MutOneAttemptTooMany == attempt = Retries + 2 \/ (attempt > 0 /\ elapsed > UnitTimeout)
MutNoDeadline == attempt = Retries + 1

\* for attempt in range(COMPILATION_RETRIES + 1), and the unit's deadline.
OutOfBudget == attempt = Retries + 1 \/ (attempt > 0 /\ elapsed > UnitTimeout)

GiveUp ==
    /\ pc = "attempt"
    /\ OutOfBudget
    /\ Lose
    /\ UNCHANGED <<start, loop, backoff, broken>>

BeginAttempt ==
    /\ pc = "attempt"
    /\ ~ OutOfBudget
    /\ try' = 1
    /\ resume' = session
    /\ pc' = "invoke"
    /\ UNCHANGED <<start, loop, out, found, reply, elapsed, broken, starved, lost>>

(***************************************************************************)
(* What an opencode run leaves: it may end on a provider error before or   *)
(* after its edits, be killed at the timeout, or answer in its reply.  A   *)
(* run that edits or answers has reported its session.  A broken provider  *)
(* answers nothing.                                                        *)
(***************************************************************************)
Runs ==
    {r \in [out : Outs \ (IF mode = "edit" THEN {} ELSE {"given"}), reply : {"none", "good", "bad"},
            found : BOOLEAN, error : {"none", "transient", "fatal"},
            time : {1, AgentTimeout}] :
        /\ (r.out # out \/ r.reply # "none") => r.found
        /\ broken => r.out = out /\ r.reply = "none" /\ r.error = "fatal"
        /\ ~ broken => r.error # "fatal"}

MutOnlyMissing(o) == o = "absent"

\* The run left no result: no rust/out.rs, or one still as it was given.
NoResult(o) == o \in {"absent", "given"}

MutWaitForever(r) ==
    \/ /\ r.error = "none" \/ ~ NoResult(r.out)
       /\ pc' = "judge"
       /\ elapsed' = Later(r.time)
       /\ UNCHANGED <<try, resume>>
    \/ /\ r.error = "fatal" /\ NoResult(r.out)
       /\ pc' = "raised"
       /\ elapsed' = Later(r.time)
       /\ UNCHANGED <<try, resume>>
    \/ /\ r.error = "transient" /\ NoResult(r.out)
       /\ elapsed' = Later(r.time)
       /\ resume' = (resume \/ r.found)
       /\ UNCHANGED <<try, pc>>

(***************************************************************************)
(* One turn of _agentInvokeWithBackoff: hand the result on, raise on an    *)
(* error that waiting does not mend, or pause and try again.               *)
(***************************************************************************)
AfterRun(r) ==
    \/ /\ r.error = "none" \/ ~ NoResult(r.out) \/ (r.error = "transient" /\ try > Len(Pauses))
       /\ pc' = "judge"
       /\ elapsed' = Later(r.time)
       /\ UNCHANGED <<try, resume>>
    \/ /\ r.error = "fatal" /\ NoResult(r.out)
       /\ pc' = "raised"
       /\ elapsed' = Later(r.time)
       /\ UNCHANGED <<try, resume>>
    \/ /\ r.error = "transient" /\ NoResult(r.out) /\ try <= Len(Pauses)
       /\ elapsed' = Later(r.time + Pauses[try])
       /\ resume' = (resume \/ r.found)
       /\ try' = try + 1
       /\ UNCHANGED pc

Invoke ==
    /\ pc = "invoke"
    /\ \E r \in Runs :
          /\ out' = r.out
          /\ reply' = r.reply
          /\ found' = r.found
          /\ AfterRun(r)
    /\ starved' = (starved \/ broken)
    /\ UNCHANGED <<start, loop, broken, lost>>

(***************************************************************************)
(* The code _agentRun looks at: the file, or what the reply has instead.   *)
(* A deleted file and no reply leave code = None when editing in place.    *)
(***************************************************************************)
Code ==
    CASE NoResult(out) /\ reply # "none"  -> reply
      [] out = "given"                    -> given
      [] out = "absent" /\ mode # "edit"  -> "blank"
      [] OTHER                            -> out

\* code.strip() of None: an AttributeError nothing catches.
Crash ==
    /\ pc = "judge"
    /\ mode # "ask"
    /\ Code = "absent"
    /\ pc' = "crashed"
    /\ UNCHANGED <<start, loop, backoff, broken, lost>>

\* The check passes, or there is none: the unit has its result.
Accept ==
    /\ pc = "judge"
    /\ mode = "ask" \/ Code = "good"
    /\ pc' = "next"
    /\ UNCHANGED <<start, loop, backoff, broken, lost>>

MutRejectWithoutTask ==
    /\ pc = "judge"
    /\ mode # "ask"
    /\ Code \in {"bad", "blank"}
    /\ session' = (session \/ found)
    /\ withTask' = FALSE
    /\ attempt' = attempt + 1
    /\ pc' = "attempt"
    /\ UNCHANGED <<start, backoff, broken, lost>>

MutRejectForgetsSession ==
    /\ pc = "judge"
    /\ mode # "ask"
    /\ Code \in {"bad", "blank"}
    /\ withTask' = ~ session
    /\ attempt' = attempt + 1
    /\ pc' = "attempt"
    /\ UNCHANGED <<start, session, backoff, broken, lost>>

\* The check rejects, or the file is empty: say so in the next message.
Reject ==
    /\ pc = "judge"
    /\ mode # "ask"
    /\ Code \in {"bad", "blank"}
    /\ session' = (session \/ found)
    /\ withTask' = ~ session'
    /\ attempt' = attempt + 1
    /\ pc' = "attempt"
    /\ UNCHANGED <<start, backoff, broken, lost>>

\* The key is revoked, the credit spent, the model taken off its host.
Break ==
    /\ ~ broken
    /\ broken' = TRUE
    /\ UNCHANGED <<pc, start, loop, backoff, lost>>

Step == StartUnit \/ GiveUp \/ BeginAttempt \/ Invoke \/ Crash \/ Accept \/ Reject

Next == Step \/ Break

\* The pipeline is one thread, and opencode runs are killed at a timeout.
Spec == Init /\ [][Next]_vars /\ WF_vars(Step)
-----------------------------------------------------------------------------
(***************************************************************************)
(* _agentInvokeWithBackoff raises "instead of failing every remaining unit *)
(* one by one": whatever the moment the provider breaks down, at most the  *)
(* unit at work is lost to it.                                             *)
(***************************************************************************)
BreakdownLosesOneUnit == lost <= 1

(***************************************************************************)
(* An agent is never sent an error without its task: an invocation that    *)
(* continues no session starts from task.md, also in a retry after the     *)
(* session id was lost.                                                    *)
(***************************************************************************)
MessageFitsSession == pc = "invoke" /\ ~ resume => withTask

(***************************************************************************)
(* A rejected edit goes back into the session that made it, through any    *)
(* number of provider errors and lost session ids.                         *)
(***************************************************************************)
RejectedEditKeepsSession ==
    pc \in {"attempt", "invoke"} /\ attempt > 0 /\ out \in {"blank", "good", "bad"} => session

(***************************************************************************)
(* AGENT_UNIT_TIMEOUT bounds a unit up to the attempt that is under way    *)
(* when it expires, backoff pauses included.                               *)
(***************************************************************************)
UnitTimeBounded == elapsed <= UnitTimeout + LongestAttempt

(***************************************************************************)
(* Every unit comes to an end.                                             *)
(***************************************************************************)
EveryUnitEnds == []<>(pc \in {"next", "raised", "crashed"})
=============================================================================
