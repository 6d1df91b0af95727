---------------------------- MODULE RemoteCalls ----------------------------
(***************************************************************************)
(* The calls that reach the hosts: the debugger of apply --debug around a  *)
(* call (internal/core/engine/debug_runner.go, remote_call_context.go) and *)
(* the slot that lets one ssh at a time authenticate until one of them has *)
(* reached a host (internal/core/engine/ssh.go).                           *)
(*                                                                         *)
(* Callers are goroutines of one dbf process: workers that run the calls   *)
(* of the command, and the one that renews the lease.  The debugger has no *)
(* mutex; --debug limits the workers to one.  What the debugger prints is  *)
(* left out.                                                               *)
(***************************************************************************)
EXTENDS Integers, FiniteSets

CONSTANTS
    Workers,        \* the goroutines that make ordinary and cleanup calls
    Renewer,        \* the goroutine that renews the lease
    NoCaller,       \* nobody has the slot
    MaxCalls,       \* ssh processes that a caller may start
    MaxNext         \* the largest number given to next

ASSUME CallersAssumption ==
    /\ IsFiniteSet(Workers) /\ Workers # {} /\ Renewer \notin Workers
    /\ NoCaller \notin Workers \cup {Renewer}
    /\ MaxCalls \in Nat /\ MaxNext \in Nat \ {0}

Callers == Workers \cup {Renewer}

VARIABLES
    debug,      \* apply --debug
    at,         \* where each caller is
    kind,       \* RemoteCallContext: "ordinary", "cleanup" or "maintenance"
    left,       \* the ssh processes each caller may still start
    slot,       \* initialAuthRunning and initialAuthSucceeded
    waits,      \* the callers whose channel (initialAuthWait) is not closed yet
    session,    \* DebugSession
    ended,      \* the context of the ordinary calls is cancelled
    asked       \* the calls that the user of the debugger has asked for and are not made

callVars == <<debug, at, kind, left, slot, waits, session, ended, asked>>

\* --debug cannot be combined with more than one worker at a time.
Active == IF debug THEN {CHOOSE w \in Workers : TRUE} \cup {Renewer} ELSE Callers

CallTypeOK ==
    /\ debug \in BOOLEAN /\ ended \in BOOLEAN
    /\ at \in [Callers -> {"idle", "prompt", "acquire", "wait", "ssh", "failed"}]
    /\ kind \in [Callers -> {"ordinary", "cleanup", "maintenance"}]
    /\ left \in [Callers -> 0 .. MaxCalls]
    /\ slot \in [by : Callers \cup {NoCaller}, succeeded : BOOLEAN]
    /\ waits \subseteq Callers
    /\ session \in [continueMode : BOOLEAN, nextRemaining : Nat, cancelled : BOOLEAN,
                    lastExec : [all : BOOLEAN, count : Nat], diagnosing : BOOLEAN]
    /\ asked \in [calls : Int, all : BOOLEAN, retried : BOOLEAN]

CallInit ==
    /\ debug \in BOOLEAN
    /\ at = [c \in Callers |-> "idle"]
    /\ kind = [c \in Callers |-> IF c = Renewer THEN "maintenance" ELSE "ordinary"]
    /\ left = [c \in Callers |-> MaxCalls]
    /\ slot = [by |-> NoCaller, succeeded |-> FALSE]
    /\ waits = {}
    /\ session = [continueMode |-> FALSE, nextRemaining |-> 0, cancelled |-> FALSE,
                  lastExec |-> [all |-> FALSE, count |-> 1], diagnosing |-> FALSE]
    /\ ended = FALSE
    /\ asked = [calls |-> 0, all |-> FALSE, retried |-> FALSE]

Goto(c, place) == at' = [at EXCEPT ![c] = place]

-----------------------------------------------------------------------------
(* The debugger before a call.                                             *)

\* The user asked for n calls more, for all, or for no more.
AskedFor(n) == [asked EXCEPT !.calls = n, !.all = FALSE, !.retried = FALSE]
AskedForAll == [asked EXCEPT !.calls = 0, !.all = TRUE, !.retried = FALSE]
AskedForNone == [asked EXCEPT !.calls = 0, !.all = FALSE]

\* A call of the command, or the unlock that ends it.  Without the debugger,
\* and for the renewals (Maintenance), it goes straight to ssh (DebugRunner.run).
StartUnattended(c) ==
    /\ at[c] = "idle" /\ left[c] > 0 /\ c \in Active
    /\ \E k \in IF c = Renewer THEN {"maintenance"} ELSE {"ordinary", "cleanup"} :
         /\ ~debug \/ k # "ordinary"
         /\ kind' = [kind EXCEPT ![c] = k]
         /\ left' = IF k = "cleanup" THEN [left EXCEPT ![c] = 1] ELSE left
    /\ Goto(c, "acquire")
    /\ UNCHANGED <<debug, slot, waits, session, ended, asked>>

StartsDebugged(c) ==
    /\ debug /\ at[c] = "idle" /\ left[c] > 0 /\ c \in Active \ {Renewer}
    /\ kind' = [kind EXCEPT ![c] = "ordinary"]
    /\ UNCHANGED <<debug, slot, waits, ended>>

\* before: after quit an ordinary call returns ErrDebugCancelled.
Refused(c) ==
    /\ StartsDebugged(c) /\ session.cancelled
    /\ left' = [left EXCEPT ![c] = @ - 1]
    /\ UNCHANGED <<at, session, asked>>

\* waitBeforeCall without a prompt: continue, or what is left of next.
Pass(c) ==
    /\ StartsDebugged(c) /\ ~session.cancelled
    /\ session.continueMode \/ session.nextRemaining > 0
    /\ session' = [session EXCEPT !.nextRemaining = IF session.continueMode THEN @ ELSE @ - 1]
    /\ Goto(c, "acquire")
    /\ UNCHANGED <<left, asked>>

\* waitBeforeCall with a prompt.
Prompt(c) ==
    /\ StartsDebugged(c) /\ ~session.cancelled
    /\ ~session.continueMode /\ session.nextRemaining = 0
    /\ Goto(c, "prompt")
    /\ UNCHANGED <<left, session, asked>>

AtPrompt(c) == at[c] = "prompt" /\ UNCHANGED <<debug, kind, left, slot, waits, ended>>

\* handleCommand: step
CommandStep(c) ==
    /\ AtPrompt(c)
    /\ session' = [session EXCEPT !.lastExec = [all |-> FALSE, count |-> 1]]
    /\ asked' = AskedFor(1)
    /\ Goto(c, "acquire")

\* Mutant: the call at the prompt is not one of the N.
NextNBeyond(c, n) ==
    /\ session' = [session EXCEPT !.lastExec = [all |-> FALSE, count |-> n], !.nextRemaining = n]
    /\ asked' = AskedFor(n)
    /\ Goto(c, "acquire")

\* next N
NextN(c, n) ==
    /\ session' = [session EXCEPT !.lastExec = [all |-> FALSE, count |-> n], !.nextRemaining = n - 1]
    /\ asked' = AskedFor(n)
    /\ Goto(c, "acquire")

CommandNext(c) == AtPrompt(c) /\ \E n \in 1 .. MaxNext : NextN(c, n)

CommandContinue(c) ==
    /\ AtPrompt(c)
    /\ session' = [session EXCEPT !.lastExec = [all |-> TRUE, count |-> 0], !.continueMode = TRUE]
    /\ asked' = AskedForAll
    /\ Goto(c, "acquire")

\* An empty line repeats the last command, step at first.
EmptyLine(c) ==
    IF session.lastExec.all THEN CommandContinue(c)
    ELSE AtPrompt(c) /\ NextN(c, session.lastExec.count)

\* quit, and the end of the input.
CommandQuit(c) ==
    /\ AtPrompt(c)
    /\ \E quit \in BOOLEAN : session' = [session EXCEPT !.cancelled = quit]
    /\ asked' = AskedForNone
    /\ Goto(c, "idle")

-----------------------------------------------------------------------------
(* The slot of the first authentication.                                   *)

Ssh(c) == at' = [at EXCEPT ![c] = "ssh"]

\* Ordinary calls under the debugger are counted.
Counted(c) == IF debug /\ kind[c] = "ordinary" /\ ~asked.all THEN [asked EXCEPT !.calls = @ - 1] ELSE asked

\* An ssh process starts.
Started(c) ==
    /\ left[c] > 0
    /\ left' = [left EXCEPT ![c] = @ - 1]
    /\ asked' = Counted(c)

\* acquireInitialAuthSlot: a host has been reached.
AcquireFree(c) ==
    /\ at[c] = "acquire" /\ slot.succeeded
    /\ Started(c) /\ Ssh(c)
    /\ UNCHANGED <<debug, kind, slot, waits, session, ended>>

\* Mutant: the slot is not marked as taken.
AcquireSlotUnmarked(c) ==
    /\ at[c] = "acquire" /\ ~slot.succeeded /\ slot.by = NoCaller
    /\ Started(c) /\ Ssh(c)
    /\ UNCHANGED <<debug, kind, slot, waits, session, ended>>

\* The slot is free.
AcquireSlot(c) ==
    /\ at[c] = "acquire" /\ ~slot.succeeded /\ slot.by = NoCaller
    /\ slot' = [slot EXCEPT !.by = c]
    /\ Started(c) /\ Ssh(c)
    /\ UNCHANGED <<debug, kind, waits, session, ended>>

\* Another call is authenticating.
AcquireWait(c) ==
    /\ at[c] = "acquire" /\ ~slot.succeeded /\ slot.by # NoCaller
    /\ waits' = waits \cup {c}
    /\ Goto(c, "wait")
    /\ UNCHANGED <<debug, kind, left, slot, session, ended, asked>>

\* The channel that the caller waits for is closed.
Wake(c) ==
    /\ at[c] = "wait" /\ c \notin waits
    /\ Goto(c, "acquire")
    /\ UNCHANGED <<debug, kind, left, slot, waits, session, ended, asked>>

\* continue is until a failure: nothing more is asked for until the prompt of the
\* failed call has been answered.
Halted(c, ok, a) ==
    IF debug /\ kind[c] = "ordinary" /\ (~ok \/ session.diagnosing) THEN [a EXCEPT !.all = FALSE] ELSE a

\* Mutant: continue does not stop at a failed call.
AfterContinues(c, ok) ==
    IF debug /\ kind[c] = "ordinary" /\ (~ok \/ session.diagnosing) /\ ~session.continueMode
      THEN "failed" ELSE "idle"

\* Where a caller goes when its call, or its diagnostic command, returns
\* (DebugRunner.run, afterFailure).
After(c, ok) ==
    IF debug /\ kind[c] = "ordinary" /\ (~ok \/ session.diagnosing) THEN "failed" ELSE "idle"

\* The context ends while the caller waits.
WaitCancelled(c) ==
    /\ at[c] = "wait" /\ ended /\ kind[c] = "ordinary"
    /\ waits' = waits \ {c}
    /\ Goto(c, After(c, FALSE))
    /\ session' = [session EXCEPT !.diagnosing = FALSE]
    /\ asked' = Halted(c, FALSE, Counted(c))
    /\ UNCHANGED <<debug, kind, left, slot, ended>>

\* Mutant: the waiters are not told that a failed call gave the slot back.
ReleaseQuietly(reached) ==
    /\ slot' = [by |-> NoCaller, succeeded |-> slot.succeeded \/ reached]
    /\ waits' = IF reached THEN {} ELSE waits

\* releaseInitialAuthSlot
Release(reached) ==
    /\ slot' = [by |-> NoCaller, succeeded |-> slot.succeeded \/ reached]
    /\ waits' = {}

\* The ssh process ends: successfully, with the error of a remote command, or
\* without having reached a host (runSSH, sshCommandReachedRemote).
SshEnds(c) ==
    /\ at[c] = "ssh"
    /\ \E outcome \in {"ok", "remote error", "not reached"} :
         /\ IF slot.by = c THEN Release(outcome # "not reached") ELSE UNCHANGED <<slot, waits>>
         /\ Goto(c, After(c, outcome = "ok"))
         /\ asked' = Halted(c, outcome = "ok", asked)
    /\ session' = IF kind[c] = "ordinary" THEN [session EXCEPT !.diagnosing = FALSE] ELSE session
    /\ UNCHANGED <<debug, kind, left, ended>>

-----------------------------------------------------------------------------
(* The debugger after a failed call (afterFailure, handleFailedCommand).   *)

AtFailed(c) == at[c] = "failed" /\ UNCHANGED <<debug, kind, slot, waits, ended>>

\* The call is made again, and a continue that it has interrupted goes on.
FailedRetry(c) ==
    /\ AtFailed(c) /\ left[c] > 0
    /\ asked' = [asked EXCEPT !.calls = IF session.continueMode THEN 0 ELSE @ + 1,
                             !.all = session.continueMode, !.retried = TRUE]
    /\ Goto(c, "acquire")
    /\ UNCHANGED <<left, session>>

\* continue gives the error to the caller, and the mode is what it was.
FailedContinue(c) ==
    /\ AtFailed(c)
    /\ session' = [session EXCEPT !.lastExec = [all |-> TRUE, count |-> 0]]
    /\ asked' = [asked EXCEPT !.calls = IF session.continueMode THEN 0 ELSE @,
                             !.all = session.continueMode]
    /\ Goto(c, "idle")
    /\ UNCHANGED left

\* run: a diagnostic command on the same host.
FailedRun(c) ==
    /\ AtFailed(c) /\ left[c] > 0
    /\ session' = [session EXCEPT !.diagnosing = TRUE]
    /\ asked' = [asked EXCEPT !.calls = @ + 1]
    /\ Goto(c, "acquire")
    /\ UNCHANGED left

\* quit, and the end of the input.
FailedQuit(c) ==
    /\ AtFailed(c)
    /\ session' = [session EXCEPT !.cancelled = TRUE]
    /\ asked' = AskedForNone
    /\ Goto(c, "idle")
    /\ UNCHANGED left

-----------------------------------------------------------------------------
\* The lease is lost or an error ends the run.
ContextEnds ==
    /\ ~ended
    /\ ended' = TRUE
    /\ UNCHANGED <<debug, at, kind, left, slot, waits, session, asked>>

CallSteps(c) ==
    \/ AcquireFree(c) \/ AcquireSlot(c) \/ AcquireWait(c) \/ Wake(c) \/ WaitCancelled(c) \/ SshEnds(c)

UserSteps(c) ==
    \/ CommandStep(c) \/ CommandNext(c) \/ CommandContinue(c) \/ EmptyLine(c) \/ CommandQuit(c)
    \/ FailedRetry(c) \/ FailedContinue(c) \/ FailedRun(c) \/ FailedQuit(c)

CallNext ==
    \/ ContextEnds
    \/ \E c \in Callers :
         StartUnattended(c) \/ Refused(c) \/ Pass(c) \/ Prompt(c) \/ CallSteps(c) \/ UserSteps(c)

\* An ssh process ends and a goroutine that can go on does; the user need not
\* answer.
CallFairness == \A c \in Callers : WF_callVars(CallSteps(c))

CallSpec == CallInit /\ [][CallNext]_callVars /\ CallFairness

-----------------------------------------------------------------------------
(* Properties.                                                             *)

\* Until a call has reached a host, one ssh process at most is at work: agents
\* and tokens are asked once.
FirstAuthAlone ==
    ~slot.succeeded => \A c, d \in Callers : at[c] = "ssh" /\ at[d] = "ssh" => c = d

\* No ssh process of an ordinary call starts under the debugger unless a command
\* of the user covers it: the last step, next N or continue that was given before
\* a call, where continue covers calls until one fails, and each retry and run
\* after a failed one; and nothing after quit or the end of the input.  In the
\* code retry and continue at the prompt of a failed call also bring back a
\* continue, and what is left of a next, from before the failure, so those calls
\* count as covered here; the requirements want a pause after retry, which is
\* PausesAfterRetry and fails.
OnlyWhatWasAsked == debug /\ ~asked.all => asked.calls >= 0

\* Calls that need no answer end even if the user never answers a prompt: the
\* lease is renewed and the lock given back while the debugger waits, and
\* without the debugger no call waits for ever for the first authentication.
UnattendedCallsEnd ==
    \A c \in Callers :
        (at[c] # "idle" /\ (kind[c] # "ordinary" \/ ~debug)) ~> (at[c] = "idle")

\* docs/apply-debugger-requirements.md:455: "When the user entered `retry`, pause
\* before the next remote call", here: no call passes by the prompt after a retry
\* until another command was given there.
PausesAfterRetry ==
    [][\A c \in Callers : Pass(c) => ~asked.retried]_callVars
=============================================================================
