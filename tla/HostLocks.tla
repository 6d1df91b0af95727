----------------------------- MODULE HostLocks -----------------------------
(***************************************************************************)
(* How runs of dbf lock several hosts, work under the locks and give them  *)
(* back (Apply, withHostLocks, lockHosts, runHosts, unlockHosts and        *)
(* lockLeaseMonitor in internal/core/engine/engine.go).                    *)
(*                                                                         *)
(* A pool of workers takes hosts from a channel and calls Lock on each.    *)
(* The first error cancels the pool.  With every lock in hand the run goes *)
(* through its phases under a context that the lease monitor cancels when  *)
(* a lease is lost, and unlocks in reverse order.  The lock of one host is *)
(* the one of LeaseLock: owner says whose lease lies on the host, and a    *)
(* lease that nobody renews expires.                                       *)
(***************************************************************************)
EXTENDS Integers, Sequences, FiniteSets

CONSTANTS
    Run,        \* runs of dbf
    Host,
    Order,      \* the selected hosts of each run, in the program's order
    Parallels   \* the values of --parallel to consider

SelectedHosts(r) == {Order[r][i] : i \in DOMAIN Order[r]}

ASSUME ConstantsAssumption ==
    /\ Order \in [Run -> Seq(Host)]
    /\ \A r \in Run : \A i, j \in DOMAIN Order[r] : Order[r][i] = Order[r][j] => i = j
    /\ Parallels \subseteq Nat \ {0}

NoRun == "no-run"
ASSUME NoRunAssumption == NoRun \notin Run

VARIABLES
    parallel,   \* --parallel of each run
    prompt,     \* does the run wait for an answer on its standard input?
    phase,      \* where each run is
    fed,        \* how many hosts its feeder has handed out
    call,       \* the Lock call of each run for each host
    held,       \* the locks slice of each run
    lease,      \* the Go side of each lease
    work,       \* the monitor's context: "live" or "cancelled"
    ctx,        \* the caller's context
    errs,       \* what the error that the run returns is joined from
    owner       \* whose lease lies on each host

poolVars == <<fed, call>>
vars == <<parallel, prompt, phase, poolVars, held, lease, work, ctx, errs, owner>>

Working == {"plan", "approve", "prepare", "execute"}
Phases == {"feed", "wait", "rollback", "unlock", "end", "killed"} \cup Working

Init ==
    /\ parallel \in [Run -> Parallels]
    /\ prompt = [r \in Run |-> FALSE]
    /\ phase = [r \in Run |-> "feed"]
    /\ fed = [r \in Run |-> 0]
    /\ call = [r \in Run |-> [h \in Host |-> "none"]]
    /\ held = [r \in Run |-> <<>>]
    /\ lease = [r \in Run |-> [h \in Host |-> "none"]]
    /\ work = [r \in Run |-> "live"]
    /\ ctx = [r \in Run |-> "live"]
    /\ errs = [r \in Run |-> {}]
    /\ owner = [h \in Host |-> NoRun]

-----------------------------------------------------------------------------
(* runHosts with the function of lockHosts.                                *)

\* The workers that are inside the function.
Busy(r) == {h \in Host : call[r][h] \in {"calling", "got"}}

\* The pool's context: an error of any worker cancels it.
PoolCancelled(r) ==
    ctx[r] = "cancelled" \/ \E h \in Host : call[r][h] = "failed"

\* hostCh <- host, with a worker to receive it.  A select with both cases ready
\* takes either, so this also happens after a cancellation.
Feed(r) ==
    /\ phase[r] = "feed"
    /\ fed[r] < Len(Order[r])
    /\ Cardinality(Busy(r)) < parallel[r]
    /\ fed' = [fed EXCEPT ![r] = @ + 1]
    /\ call' = [call EXCEPT ![r][Order[r][fed[r] + 1]] = "calling"]
    /\ UNCHANGED <<parallel, prompt, phase, held, lease, work, ctx, errs, owner>>

\* Every host has been handed out, or ctx.Done was ready: close(hostCh).
CloseFeed(r) ==
    /\ phase[r] = "feed"
    /\ fed[r] = Len(Order[r]) \/ PoolCancelled(r)
    /\ phase' = [phase EXCEPT ![r] = "wait"]
    /\ UNCHANGED <<parallel, prompt, poolVars, held, lease, work, ctx, errs, owner>>

\* Backend.Lock succeeds, its first renewal included, and renewals go on.
LockOk(r, h) ==
    /\ call[r][h] = "calling" /\ ~prompt[r]
    /\ ~PoolCancelled(r)
    /\ owner[h] = NoRun
    /\ owner' = [owner EXCEPT ![h] = r]
    /\ lease' = [lease EXCEPT ![r][h] = "live"]
    /\ call' = [call EXCEPT ![r][h] = "got"]
    /\ UNCHANGED <<parallel, prompt, phase, fed, held, work, ctx, errs>>

\* Backend.Lock fails: time ran out, the call broke or the context was
\* cancelled; its script may have left a lease behind.
LockFails(r, h) ==
    /\ call[r][h] = "calling" /\ ~prompt[r]
    /\ \/ owner' = owner
       \/ owner[h] = NoRun /\ owner' = [owner EXCEPT ![h] = r]
    /\ call' = [call EXCEPT ![r][h] = "failed"]
    /\ UNCHANGED <<parallel, prompt, phase, fed, held, lease, work, ctx, errs>>

\* locks = append(locks, ...)
AppendLock(r, h) ==
    /\ call[r][h] = "got"
    /\ held' = [held EXCEPT ![r] = Append(@, h)]
    /\ call' = [call EXCEPT ![r][h] = "locked"]
    /\ UNCHANGED <<parallel, prompt, phase, fed, lease, work, ctx, errs, owner>>

\* Mutant: the context is not looked at again.
RunHostsErrorOnly(r) == \E h \in Host : call[r][h] = "failed"

\* What runHosts returns is an error: one of a worker, or the context's.
RunHostsError(r) == PoolCancelled(r)

\* Mutant: wg.Wait waits for hosts that were never handed out.
RunHostsWaitsForAll(r) ==
    /\ phase[r] = "wait"
    /\ \A h \in SelectedHosts(r) : call[r][h] \in {"locked", "failed"}
    /\ IF RunHostsError(r)
         THEN /\ phase' = [phase EXCEPT ![r] = "rollback"]
              /\ errs' = [errs EXCEPT ![r] = @ \cup {"lock"}]
         ELSE /\ phase' = [phase EXCEPT ![r] = "plan"]
              /\ errs' = errs
    /\ UNCHANGED <<parallel, prompt, poolVars, held, lease, work, ctx, owner>>

\* Mutant: the first error is returned while workers are still busy.
RunHostsNoWait(r) ==
    /\ phase[r] = "wait"
    /\ Busy(r) = {} \/ RunHostsError(r)
    /\ IF RunHostsError(r)
         THEN /\ phase' = [phase EXCEPT ![r] = "rollback"]
              /\ errs' = [errs EXCEPT ![r] = @ \cup {"lock"}]
         ELSE /\ phase' = [phase EXCEPT ![r] = "plan"]
              /\ errs' = errs
    /\ UNCHANGED <<parallel, prompt, poolVars, held, lease, work, ctx, owner>>

\* wg.Wait returns: lockHosts rolls back, or withHostLocks starts the monitor
\* and calls its function.
RunHostsReturns(r) ==
    /\ phase[r] = "wait"
    /\ Busy(r) = {}
    /\ IF RunHostsError(r)
         THEN /\ phase' = [phase EXCEPT ![r] = "rollback"]
              /\ errs' = [errs EXCEPT ![r] = @ \cup {"lock"}]
         ELSE /\ phase' = [phase EXCEPT ![r] = "plan"]
              /\ errs' = errs
    /\ UNCHANGED <<parallel, prompt, poolVars, held, lease, work, ctx, owner>>

-----------------------------------------------------------------------------
(* The function of Apply.  Its calls see the monitor's context.            *)

WorkCancelled(r) == ctx[r] = "cancelled" \/ work[r] = "cancelled"

GoOn(r, from, to) ==
    /\ phase[r] = from /\ ~prompt[r]
    /\ phase' = [phase EXCEPT ![r] = to]
    /\ UNCHANGED <<parallel, prompt, poolVars, held, lease, work, ctx, errs, owner>>

\* ctx.Err is read after Plan and after BeforeExecute, and every write of
\* prepareHostStates is preceded by such a check.
Planned(r)  == ~WorkCancelled(r) /\ GoOn(r, "plan", "approve")
Approved(r) == ~WorkCancelled(r) /\ GoOn(r, "approve", "prepare")
Prepared(r) == GoOn(r, "prepare", "execute") \/ GoOn(r, "prepare", "unlock")
Executed(r) == GoOn(r, "execute", "unlock")

\* Any phase fails, by itself or because its context is cancelled.
WorkFails(r) ==
    /\ phase[r] \in Working /\ ~prompt[r]
    /\ phase' = [phase EXCEPT ![r] = "unlock"]
    /\ errs' = [errs EXCEPT ![r] = @ \cup {"work"}]
    /\ UNCHANGED <<parallel, prompt, poolVars, held, lease, work, ctx, owner>>

\* A prompt stops the run until somebody answers it, whatever becomes of its
\* context: confirmApply in BeforeExecute, and with --debug, which goes with one
\* worker, the prompt of the debugger around any call but renewals and unlocks.
Ask(r) ==
    /\ ~prompt[r]
    /\ \/ phase[r] = "approve"
       \/ /\ parallel[r] = 1
          /\ phase[r] \in Working \/ \E h \in Host : call[r][h] = "calling"
    /\ prompt' = [prompt EXCEPT ![r] = TRUE]
    /\ UNCHANGED <<parallel, phase, poolVars, held, lease, work, ctx, errs, owner>>

Answer(r) ==
    /\ prompt[r]
    /\ prompt' = [prompt EXCEPT ![r] = FALSE]
    /\ UNCHANGED <<parallel, phase, poolVars, held, lease, work, ctx, errs, owner>>

\* Mutant: only the lock taken first is watched.
MonitorFirst(r) ==
    /\ phase[r] \in Working \cup {"unlock"}
    /\ work[r] = "live"
    /\ held[r] # <<>> /\ lease[r][Head(held[r])] = "lost"
    /\ work' = [work EXCEPT ![r] = "cancelled"]
    /\ errs' = [errs EXCEPT ![r] = @ \cup {"lease"}]
    /\ UNCHANGED <<parallel, prompt, phase, poolVars, held, lease, ctx, owner>>

\* lockLeaseMonitor: a goroutine per lease sees Lost() closed, records the
\* error and cancels.
Monitor(r) ==
    /\ phase[r] \in Working \cup {"unlock"}
    /\ work[r] = "live"
    /\ \E h \in Host : lease[r][h] = "lost"
    /\ work' = [work EXCEPT ![r] = "cancelled"]
    /\ errs' = [errs EXCEPT ![r] = @ \cup {"lease"}]
    /\ UNCHANGED <<parallel, prompt, phase, poolVars, held, lease, ctx, owner>>

-----------------------------------------------------------------------------
(* unlockHosts, which the cancellation of the context does not reach.      *)

\* Mutant: markLost closes Lost() and keeps no error.
LeaseErrNever(r, h) == {}

\* sshLock.Err
LeaseErr(r, h) == IF lease[r][h] = "lost" THEN {"lease"} ELSE {}

\* Unlock of the lock taken last: keepAlive is stopped and the unlock script
\* removes the lease, unless the script or its call fails.
UnlockLast(r) ==
    /\ phase[r] \in {"rollback", "unlock"}
    /\ held[r] # <<>>
    /\ LET h == held[r][Len(held[r])]
           lost == LeaseErr(r, h)
       IN  /\ \/ /\ owner[h] \in {r, NoRun}
                 /\ owner' = [owner EXCEPT ![h] = NoRun]
                 /\ errs' = [errs EXCEPT ![r] = @ \cup lost]
              \/ /\ owner' = owner
                 /\ errs' = [errs EXCEPT ![r] = @ \cup lost \cup {"unlock"}]
           /\ lease' = [lease EXCEPT ![r][h] = IF @ = "lost" THEN @ ELSE "released"]
    /\ held' = [held EXCEPT ![r] = SubSeq(@, 1, Len(@) - 1)]
    /\ UNCHANGED <<parallel, prompt, phase, poolVars, work, ctx>>

\* leaseMonitor.stop looks at the leases once more.
StopError(r) == UNION {LeaseErr(r, h) : h \in Host}

UnlockDone(r) ==
    /\ phase[r] \in {"rollback", "unlock"}
    /\ held[r] = <<>>
    /\ phase' = [phase EXCEPT ![r] = "end"]
    /\ errs' = [errs EXCEPT ![r] = IF phase[r] = "unlock" THEN @ \cup StopError(r) ELSE @]
    /\ UNCHANGED <<parallel, prompt, poolVars, held, lease, work, ctx, owner>>

-----------------------------------------------------------------------------
(* The environment.                                                        *)

\* keepAlive: a renewal fails and markLost closes Lost().
LoseLease(r, h) ==
    /\ lease[r][h] = "live"
    /\ lease' = [lease EXCEPT ![r][h] = "lost"]
    /\ UNCHANGED <<parallel, prompt, phase, poolVars, held, work, ctx, errs, owner>>

\* A lease that nobody renews may be taken over.
Expire(h) ==
    /\ owner[h] # NoRun
    /\ lease[owner[h]][h] # "live"
    /\ owner' = [owner EXCEPT ![h] = NoRun]
    /\ UNCHANGED <<parallel, prompt, phase, poolVars, held, lease, work, ctx, errs>>

\* The user interrupts the run: the caller's context is cancelled.
Interrupt(r) ==
    /\ phase[r] \notin {"end", "killed"}
    /\ ctx[r] = "live"
    /\ ctx' = [ctx EXCEPT ![r] = "cancelled"]
    /\ UNCHANGED <<parallel, prompt, phase, poolVars, held, lease, work, errs, owner>>

\* The process is killed, and its renewals and calls with it.
Kill(r) ==
    /\ phase[r] \notin {"end", "killed"}
    /\ phase' = [phase EXCEPT ![r] = "killed"]
    /\ call' = [call EXCEPT ![r] = [h \in Host |->
                   IF call[r][h] \in {"calling", "got"} THEN "failed" ELSE call[r][h]]]
    /\ lease' = [lease EXCEPT ![r] = [h \in Host |-> "none"]]
    /\ prompt' = [prompt EXCEPT ![r] = FALSE]
    /\ UNCHANGED <<parallel, fed, held, work, ctx, errs, owner>>

Pool(r) ==
    \/ Feed(r) \/ CloseFeed(r) \/ RunHostsReturns(r)
    \/ \E h \in Host : LockOk(r, h) \/ LockFails(r, h) \/ AppendLock(r, h)
Work(r) == Planned(r) \/ Approved(r) \/ Prepared(r) \/ Executed(r) \/ WorkFails(r)
Unlocking(r) == UnlockLast(r) \/ UnlockDone(r)

Next ==
    \/ \E r \in Run : \/ Pool(r) \/ Work(r) \/ Monitor(r) \/ Unlocking(r)
                      \/ Ask(r) \/ Answer(r) \/ Interrupt(r) \/ Kill(r)
                      \/ \E h \in Host : LoseLease(r, h)
    \/ \E h \in Host : Expire(h)

Spec == Init /\ [][Next]_vars

\* Workers, the feeder and the monitor run and every Lock and Unlock call
\* returns (CallsEnd of StateLock).  Work under a live context may take for
\* ever; work under a cancelled one returns, unless it waits at a prompt, and
\* nothing makes a user answer.
Fairness ==
    \A r \in Run :
        /\ WF_vars(Pool(r))
        /\ \A h \in Host : WF_vars(LockOk(r, h) \/ LockFails(r, h) \/ AppendLock(r, h))
        /\ WF_vars(Monitor(r))
        /\ WF_vars(WorkCancelled(r) /\ WorkFails(r))
        /\ WF_vars(Unlocking(r))

LiveSpec == Spec /\ Fairness

-----------------------------------------------------------------------------
(* Properties.                                                             *)

TypeOK ==
    /\ parallel \in [Run -> Parallels]
    /\ prompt \in [Run -> BOOLEAN]
    /\ phase \in [Run -> Phases]
    /\ fed \in [Run -> Nat]
    /\ call \in [Run -> [Host -> {"none", "calling", "got", "locked", "failed"}]]
    /\ held \in [Run -> Seq(Host)]
    /\ \A r \in Run : fed[r] =< Len(Order[r])
    /\ lease \in [Run -> [Host -> {"none", "live", "lost", "released"}]]
    /\ work \in [Run -> {"live", "cancelled"}]
    /\ ctx \in [Run -> {"live", "cancelled"}]
    /\ errs \in [Run -> SUBSET {"lock", "work", "lease", "unlock"}]
    /\ owner \in [Host -> Run \cup {NoRun}]

\* A run works only with the lock of every selected host, however its pool was
\* interrupted, and a lease that it renews lies on the host in its name,
\* whatever expired or was given back by others.
AllOrNothing ==
    \A r \in Run : phase[r] \in Working =>
        \A h \in SelectedHosts(r) :
            /\ call[r][h] = "locked"
            /\ \E i \in DOMAIN held[r] : held[r][i] = h
            /\ lease[r][h] = "live" => owner[h] = r

\* A run that has ended renews no lease, also of a lock that a worker got while
\* another failed; and if it returns no error it had every lease until it gave
\* it back.
LeasesAccountedFor ==
    \A r \in Run : phase[r] = "end" =>
        /\ \A h \in Host : lease[r][h] # "live"
        /\ errs[r] = {} => \A h \in SelectedHosts(r) : lease[r][h] = "released"

\* Runs that lock their hosts one at a time never wait for one another.  (With
\* more workers, runs of the same two hosts do until --lock-timeout.)
WaitsFor(r, s) ==
    \E h \in Host : call[r][h] = "calling" /\ owner[h] = s
NoWaitCycle ==
    \A r, s \in Run : r # s /\ parallel[r] = 1 /\ parallel[s] = 1 =>
        ~(WaitsFor(r, s) /\ WaitsFor(s, r))

\* Locking comes to an end, whatever fails or waits: the run works or is over, or
\* its debugger waits for the user.
LockingEnds ==
    \A r \in Run : phase[r] = "feed" ~>
        phase[r] \in Working \cup {"end", "killed"} \/ prompt[r]

\* A run that loses a lease stops, even if its work would never end; only a
\* question to the user that is open, or that comes up before the work returns,
\* holds it back, for neither confirmApply nor the debugger looks at the context.
LostLeaseEndsRun ==
    \A r \in Run : (\E h \in Host : lease[r][h] = "lost") ~>
        phase[r] \in {"end", "killed"} \/ prompt[r]
=============================================================================
