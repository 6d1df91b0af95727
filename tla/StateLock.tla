----------------------------- MODULE StateLock -----------------------------
(***************************************************************************)
(* The version 2 state lock that serialises the runs of dbf on one host    *)
(* (internal/core/engine/ssh_backend.go).                                  *)
(*                                                                         *)
(* One Lock() call is one attempt: it draws a fresh random token, so an    *)
(* attempt and its token are the same model value.  A run drives the lock  *)
(* with three shell scripts that it sends to the host over SSH -- lock,    *)
(* renew and unlock -- and each script is a process of its own, because    *)
(* it outlives the SSH call that started it: a client whose call fails     *)
(* does not stop the script.  A script moves one file operation at a time. *)
(* On the host there are the lease record (lock_path, published by an      *)
(* atomic mv), the directory lock_path.d, the ownership marker             *)
(* lock_path.d/owner.v2 (written in place, so it can be seen half          *)
(* written), and the flock on lock_path.guard.                             *)
(*                                                                         *)
(* Time is one clock in whole units.  It may only advance while no running *)
(* client is overdue: keepAlive starts a renewal when its ticker fires and *)
(* Go's context timer ends it after renewTimeout.  Clients in Pausable are *)
(* exempt (a suspended machine, a stopped process).                        *)
(***************************************************************************)
EXTENDS Integers, FiniteSets

CONSTANTS
    Attempt,        \* the Lock() calls, each with its own token
    Pausable,       \* the attempts whose client process may be suspended
    LeaseTTL,       \* lease_ttl_seconds
    RenewInterval,  \* sshLock.renewInterval
    RenewTimeout,   \* sshLock.renewTimeout
    RecoveryGrace,  \* recovery_grace_seconds
    LockTimeout,    \* --lock-timeout
    LegacyClients,  \* BOOLEAN: does an old client share the host?
    MaxTime,        \* bound on the clock
    MaxPowerLoss    \* bound on the number of power losses of the host

ASSUME ConstantsAssumption ==
    /\ Pausable \subseteq Attempt
    /\ RenewInterval \in Nat \ {0}
    /\ RenewTimeout \in Nat \ {0}
    /\ LeaseTTL \in Nat
    /\ RecoveryGrace \in Nat
    /\ LockTimeout \in Nat
    /\ MaxTime \in Nat
    /\ MaxPowerLoss \in Nat
    /\ LegacyClients \in BOOLEAN

\* What the default timings give (30 + 2 * 20 < 120 <= 300 seconds).
ASSUME LeaseAssumption ==
    /\ RenewInterval + 2 * RenewTimeout < LeaseTTL
    /\ LeaseTTL =< RecoveryGrace

NoToken == "no-token"
Free == [token |-> NoToken, script |-> "none", now |-> 0]

ASSUME TokenAssumption == NoToken \notin Attempt

VARIABLES
    now,         \* the clock
    record,      \* the file lock_path
    lockDir,     \* the directory lock_path.d: "absent" or "present"
    marker,      \* the file lock_path.d/owner.v2
    guard,       \* the flock on lock_path.guard: Free, or the script that has
                 \* it with the clock reading it took (its variable now)
    lockPC,      \* control point of the lock script of each attempt
    renewPC,     \* ... of its renew script (at most one is running)
    unlockPC,    \* ... of its unlock script
    deadline,    \* the lock script's deadline_ns
    client,      \* what the Go side of each attempt is doing
    renewStart,  \* when the renew call in progress, or the last one, began
    tickAt,      \* when keepAlive's ticker fires next
    legacy,      \* the old client: "out", "dir" (after mkdir) or "in"
    powerLosses  \* how often the host lost power

fileVars   == <<record, lockDir, marker>>
scriptVars == <<lockPC, renewPC, unlockPC, deadline>>
clientVars == <<client, renewStart, tickAt>>
vars == <<now, fileVars, guard, scriptVars, clientVars, legacy, powerLosses>>

-----------------------------------------------------------------------------
(* The files.  A record is a valid version 2 lease, a damaged one that     *)
(* still begins like one, or something else (a legacy lease, an empty      *)
(* file).                                                                  *)

Record == [kind: {"none", "v2", "malformed", "unknown"},
           token: Attempt \cup {NoToken}, expires: Int, mtime: Int]
Marker == [kind: {"none", "torn", "v2"},
           token: Attempt \cup {NoToken}, mtime: Int]

NoRecord == [kind |-> "none", token |-> NoToken, expires |-> 0, mtime |-> 0]
NoMarker == [kind |-> "none", token |-> NoToken, mtime |-> 0]

UnknownRecord(t) ==
    [kind |-> "unknown", token |-> NoToken, expires |-> 0, mtime |-> t]

\* write_v2_record: the lease is computed from the script's own clock read.
V2Record(a, t) ==
    [kind |-> "v2", token |-> a, expires |-> t + LeaseTTL, mtime |-> t]

V2Marker(a, t) == [kind |-> "v2", token |-> a, mtime |-> t]
TornMarker(t)  == [kind |-> "torn", token |-> NoToken, mtime |-> t]

\* read_v2_record && read_v2_marker && [ "$marker_token" = "$record_token" ]
ValidPair ==
    record.kind = "v2" /\ marker.kind = "v2" /\ marker.token = record.token

-----------------------------------------------------------------------------
\* "unmarked" is a failure like "fail": the script died with the directory on
\* disk, no marker in it that names an owner, and no record.
LockPCs   == {"off", "try", "mkdir", "trunc", "fill", "mv", "ok", "fail", "unmarked"}
RenewPCs  == {"off", "wait", "mv", "touch", "ok", "fail"}
UnlockPCs == {"off", "wait", "rmrecord", "rmmarker", "rmdir", "ok", "fail", "unmarked"}
ClientStates ==
    {"idle", "locking", "validating", "held", "renewing", "lost",
     "unlocking", "done"}

\* The lock script has decided to claim and holds the guard.
Claiming(a) == lockPC[a] \in {"mkdir", "trunc", "fill", "mv"}

\* The engine of attempt a works on the host's state: Lock has returned and
\* the channel Lost() is open.
Holding(a) == client[a] \in {"held", "renewing"}

\* The guard in the hands of a script, with the time it reads off the clock.
GuardOf(a, script) == [token |-> a, script |-> script, now |-> now]

Init ==
    /\ now = 0
    /\ record = NoRecord
    /\ lockDir = "absent"
    /\ marker = NoMarker
    /\ guard = Free
    /\ lockPC = [a \in Attempt |-> "off"]
    /\ renewPC = [a \in Attempt |-> "off"]
    /\ unlockPC = [a \in Attempt |-> "off"]
    /\ deadline = [a \in Attempt |-> 0]
    /\ client = [a \in Attempt |-> "idle"]
    /\ renewStart = [a \in Attempt |-> 0]
    /\ tickAt = [a \in Attempt |-> 0]
    /\ legacy = "out"
    /\ powerLosses = 0

-----------------------------------------------------------------------------
(* The lock script.                                                        *)

\* SSHBackend.Lock sends the script (while its deadline is within MaxTime).
LockCall(a) ==
    /\ client[a] = "idle"
    /\ now + LockTimeout =< MaxTime
    /\ client' = [client EXCEPT ![a] = "locking"]
    /\ lockPC' = [lockPC EXCEPT ![a] = "try"]
    /\ deadline' = [deadline EXCEPT ![a] = now + LockTimeout]
    /\ UNCHANGED <<now, fileVars, guard, renewPC, unlockPC,
                   renewStart, tickAt, legacy, powerLosses>>

\* The script exits, and its variables with it.
LockEnds(a, status) ==
    /\ lockPC' = [lockPC EXCEPT ![a] = status]
    /\ deadline' = [deadline EXCEPT ![a] = 0]

\* Mutant: a marker without a record is never taken over.
MayClaimWithRecord(t) ==
    \/ ValidPair /\ t >= record.expires
    \/ /\ (record.kind = "v2" /\ ~ValidPair) \/ record.kind = "malformed"
       /\ t - record.mtime >= RecoveryGrace
    \/ record.kind = "none" /\ lockDir = "absent"

\* The decision of the loop body: may what is on disk be claimed at time t?
MayClaim(t) ==
    \/ ValidPair /\ t >= record.expires
    \/ /\ (record.kind = "v2" /\ ~ValidPair) \/ record.kind = "malformed"
       /\ t - record.mtime >= RecoveryGrace
    \/ /\ record.kind = "none" /\ lockDir = "present" /\ marker.kind = "v2"
       /\ t - marker.mtime >= RecoveryGrace
    \/ record.kind = "none" /\ lockDir = "absent"

\* flock -n succeeds, the deadline has not passed and the lock is claimable.
\* (A poll that finds the guard taken or the lock not claimable changes
\* nothing: the script sleeps and tries again.)
LockClaim(a) ==
    /\ lockPC[a] = "try"
    /\ guard = Free
    /\ now < deadline[a]
    /\ MayClaim(now)
    /\ guard' = GuardOf(a, "lock")
    /\ lockPC' = [lockPC EXCEPT ![a] = IF lockDir = "present" THEN "trunc" ELSE "mkdir"]
    /\ UNCHANGED <<now, fileVars, renewPC, unlockPC, deadline, clientVars,
                   legacy, powerLosses>>

\* Mutant: the deadline is read only after a failed flock -n.
LockTimedOutAtGuard(a) ==
    /\ lockPC[a] = "try"
    /\ now >= deadline[a]
    /\ guard # Free
    /\ LockEnds(a, "fail")
    /\ UNCHANGED <<now, fileVars, guard, renewPC, unlockPC, clientVars,
                   legacy, powerLosses>>

\* The deadline has passed, with the guard taken or free.
LockTimedOut(a) ==
    /\ lockPC[a] = "try"
    /\ now >= deadline[a]
    /\ LockEnds(a, "fail")
    /\ UNCHANGED <<now, fileVars, guard, renewPC, unlockPC, clientVars,
                   legacy, powerLosses>>

\* Mutant: mkdir -p, which succeeds on a directory that is there.
LockMkdirParents(a) ==
    /\ lockPC[a] = "mkdir"
    /\ lockDir' = "present"
    /\ lockPC' = [lockPC EXCEPT ![a] = "trunc"]
    /\ UNCHANGED <<now, record, marker, guard, renewPC, unlockPC, deadline,
                   clientVars, legacy, powerLosses>>

\* mkdir "$lock_dir": it fails when an old client has won the directory since
\* the script looked, and the script gives the guard back and retries.
LockMkdir(a) ==
    /\ lockPC[a] = "mkdir"
    /\ IF lockDir = "present"
         THEN /\ guard' = Free
              /\ IF now >= deadline[a]
                   THEN LockEnds(a, "fail")
                   ELSE /\ lockPC' = [lockPC EXCEPT ![a] = "try"]
                        /\ deadline' = deadline
              /\ lockDir' = lockDir
         ELSE /\ guard' = guard
              /\ lockPC' = [lockPC EXCEPT ![a] = "trunc"]
              /\ deadline' = deadline
              /\ lockDir' = "present"
    /\ UNCHANGED <<now, record, marker, renewPC, unlockPC, clientVars,
                   legacy, powerLosses>>

\* write_v2_marker: the redirection truncates the file ...
LockTruncMarker(a) ==
    /\ lockPC[a] = "trunc"
    /\ marker' = TornMarker(now)
    /\ lockPC' = [lockPC EXCEPT ![a] = "fill"]
    /\ UNCHANGED <<now, record, lockDir, guard, renewPC, unlockPC,
                   deadline, clientVars, legacy, powerLosses>>

\* ... and printf fills it.
LockFillMarker(a) ==
    /\ lockPC[a] = "fill"
    /\ marker' = V2Marker(a, now)
    /\ lockPC' = [lockPC EXCEPT ![a] = "mv"]
    /\ UNCHANGED <<now, record, lockDir, guard, renewPC, unlockPC,
                   deadline, clientVars, legacy, powerLosses>>

\* mv -f tmp lock_path publishes the lease, flock -u ends the script.
LockPublish(a) ==
    /\ lockPC[a] = "mv"
    /\ record' = V2Record(a, guard.now)
    /\ guard' = Free
    /\ LockEnds(a, "ok")
    /\ UNCHANGED <<now, lockDir, marker, renewPC, unlockPC, clientVars,
                   legacy, powerLosses>>

-----------------------------------------------------------------------------
(* The renew script.                                                       *)

\* Mutant: a missing record is written anew.
RenewEnterMissing(a) ==
    /\ renewPC[a] = "wait"
    /\ guard = Free
    /\ IF \/ record.kind = "none"
          \/ ValidPair /\ record.token = a /\ now < record.expires
         THEN /\ guard' = GuardOf(a, "renew")
              /\ renewPC' = [renewPC EXCEPT ![a] = "mv"]
         ELSE /\ renewPC' = [renewPC EXCEPT ![a] = "fail"]
              /\ guard' = guard
    /\ UNCHANGED <<now, fileVars, lockPC, unlockPC, deadline, clientVars,
                   legacy, powerLosses>>

\* flock -w, then every check.  A failed one ends the script, which drops
\* the guard.
RenewEnter(a) ==
    /\ renewPC[a] = "wait"
    /\ guard = Free
    /\ IF ValidPair /\ record.token = a /\ now < record.expires
         THEN /\ guard' = GuardOf(a, "renew")
              /\ renewPC' = [renewPC EXCEPT ![a] = "mv"]
         ELSE /\ renewPC' = [renewPC EXCEPT ![a] = "fail"]
              /\ guard' = guard
    /\ UNCHANGED <<now, fileVars, lockPC, unlockPC, deadline, clientVars,
                   legacy, powerLosses>>

\* mv -f tmp lock_path with the new expiry.
RenewPublish(a) ==
    /\ renewPC[a] = "mv"
    /\ record' = V2Record(a, guard.now)
    /\ renewPC' = [renewPC EXCEPT ![a] = "touch"]
    /\ UNCHANGED <<now, lockDir, marker, guard, lockPC, unlockPC,
                   deadline, clientVars, legacy, powerLosses>>

\* touch "$marker_path"; flock -u 9
RenewTouch(a) ==
    /\ renewPC[a] = "touch"
    /\ marker' = [marker EXCEPT !.mtime = now]
    /\ guard' = Free
    /\ renewPC' = [renewPC EXCEPT ![a] = "ok"]
    /\ UNCHANGED <<now, record, lockDir, lockPC, unlockPC, deadline,
                   clientVars, legacy, powerLosses>>

-----------------------------------------------------------------------------
(* The unlock script.  It has no expiry check: a holder may delete its own *)
(* expired lease as long as nobody has taken it over.                      *)

\* Mutant: the script waits for its own lease to be on disk.
UnlockEnterOwnOnly(a) ==
    /\ unlockPC[a] = "wait"
    /\ guard = Free
    /\ ValidPair /\ record.token = a
    /\ guard' = GuardOf(a, "unlock")
    /\ unlockPC' = [unlockPC EXCEPT ![a] = "rmrecord"]
    /\ UNCHANGED <<now, fileVars, lockPC, renewPC, deadline,
                   clientVars, legacy, powerLosses>>

UnlockEnter(a) ==
    /\ unlockPC[a] = "wait"
    /\ guard = Free
    /\ IF ValidPair /\ record.token = a
         THEN /\ guard' = GuardOf(a, "unlock")
              /\ unlockPC' = [unlockPC EXCEPT ![a] = "rmrecord"]
         ELSE /\ guard' = guard
              /\ unlockPC' = [unlockPC EXCEPT ![a] =
                                IF record.kind = "none" THEN "ok" ELSE "fail"]
    /\ UNCHANGED <<now, fileVars, lockPC, renewPC, deadline,
                   clientVars, legacy, powerLosses>>

UnlockRmRecord(a) ==
    /\ unlockPC[a] = "rmrecord"
    /\ record' = NoRecord
    /\ unlockPC' = [unlockPC EXCEPT ![a] = "rmmarker"]
    /\ UNCHANGED <<now, lockDir, marker, guard, lockPC, renewPC,
                   deadline, clientVars, legacy, powerLosses>>

UnlockRmMarker(a) ==
    /\ unlockPC[a] = "rmmarker"
    /\ marker' = NoMarker
    /\ unlockPC' = [unlockPC EXCEPT ![a] = "rmdir"]
    /\ UNCHANGED <<now, record, lockDir, guard, lockPC, renewPC,
                   deadline, clientVars, legacy, powerLosses>>

UnlockRmdir(a) ==
    /\ unlockPC[a] = "rmdir"
    /\ lockDir' = "absent"
    /\ guard' = Free
    /\ unlockPC' = [unlockPC EXCEPT ![a] = "ok"]
    /\ UNCHANGED <<now, record, marker, lockPC, renewPC, deadline,
                   clientVars, legacy, powerLosses>>

-----------------------------------------------------------------------------
(* What goes wrong on the host.                                            *)

\* A script dies at any point: a signal, a full disk under set -e, or flock
\* -w running out of time.  The kernel drops its guard.
DropGuard(a, script) ==
    IF guard.token = a /\ guard.script = script THEN Free ELSE guard

\* How the lock and the unlock script of an attempt end when they die now.
LockDeath(a) ==
    IF lockPC[a] \in {"trunc", "fill"} /\ record.kind = "none" /\ marker.kind # "v2"
      THEN "unmarked" ELSE "fail"
UnlockDeath(a) ==
    IF unlockPC[a] = "rmdir" THEN "unmarked" ELSE "fail"

LockDies(a) ==
    /\ lockPC[a] \in {"try", "mkdir", "trunc", "fill", "mv"}
    /\ LockEnds(a, LockDeath(a))
    /\ guard' = DropGuard(a, "lock")
    /\ UNCHANGED <<now, fileVars, renewPC, unlockPC, clientVars, legacy,
                   powerLosses>>

RenewDies(a) ==
    /\ renewPC[a] \in {"wait", "mv", "touch"}
    /\ renewPC' = [renewPC EXCEPT ![a] = "fail"]
    /\ guard' = DropGuard(a, "renew")
    /\ UNCHANGED <<now, fileVars, lockPC, unlockPC, deadline,
                   clientVars, legacy, powerLosses>>

UnlockDies(a) ==
    /\ unlockPC[a] \in {"wait", "rmrecord", "rmmarker", "rmdir"}
    /\ unlockPC' = [unlockPC EXCEPT ![a] = UnlockDeath(a)]
    /\ guard' = DropGuard(a, "unlock")
    /\ UNCHANGED <<now, fileVars, lockPC, renewPC, deadline,
                   clientVars, legacy, powerLosses>>

\* The host loses power: every script dies with its guard, and a record whose
\* data never reached the disk (nothing is fsynced) comes back damaged.
PowerLoss ==
    /\ powerLosses < MaxPowerLoss
    /\ powerLosses' = powerLosses + 1
    /\ guard' = Free
    /\ lockPC' = [a \in Attempt |->
                    IF lockPC[a] \in {"off", "ok", "unmarked"} THEN lockPC[a] ELSE LockDeath(a)]
    /\ renewPC' = [a \in Attempt |->
                    IF renewPC[a] \in {"off", "ok"} THEN renewPC[a] ELSE "fail"]
    /\ unlockPC' = [a \in Attempt |->
                    IF unlockPC[a] \in {"off", "ok", "unmarked"} THEN unlockPC[a] ELSE UnlockDeath(a)]
    /\ \/ record' = record
       \/ /\ record.kind = "v2"
          /\ \/ record' = [record EXCEPT !.kind = "malformed"]
             \/ record' = UnknownRecord(record.mtime)
    /\ deadline' = [a \in Attempt |-> 0]
    /\ UNCHANGED <<now, lockDir, marker, clientVars, legacy>>

-----------------------------------------------------------------------------
(* The Go side of an attempt.                                              *)

\* Mutant: the lease is relied on without validating it.
LockReturnsUnvalidated(a) ==
    /\ client[a] = "locking"
    /\ lockPC[a] = "ok"
    /\ client' = [client EXCEPT ![a] = "held"]
    /\ renewStart' = [renewStart EXCEPT ![a] = now]
    /\ tickAt' = [tickAt EXCEPT ![a] = now + RenewInterval]
    /\ renewPC' = [renewPC EXCEPT ![a] = "ok"]
    /\ UNCHANGED <<now, fileVars, guard, lockPC, unlockPC, deadline,
                   legacy, powerLosses>>

\* The lock call succeeds and Lock validates the lease with a first renew.
LockReturns(a) ==
    /\ client[a] = "locking"
    /\ lockPC[a] = "ok"
    /\ client' = [client EXCEPT ![a] = "validating"]
    /\ renewStart' = [renewStart EXCEPT ![a] = now]
    /\ renewPC' = [renewPC EXCEPT ![a] = "wait"]
    /\ UNCHANGED <<now, fileVars, guard, lockPC, unlockPC, deadline,
                   tickAt, legacy, powerLosses>>

\* The lock call fails: the script failed, the connection broke or the run
\* was cancelled.  In the last two cases the script runs on.
LockCallFails(a) ==
    /\ client[a] = "locking"
    /\ client' = [client EXCEPT ![a] = "done"]
    /\ UNCHANGED <<now, fileVars, guard, scriptVars, renewStart,
                   tickAt, legacy, powerLosses>>

\* keepAlive returns and its ticker and context are gone.
StopKeepAlive(a, state) ==
    /\ client' = [client EXCEPT ![a] = state]
    /\ renewStart' = [renewStart EXCEPT ![a] = 0]
    /\ tickAt' = [tickAt EXCEPT ![a] = 0]

\* Sends the unlock script: unlockRemote.
SendUnlock(a) ==
    /\ StopKeepAlive(a, "unlocking")
    /\ unlockPC' = [unlockPC EXCEPT ![a] = "wait"]
    /\ UNCHANGED <<now, fileVars, guard, lockPC, renewPC, deadline, legacy,
                   powerLosses>>

\* renewCtx still has time when the answer to a renew call arrives.
InTime(a) == now =< renewStart[a] + RenewTimeout

\* The first renewal succeeds: Lock returns and keepAlive's ticker starts.
ValidateOk(a) ==
    /\ client[a] = "validating"
    /\ renewPC[a] = "ok"
    /\ InTime(a) \/ a \in Pausable
    /\ client' = [client EXCEPT ![a] = "held"]
    /\ tickAt' = [tickAt EXCEPT ![a] = now + RenewInterval]
    /\ UNCHANGED <<now, fileVars, guard, scriptVars, renewStart, legacy,
                   powerLosses>>

\* The first renewal fails, times out, or its call breaks: Lock cleans up
\* after itself.
ValidateFails(a) ==
    /\ client[a] = "validating"
    /\ SendUnlock(a)

\* keepAlive: the ticker fires.  Ticks lie RenewInterval apart and one that
\* finds an earlier one unread is dropped.
RenewCall(a) ==
    /\ client[a] = "held"
    /\ now >= tickAt[a]
    /\ \E t \in (now + 1)..(now + RenewInterval) :
          /\ (t - tickAt[a]) % RenewInterval = 0
          /\ tickAt' = [tickAt EXCEPT ![a] = t]
    /\ client' = [client EXCEPT ![a] = "renewing"]
    /\ renewStart' = [renewStart EXCEPT ![a] = now]
    /\ renewPC' = [renewPC EXCEPT ![a] = "wait"]
    /\ UNCHANGED <<now, fileVars, guard, lockPC, unlockPC, deadline,
                   legacy, powerLosses>>

RenewOk(a) ==
    /\ client[a] = "renewing"
    /\ renewPC[a] = "ok"
    /\ InTime(a) \/ a \in Pausable
    /\ client' = [client EXCEPT ![a] = "held"]
    /\ UNCHANGED <<now, fileVars, guard, scriptVars, renewStart, tickAt,
                   legacy, powerLosses>>

\* The renewal fails, times out or its call breaks: markLost closes Lost()
\* and keepAlive ends.  A script that was still running runs on.
RenewFails(a) ==
    /\ client[a] = "renewing"
    /\ StopKeepAlive(a, "lost")
    /\ UNCHANGED <<now, fileVars, guard, scriptVars, legacy, powerLosses>>

\* Unlock: stopRenewal cancels keepAlive and any renewal in progress, then
\* the unlock script is sent, also when the lease was lost.
UnlockCall(a) ==
    /\ client[a] \in {"held", "renewing", "lost"}
    /\ SendUnlock(a)

\* The unlock call returns: the script ended, or the call was given up.
UnlockReturns(a) ==
    /\ client[a] = "unlocking"
    /\ client' = [client EXCEPT ![a] = "done"]
    /\ UNCHANGED <<now, fileVars, guard, scriptVars, renewStart,
                   tickAt, legacy, powerLosses>>

\* The client process is killed at any moment; its scripts run on.
ClientDies(a) ==
    /\ client[a] \in {"validating", "held", "renewing", "lost"}
    /\ StopKeepAlive(a, "done")
    /\ UNCHANGED <<now, fileVars, guard, scriptVars, legacy, powerLosses>>

-----------------------------------------------------------------------------
(* An old client: it wins the directory with mkdir, writes its own record  *)
(* and removes both when it is done.  It knows neither the guard nor the   *)
(* marker, and waits while the directory exists.                           *)

LegacyMkdir ==
    /\ LegacyClients /\ legacy = "out" /\ lockDir = "absent"
    /\ lockDir' = "present"
    /\ legacy' = "dir"
    /\ UNCHANGED <<now, record, marker, guard, scriptVars, clientVars,
                   powerLosses>>

LegacyWrite ==
    /\ legacy = "dir"
    /\ record' = UnknownRecord(now)
    /\ legacy' = "in"
    /\ UNCHANGED <<now, lockDir, marker, guard, scriptVars, clientVars,
                   powerLosses>>

LegacyUnlock ==
    /\ legacy = "in"
    /\ record' = NoRecord
    /\ lockDir' = "absent"
    /\ legacy' = "out"
    /\ UNCHANGED <<now, marker, guard, scriptVars, clientVars, powerLosses>>

-----------------------------------------------------------------------------
(* Time passes only while no client that runs is overdue.                  *)

\* Mutant: renewals have no timeout.
OverdueTickOnly(a) == client[a] = "held" /\ now >= tickAt[a]

Overdue(a) ==
    \/ client[a] = "held" /\ now >= tickAt[a]
    \/ client[a] \in {"validating", "renewing"}
       /\ now >= renewStart[a] + RenewTimeout

Tick ==
    /\ now < MaxTime
    /\ \A a \in Attempt \ Pausable : ~Overdue(a)
    /\ now' = now + 1
    /\ UNCHANGED <<fileVars, guard, scriptVars, clientVars, legacy,
                   powerLosses>>

LockScript(a) ==
    \/ LockClaim(a) \/ LockTimedOut(a) \/ LockMkdir(a)
    \/ LockTruncMarker(a) \/ LockFillMarker(a) \/ LockPublish(a)
RenewScript(a)  == RenewEnter(a) \/ RenewPublish(a) \/ RenewTouch(a)
UnlockScript(a) ==
    UnlockEnter(a) \/ UnlockRmRecord(a) \/ UnlockRmMarker(a) \/ UnlockRmdir(a)
ScriptDies(a)   == LockDies(a) \/ RenewDies(a) \/ UnlockDies(a)
Client(a) ==
    \/ LockReturns(a) \/ LockCallFails(a) \/ ValidateOk(a) \/ ValidateFails(a)
    \/ RenewCall(a) \/ RenewOk(a) \/ RenewFails(a)
    \/ UnlockCall(a) \/ UnlockReturns(a) \/ ClientDies(a)
Legacy == LegacyMkdir \/ LegacyWrite \/ LegacyUnlock

Next ==
    \/ \E a \in Attempt : LockCall(a) \/ LockScript(a) \/ RenewScript(a)
                             \/ UnlockScript(a) \/ ScriptDies(a) \/ Client(a)
    \/ PowerLoss
    \/ Legacy
    \/ Tick

Spec == Init /\ [][Next]_vars
-----------------------------------------------------------------------------
(* Fairness.  A script that can run does run, and so does the Go side when *)
(* it has an answer to read or a timer has fired; time passes.  flock -w   *)
(* and flock -x wait in the kernel's queue, so they are granted the guard  *)
(* even while lock scripts poll it (strong fairness); a poll of flock -n   *)
(* has no such claim, and nothing forces a script or a client to die.      *)

\* The Go side of a call takes the step that its answer or its timer asks for.
ClientProceeds(a) ==
    \/ LockReturns(a)
    \/ lockPC[a] \in {"fail", "unmarked"} /\ LockCallFails(a)
    \/ ValidateOk(a) \/ RenewOk(a)
    \/ (renewPC[a] = "fail" \/ Overdue(a)) /\ (ValidateFails(a) \/ RenewFails(a))
    \/ RenewCall(a)
    \/ client[a] = "lost" /\ UnlockCall(a)
    \/ unlockPC[a] \in {"ok", "fail", "unmarked"} /\ UnlockReturns(a)

Fairness ==
    /\ \A a \in Attempt :
         /\ WF_vars(LockScript(a))
         /\ SF_vars(RenewScript(a) \/ UnlockScript(a))
         /\ WF_vars(ClientProceeds(a))
    /\ WF_vars(Tick)

LiveSpec == Spec /\ Fairness

-----------------------------------------------------------------------------
(* Properties.                                                             *)

TypeOK ==
    /\ now \in Nat
    /\ record \in Record
    /\ lockDir \in {"absent", "present"}
    /\ marker \in Marker
    /\ guard \in [token: Attempt \cup {NoToken},
                 script: {"none", "lock", "renew", "unlock"}, now: Int]
    /\ lockPC \in [Attempt -> LockPCs]
    /\ renewPC \in [Attempt -> RenewPCs]
    /\ unlockPC \in [Attempt -> UnlockPCs]
    /\ deadline \in [Attempt -> Int]
    /\ client \in [Attempt -> ClientStates]
    /\ renewStart \in [Attempt -> Int]
    /\ tickAt \in [Attempt -> Int]
    /\ legacy \in {"out", "dir", "in"}
    /\ powerLosses \in Nat

\* Two runs never both believe they hold the lock, although leases expire,
\* scripts outlive their calls and answers come late: a client gives up
\* before anybody may take its lease over.
MutualExclusion ==
    \A a, b \in Attempt : Holding(a) /\ Holding(b) => a = b

\* An old client and a run of this version never work on the host at the same
\* time: mkdir lock_path.d decides between them.
LegacyExclusion ==
    legacy # "out" => \A a \in Attempt : ~Holding(a)

\* While a run believes it holds the lock, the lease on disk is its own and
\* has time left, or it is one that a power loss damaged.
HolderLeaseLive ==
    \A a \in Attempt : Holding(a) =>
        /\ lockDir = "present"
        /\ \/ record.kind \in {"malformed", "unknown"}
           \/ /\ record.kind = "v2" /\ record.token = a
              /\ now < record.expires

\* A lock or unlock script of this version died between mkdir and a complete
\* marker, or between rm of the marker and rmdir.
DiedUnmarked ==
    \E a \in Attempt : lockPC[a] = "unmarked" \/ unlockPC[a] = "unmarked"

\* A lock or unlock script is in that stretch right now.
MarkerInWork ==
    \E a \in Attempt : lockPC[a] \in {"trunc", "fill"} \/ unlockPC[a] = "rmdir"

\* Whatever dies, whenever, the next Lock() call gets the host after one
\* recovery grace period at the latest -- except in three cases, and in those
\* never by itself: an old client is at work, a power loss made the record
\* unrecognisable, or a script of this version died in the stretch without a
\* marker.  In the last case the directory it left is refused for ever, as
\* docs/state.md:174 says of a directory without a marker, and an operator
\* has to remove it.  A record of this version whose marker is missing or torn is
\* claimable like the others, as MayClaim has it, although docs/state.md:171-172
\* grants that only to an incomplete lock with a verifiable marker.
Recoverable ==
    /\ \/ MayClaim(now + RecoveryGrace)
       \/ legacy # "out"
       \/ record.kind = "unknown" /\ powerLosses > 0
       \/ MarkerInWork \/ DiedUnmarked
    /\ DiedUnmarked => ~MayClaim(now + RecoveryGrace)

\* Once a run's unlock script has reported success, no late renew script of
\* that run brings its lease back.
NoResurrection ==
    [][\A a \in Attempt :
          unlockPC[a] = "ok" /\ record.token # a => record'.token # a]_vars

\* What LeaseLock sees of an attempt.
LeasePhase ==
    [a \in Attempt |-> CASE client[a] = "idle" -> "out"
                         [] client[a] \in {"locking", "validating"} -> "trying"
                         [] Holding(a) -> "holding"
                         [] OTHER -> "released"]
Lease == INSTANCE LeaseLock WITH phase <- LeasePhase

\* The lock scripts, renewals and clients together implement LeaseLock: a call
\* of Lock returns the lock only while nobody holds it, and whoever lost or gave
\* back a lease never relies on it again.
ImplementsLeaseLock == Lease!Spec

-----------------------------------------------------------------------------
(* The inductive invariant behind MutualExclusion, for clients that are    *)
(* never suspended.                                                        *)

Renewing(a)  == renewPC[a] \in {"mv", "touch"}
Unlocking(a) == unlockPC[a] \in {"rmrecord", "rmmarker", "rmdir"}

\* The guard is in the hands of exactly the script that is past flock.
GuardInv ==
    /\ guard.now =< now
    /\ guard.script = "none" => guard = Free
    /\ \A a \in Attempt :
         /\ Claiming(a)  <=> guard.token = a /\ guard.script = "lock"
         /\ Renewing(a)  <=> guard.token = a /\ guard.script = "renew"
         /\ Unlocking(a) <=> guard.token = a /\ guard.script = "unlock"

\* What is on disk while a script or an old client is half way through.
FileInv ==
    /\ record.kind \in {"v2", "malformed"} \/ marker.kind # "none" => lockDir = "present"
    /\ legacy # "out" => /\ lockDir = "present"
                         /\ marker.kind = "none"
                         /\ record.kind \in {"none", "unknown"}
    /\ \A a \in Attempt :
         /\ lockPC[a] \in {"trunc", "fill", "mv"} => lockDir = "present" /\ legacy = "out"
         /\ Renewing(a) \/ unlockPC[a] = "rmrecord"
                => ValidPair /\ record.token = a
         /\ unlockPC[a] \in {"rmmarker", "rmdir"}
                => record.kind = "none" /\ lockDir = "present" /\ legacy = "out"
         /\ unlockPC[a] = "rmdir" => marker.kind = "none"

\* Which scripts a client has sent, and how long it can have waited.
ClientInv ==
    \A a \in Attempt :
      /\ client[a] = "idle" => lockPC[a] = "off"
      /\ client[a] \in {"validating", "held", "renewing", "lost", "unlocking"}
            => lockPC[a] = "ok"
      /\ client[a] \in {"idle", "locking"} => renewPC[a] = "off"
      /\ client[a] = "held" => renewPC[a] = "ok"
      /\ client[a] \notin {"unlocking", "done"} => unlockPC[a] = "off"
      /\ client[a] \in {"validating", "held", "renewing"} => renewStart[a] =< now
      /\ client[a] \in {"validating", "renewing"} =>
            /\ now =< renewStart[a] + RenewTimeout
            /\ Renewing(a) => guard.now >= renewStart[a]
      /\ client[a] = "renewing" => tickAt[a] =< renewStart[a] + RenewInterval
      /\ client[a] = "held" =>
            /\ now =< tickAt[a] \/ now =< renewStart[a] + RenewTimeout
            /\ tickAt[a] =< renewStart[a] + RenewTimeout + RenewInterval

\* The renew script of the client's call in progress has published a lease.
Published(a) == renewPC[a] \in {"touch", "ok"}

\* The client counts on the lease, or will when the answer arrives.
Relies(a) == Holding(a) \/ (client[a] = "validating" /\ Published(a))

\* The record on disk keeps everybody else out until after time t.
ProtectsUntil(t) ==
    /\ record.kind # "none"
    /\ record.kind = "v2" => t < record.expires
    /\ t < record.mtime + RecoveryGrace

\* A client that relies on the lease has it, alone, for longer than it will
\* rely on it without another successful renewal.
RelyInv ==
    /\ \A a, b \in Attempt : Relies(a) /\ Relies(b) => a = b
    /\ \A a \in Attempt : Relies(a) =>
         /\ lockDir = "present" /\ legacy = "out"
         /\ record.kind = "v2" => record.token = a
         /\ \A b \in Attempt : ~Claiming(b) /\ ~Unlocking(b)
         /\ ProtectsUntil(renewStart[a] + RenewTimeout)
         /\ client[a] = "held" \/ Published(a) =>
               ProtectsUntil(renewStart[a] + RenewInterval + 2 * RenewTimeout)

LockInv == GuardInv /\ FileInv /\ ClientInv /\ RelyInv

-----------------------------------------------------------------------------
\* No call of the lock hangs: Lock returns by its deadline, validation included,
\* with the lock or with an error, whoever polls or has died, and a run whose
\* lease was lost, or that is done, gets through its Unlock whatever is left of
\* the lease on the host.
CallsEnd ==
    \A a \in Attempt :
        client[a] \in {"locking", "validating", "lost", "unlocking"}
            ~> client[a] \in {"held", "renewing", "done"}
=============================================================================
