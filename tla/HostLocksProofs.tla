-------------------------- MODULE HostLocksProofs --------------------------
(***************************************************************************)
(* Proofs about the locking of several hosts, for any number of runs, any  *)
(* selection of hosts and any number of workers.                           *)
(***************************************************************************)
EXTENDS HostLocks, SequenceTheorems, TLAPS

\* The hosts in the locks slice of a run.
HeldHosts(r) == {held[r][i] : i \in DOMAIN held[r]}

\* A host was handed to a worker if and only if its feeder has come by it; the
\* slice has the hosts whose lock was taken, all of them until unlocking begins;
\* no worker is at work after wg.Wait; and a pool that stopped early knows of a
\* cancellation.
PoolInv(r) ==
    /\ \A h \in Host : call[r][h] # "none" <=> \E i \in 1 .. fed[r] : Order[r][i] = h
    /\ \A h \in HeldHosts(r) : call[r][h] = "locked"
    /\ phase[r] \in {"feed", "wait"} \cup Working =>
         \A h \in Host : call[r][h] = "locked" => h \in HeldHosts(r)
    /\ phase[r] \notin {"feed", "wait"} => Busy(r) = {}
    /\ phase[r] # "feed" => fed[r] = Len(Order[r]) \/ PoolCancelled(r) \/ phase[r] = "killed"
    /\ phase[r] \in Working \cup {"unlock"} => \A h \in SelectedHosts(r) : call[r][h] = "locked"

\* Whoever renews a lease has the lock in a worker's hands or in the slice, and
\* what was locked has a lease that is renewed, lost or given back.
LeaseInv(r) ==
    /\ \A h \in Host : lease[r][h] = "live" => call[r][h] = "got" \/ h \in HeldHosts(r)
    /\ phase[r] # "killed" => \A h \in Host : call[r][h] \in {"got", "locked"} => lease[r][h] # "none"
    /\ phase[r] = "rollback" => errs[r] # {}
    /\ phase[r] = "end" =>
         /\ held[r] = << >>
         /\ errs[r] = {} => \A h \in SelectedHosts(r) : lease[r][h] = "released"

\* A lease that is renewed is on the host.
OwnerInv == \A r \in Run, h \in Host : lease[r][h] = "live" => owner[h] = r

LocksInv == TypeOK /\ OwnerInv /\ \A r \in Run : PoolInv(r) /\ LeaseInv(r)

-----------------------------------------------------------------------------
USE DEF Working

LEMMA TypeInit == Init => TypeOK
  BY ConstantsAssumption DEF Init, TypeOK, Phases

\* The next host to be handed out is a host.
LEMMA FedHost ==
    ASSUME TypeOK, NEW r \in Run, fed[r] < Len(Order[r])
    PROVE  /\ Order[r] \in Seq(Host) /\ fed[r] + 1 \in DOMAIN Order[r] /\ Order[r][fed[r] + 1] \in Host
           /\ fed[r] + 1 \in 1 .. Len(Order[r]) /\ fed[r] + 1 =< Len(Order[r])
  BY ConstantsAssumption DEF TypeOK

\* An error is joined to the others.
LEMMA JoinType ==
    ASSUME TypeOK, NEW r \in Run, NEW e \in SUBSET {"lock", "work", "lease", "unlock"},
           errs' = [errs EXCEPT ![r] = errs[r] \cup e]
    PROVE  errs' \in [Run -> SUBSET {"lock", "work", "lease", "unlock"}]
  BY DEF TypeOK

LEMMA TypeNext == TypeOK /\ [Next]_vars => TypeOK'
<1> SUFFICES ASSUME TypeOK, [Next]_vars PROVE TypeOK'
  OBVIOUS
<1> USE DEF TypeOK, poolVars
<1>1. ASSUME NEW r \in Run, Feed(r) PROVE TypeOK'
  <2>1. Order[r][fed[r] + 1] \in Host /\ fed[r] + 1 =< Len(Order[r])
    BY <1>1, FedHost DEF Feed
  <2>2. fed' \in [Run -> Nat] /\ \A q \in Run : fed'[q] =< Len(Order[q])
    BY <1>1, <2>1 DEF Feed
  <2>3. call' \in [Run -> [Host -> {"none", "calling", "got", "locked", "failed"}]]
    BY <1>1, <2>1 DEF Feed
  <2> QED
    BY <1>1, <2>2, <2>3 DEF Feed
<1>2. ASSUME NEW r \in Run, CloseFeed(r) PROVE TypeOK'
  BY <1>2 DEF CloseFeed, Phases
<1>3. ASSUME NEW r \in Run, RunHostsReturns(r) PROVE TypeOK'
  <2>0. \/ phase' = [phase EXCEPT ![r] = "rollback"] /\ errs' = [errs EXCEPT ![r] = errs[r] \cup {"lock"}]
        \/ phase' = [phase EXCEPT ![r] = "plan"] /\ errs' = errs
    BY <1>3 DEF RunHostsReturns
  <2>1. phase' \in [Run -> Phases]
    BY <2>0 DEF Phases
  <2>2. errs' \in [Run -> SUBSET {"lock", "work", "lease", "unlock"}]
    BY <2>0, JoinType
  <2> QED
    BY <1>3, <2>1, <2>2 DEF RunHostsReturns
<1>4. ASSUME NEW r \in Run, NEW h \in Host, LockOk(r, h) PROVE TypeOK'
  BY <1>4 DEF LockOk
<1>5. ASSUME NEW r \in Run, NEW h \in Host, LockFails(r, h) PROVE TypeOK'
  BY <1>5 DEF LockFails
<1>6. ASSUME NEW r \in Run, NEW h \in Host, AppendLock(r, h) PROVE TypeOK'
  <2>1. Append(held[r], h) \in Seq(Host)
    BY AppendProperties
  <2>2. held' \in [Run -> Seq(Host)]
    BY <1>6, <2>1 DEF AppendLock
  <2> QED
    BY <1>6, <2>2 DEF AppendLock
<1>7. ASSUME NEW r \in Run, Work(r) PROVE TypeOK'
  <2>0. /\ \E p \in {"approve", "prepare", "execute", "unlock"} : phase' = [phase EXCEPT ![r] = p]
        /\ errs' = errs \/ errs' = [errs EXCEPT ![r] = errs[r] \cup {"work"}]
    BY <1>7 DEF Work, Planned, Approved, Prepared, Executed, WorkFails, GoOn
  <2>1. phase' \in [Run -> Phases]
    BY <2>0 DEF Phases
  <2>2. errs' \in [Run -> SUBSET {"lock", "work", "lease", "unlock"}]
    BY <2>0, JoinType
  <2> QED
    BY <1>7, <2>1, <2>2 DEF Work, Planned, Approved, Prepared, Executed, WorkFails, GoOn
<1>8. ASSUME NEW r \in Run, Monitor(r) PROVE TypeOK'
  BY <1>8 DEF Monitor
<1>9. ASSUME NEW r \in Run, UnlockLast(r) PROVE TypeOK'
  <2> DEFINE h == held[r][Len(held[r])]
  <2>1. h \in Host /\ SubSeq(held[r], 1, Len(held[r]) - 1) \in Seq(Host)
    BY <1>9, SubSeqProperties, LenProperties DEF UnlockLast
  <2>2. held' \in [Run -> Seq(Host)]
    BY <1>9, <2>1 DEF UnlockLast
  <2>3. owner' \in [Host -> Run \cup {NoRun}]
    BY <1>9, <2>1 DEF UnlockLast
  <2>4. LeaseErr(r, h) \subseteq {"lease"}
    BY DEF LeaseErr
  <2>5. errs' \in [Run -> SUBSET {"lock", "work", "lease", "unlock"}]
    <3>1. \/ errs' = [errs EXCEPT ![r] = errs[r] \cup LeaseErr(r, h)]
          \/ errs' = [errs EXCEPT ![r] = errs[r] \cup (LeaseErr(r, h) \cup {"unlock"})]
      BY <1>9 DEF UnlockLast
    <3> HIDE DEF h
    <3> QED
      BY <2>4, <3>1, JoinType
  <2>6. lease' \in [Run -> [Host -> {"none", "live", "lost", "released"}]]
    BY <1>9, <2>1 DEF UnlockLast
  <2> QED
    BY <1>9, <2>2, <2>3, <2>5, <2>6 DEF UnlockLast
<1>10. ASSUME NEW r \in Run, UnlockDone(r) PROVE TypeOK'
  BY <1>10 DEF UnlockDone, StopError, LeaseErr, Phases
<1>11. ASSUME NEW r \in Run, Interrupt(r) PROVE TypeOK'
  BY <1>11 DEF Interrupt
<1>12. ASSUME NEW r \in Run, Kill(r) PROVE TypeOK'
  BY <1>12 DEF Kill, Phases
<1>13. ASSUME NEW r \in Run, NEW h \in Host, LoseLease(r, h) PROVE TypeOK'
  BY <1>13 DEF LoseLease
<1>14. ASSUME NEW h \in Host, Expire(h) PROVE TypeOK'
  BY <1>14 DEF Expire
<1>15. ASSUME NEW r \in Run, Ask(r) \/ Answer(r) PROVE TypeOK'
  BY <1>15 DEF Ask, Answer
<1>16. CASE UNCHANGED vars
  BY <1>16 DEF vars
<1> QED
  BY <1>1, <1>2, <1>3, <1>4, <1>5, <1>6, <1>7, <1>8, <1>9, <1>10, <1>11, <1>12, <1>13, <1>14, <1>15, <1>16
     DEF Next, Pool, Unlocking

-----------------------------------------------------------------------------
(* The invariant.                                                          *)

\* What a run's invariants speak of.
Local(r) == <<phase[r], fed[r], call[r], held[r], lease[r], ctx[r], errs[r]>>

\* A run that a step leaves alone keeps its invariants.
LEMMA Frame ==
    ASSUME NEW r \in Run, PoolInv(r), LeaseInv(r), Local(r)' = Local(r)
    PROVE  PoolInv(r)' /\ LeaseInv(r)'
  BY DEF Local, PoolInv, LeaseInv, HeldHosts, Busy, PoolCancelled, SelectedHosts

LEMMA HeldFact ==
    ASSUME TypeOK, NEW r \in Run
    PROVE  HeldHosts(r) \subseteq Host /\ SelectedHosts(r) \subseteq Host
<1>1. held[r] \in Seq(Host) /\ Order[r] \in Seq(Host)
  BY ConstantsAssumption DEF TypeOK
<1> QED
  BY <1>1 DEF HeldHosts, SelectedHosts

\* So only the run that takes the step is to be looked at.
LEMMA OneRun ==
    ASSUME LocksInv, TypeOK', OwnerInv', NEW r \in Run, PoolInv(r)', LeaseInv(r)',
           \A q \in Run \ {r} : Local(q)' = Local(q)
    PROVE  LocksInv'
<1>1. \A q \in Run : PoolInv(q)' /\ LeaseInv(q)'
  BY Frame DEF LocksInv
<1> QED
  BY <1>1 DEF LocksInv

LEMMA FeedStep ==
    ASSUME LocksInv, TypeOK', NEW r \in Run, Feed(r)
    PROVE  LocksInv'
<1> DEFINE g == Order[r][fed[r] + 1]
<1>1. /\ phase[r] = "feed" /\ g \in Host /\ fed[r] \in Nat
      /\ fed[r] + 1 \in DOMAIN Order[r]
      /\ \A i \in 1 .. fed[r] : i \in DOMAIN Order[r]
  BY FedHost, ConstantsAssumption DEF LocksInv, TypeOK, Feed
<1>2. /\ fed'[r] = fed[r] + 1 /\ call'[r] = [call[r] EXCEPT ![g] = "calling"]
      /\ phase' = phase /\ held' = held /\ lease' = lease /\ ctx' = ctx /\ errs' = errs /\ owner' = owner
      /\ \A q \in Run \ {r} : Local(q)' = Local(q)
  BY DEF Feed, LocksInv, TypeOK, Local
<1>3. call[r][g] = "none"
  <2>1. \A i \in 1 .. fed[r] : Order[r][i] # g
    BY <1>1, ConstantsAssumption
  <2> QED
    BY <1>1, <2>1 DEF LocksInv, PoolInv
<1>4. call[r] \in [Host -> {"none", "calling", "got", "locked", "failed"}]
  BY DEF LocksInv, TypeOK
<1>5. \A h \in Host : call'[r][h] = IF h = g THEN "calling" ELSE call[r][h]
  BY <1>2, <1>4
<1> HIDE DEF g
<1>6. \A h \in Host : call'[r][h] # "none" <=> \E i \in 1 .. fed'[r] : Order[r][i] = h
  <2>1. \A h \in Host : call[r][h] # "none" <=> \E i \in 1 .. fed[r] : Order[r][i] = h
    BY DEF LocksInv, PoolInv
  <2>2. \A i : i \in 1 .. fed'[r] <=> i \in 1 .. fed[r] \/ i = fed[r] + 1
    BY <1>1, <1>2
  <2> QED
    BY <1>5, <2>1, <2>2 DEF g
<1>7. PoolInv(r)'
  BY <1>1, <1>2, <1>3, <1>5, <1>6 DEF LocksInv, PoolInv, HeldHosts
<1>8. LeaseInv(r)'
  BY <1>1, <1>2, <1>3, <1>5 DEF LocksInv, LeaseInv, HeldHosts
<1>9. OwnerInv'
  BY <1>2 DEF LocksInv, OwnerInv
<1> QED
  BY <1>2, <1>7, <1>8, <1>9, OneRun

LEMMA LockOkStep ==
    ASSUME LocksInv, TypeOK', NEW r \in Run, NEW g \in Host, LockOk(r, g)
    PROVE  LocksInv'
<1>1. /\ call[r][g] = "calling" /\ owner[g] = NoRun
      /\ phase' = phase /\ fed' = fed /\ held' = held /\ ctx' = ctx /\ errs' = errs
      /\ \A q \in Run \ {r} : Local(q)' = Local(q)
      /\ \A h \in Host : call'[r][h] = IF h = g THEN "got" ELSE call[r][h]
      /\ \A h \in Host : lease'[r][h] = IF h = g THEN "live" ELSE lease[r][h]
      /\ \A q \in Run \ {r} : lease'[q] = lease[q]
      /\ \A h \in Host : owner'[h] = IF h = g THEN r ELSE owner[h]
  BY DEF LockOk, LocksInv, TypeOK, Local
<1>2. phase[r] \in {"feed", "wait"}
  BY <1>1 DEF LocksInv, PoolInv, Busy
<1>3. PoolInv(r)'
  <2>1. HeldHosts(r)' = HeldHosts(r) /\ HeldHosts(r) \subseteq Host
    BY <1>1, HeldFact DEF LocksInv, HeldHosts
  <2>2. PoolCancelled(r) => PoolCancelled(r)'
    BY <1>1 DEF PoolCancelled
  <2> QED
    BY <1>1, <1>2, <2>1, <2>2 DEF LocksInv, PoolInv
<1>4. LeaseInv(r)'
  BY <1>1, <1>2 DEF LocksInv, LeaseInv, HeldHosts
<1>5. OwnerInv'
  BY <1>1, NoRunAssumption DEF LocksInv, OwnerInv
<1> QED
  BY <1>1, <1>3, <1>4, <1>5, OneRun

LEMMA LockFailsStep ==
    ASSUME LocksInv, TypeOK', NEW r \in Run, NEW g \in Host, LockFails(r, g)
    PROVE  LocksInv'
<1>1. /\ call[r][g] = "calling"
      /\ phase' = phase /\ fed' = fed /\ held' = held /\ ctx' = ctx /\ errs' = errs /\ lease' = lease
      /\ \A q \in Run \ {r} : Local(q)' = Local(q)
      /\ \A h \in Host : call'[r][h] = IF h = g THEN "failed" ELSE call[r][h]
      /\ \A h \in Host : owner[h] # NoRun => owner'[h] = owner[h]
  BY DEF LockFails, LocksInv, TypeOK, Local
<1>2. phase[r] \in {"feed", "wait"}
  BY <1>1 DEF LocksInv, PoolInv, Busy
<1>3. PoolInv(r)'
  <2>1. HeldHosts(r)' = HeldHosts(r) /\ HeldHosts(r) \subseteq Host
    BY <1>1, HeldFact DEF LocksInv, HeldHosts
  <2>2. PoolCancelled(r) => PoolCancelled(r)'
    BY <1>1 DEF PoolCancelled
  <2> QED
    BY <1>1, <1>2, <2>1, <2>2 DEF LocksInv, PoolInv
<1>4. LeaseInv(r)'
  BY <1>1, <1>2 DEF LocksInv, LeaseInv, HeldHosts
<1>5. OwnerInv'
  BY <1>1, NoRunAssumption DEF LocksInv, OwnerInv
<1> QED
  BY <1>1, <1>3, <1>4, <1>5, OneRun

LEMMA AppendLockStep ==
    ASSUME LocksInv, TypeOK', NEW r \in Run, NEW g \in Host, AppendLock(r, g)
    PROVE  LocksInv'
<1>1. /\ call[r][g] = "got"
      /\ phase' = phase /\ fed' = fed /\ ctx' = ctx /\ errs' = errs /\ lease' = lease /\ owner' = owner
      /\ \A q \in Run \ {r} : Local(q)' = Local(q)
      /\ \A h \in Host : call'[r][h] = IF h = g THEN "locked" ELSE call[r][h]
      /\ held'[r] = Append(held[r], g) /\ held[r] \in Seq(Host)
  BY DEF AppendLock, LocksInv, TypeOK, Local
<1>2. phase[r] \in {"feed", "wait"}
  BY <1>1 DEF LocksInv, PoolInv, Busy
<1>3. HeldHosts(r)' = HeldHosts(r) \cup {g}
  BY <1>1, AppendProperties, LenProperties DEF HeldHosts
<1>4. PoolInv(r)'
  <2>1. HeldHosts(r) \subseteq Host
    BY HeldFact DEF LocksInv
  <2>2. PoolCancelled(r) => PoolCancelled(r)'
    BY <1>1 DEF PoolCancelled
  <2> QED
    BY <1>1, <1>2, <1>3, <2>1, <2>2 DEF LocksInv, PoolInv
<1>5. LeaseInv(r)'
  BY <1>1, <1>2, <1>3 DEF LocksInv, LeaseInv
<1>6. OwnerInv'
  BY <1>1 DEF LocksInv, OwnerInv
<1> QED
  BY <1>1, <1>4, <1>5, <1>6, OneRun

\* A step that only changes the phase, the errors and the contexts.
LEMMA PhaseStep ==
    ASSUME LocksInv, TypeOK', NEW r \in Run, UNCHANGED <<fed, call, held, lease, owner>>,
           ctx[r] = "cancelled" => ctx'[r] = "cancelled",
           errs[r] \subseteq errs'[r],
           \A q \in Run \ {r} : Local(q)' = Local(q),
           \/ phase'[r] = phase[r] /\ phase[r] # "end"
           \/ phase[r] = "feed" /\ phase'[r] = "wait" /\ (fed[r] = Len(Order[r]) \/ PoolCancelled(r))
           \/ phase[r] = "wait" /\ phase'[r] = "rollback" /\ Busy(r) = {} /\ PoolCancelled(r) /\ errs'[r] # {}
           \/ phase[r] = "wait" /\ phase'[r] = "plan" /\ Busy(r) = {} /\ ~PoolCancelled(r)
           \/ phase[r] \in Working /\ phase'[r] \in Working \cup {"unlock"}
    PROVE  LocksInv'
<1>1. /\ PoolCancelled(r) => PoolCancelled(r)'
      /\ Busy(r)' = Busy(r) /\ HeldHosts(r)' = HeldHosts(r)
  BY DEF PoolCancelled, Busy, HeldHosts
<1>2. phase[r] = "wait" /\ Busy(r) = {} /\ ~PoolCancelled(r)
        => \A h \in SelectedHosts(r) : h \in Host /\ call[r][h] = "locked"
  <2> SUFFICES ASSUME phase[r] = "wait", Busy(r) = {}, ~PoolCancelled(r), NEW i \in DOMAIN Order[r]
               PROVE  Order[r][i] \in Host /\ call[r][Order[r][i]] = "locked"
    BY DEF SelectedHosts
  <2>1. Order[r] \in Seq(Host) /\ fed[r] = Len(Order[r])
    BY ConstantsAssumption DEF LocksInv, PoolInv
  <2>2. Order[r][i] \in Host /\ i \in 1 .. fed[r]
    BY <2>1, LenProperties
  <2>3. call[r][Order[r][i]] # "none"
    BY <2>2 DEF LocksInv, PoolInv
  <2> QED
    BY <2>2, <2>3 DEF LocksInv, TypeOK, Busy, PoolCancelled
<1>3. PoolInv(r)'
  BY <1>1, <1>2 DEF LocksInv, PoolInv, SelectedHosts
<1>4. LeaseInv(r)'
  BY <1>1 DEF LocksInv, LeaseInv
<1>5. OwnerInv'
  BY DEF LocksInv, OwnerInv
<1> QED
  BY <1>3, <1>4, <1>5, OneRun

\* Removing the last element of a sequence.
LEMMA LastRemoved ==
    ASSUME NEW S, NEW s \in Seq(S), s # << >>
    PROVE  LET rest == SubSeq(s, 1, Len(s) - 1)
           IN  /\ s[Len(s)] \in S
               /\ {s[i] : i \in DOMAIN s} = {rest[i] : i \in DOMAIN rest} \cup {s[Len(s)]}
<1> DEFINE rest == SubSeq(s, 1, Len(s) - 1)
<1>1. /\ Len(s) \in Nat \ {0} /\ s[Len(s)] \in S
      /\ DOMAIN s = 1 .. Len(s) /\ DOMAIN rest = 1 .. Len(s) - 1
      /\ \A i \in 1 .. Len(s) - 1 : rest[i] = s[i]
  BY SubSeqProperties, LenProperties, EmptySeq
<1>2. \A i : i \in 1 .. Len(s) <=> i \in 1 .. Len(s) - 1 \/ i = Len(s)
  BY <1>1
<1> HIDE DEF rest
<1>3. ASSUME NEW i \in DOMAIN s PROVE s[i] \in {rest[j] : j \in DOMAIN rest} \cup {s[Len(s)]}
  BY <1>1, <1>2
<1>4. ASSUME NEW i \in DOMAIN rest PROVE rest[i] \in {s[j] : j \in DOMAIN s}
  BY <1>1, <1>2
<1>5. Len(s) \in DOMAIN s
  BY <1>1, <1>2
<1> QED
  BY <1>1, <1>3, <1>4, <1>5 DEF rest

LEMMA UnlockLastStep ==
    ASSUME LocksInv, TypeOK', NEW r \in Run, UnlockLast(r)
    PROVE  LocksInv'
<1> DEFINE g == held[r][Len(held[r])]
           rest == SubSeq(held[r], 1, Len(held[r]) - 1)
<1>1. /\ phase[r] \in {"rollback", "unlock"}
      /\ phase' = phase /\ fed' = fed /\ call' = call /\ ctx' = ctx
      /\ held[r] \in Seq(Host) /\ held[r] # << >> /\ held'[r] = rest
      /\ \A q \in Run \ {r} : lease'[q] = lease[q] /\ held'[q] = held[q]
      /\ lease'[r] = [lease[r] EXCEPT ![g] = IF @ = "lost" THEN @ ELSE "released"]
      /\ lease[r] \in [Host -> {"none", "live", "lost", "released"}]
  <2>1. /\ held' = [held EXCEPT ![r] = rest]
        /\ lease' = [lease EXCEPT ![r][g] = IF @ = "lost" THEN @ ELSE "released"]
        /\ phase[r] \in {"rollback", "unlock"} /\ held[r] # << >>
        /\ phase' = phase /\ fed' = fed /\ call' = call /\ ctx' = ctx
    BY DEF UnlockLast, poolVars
  <2> HIDE DEF g, rest
  <2> QED
    BY <2>1 DEF LocksInv, TypeOK
<1>2. g \in Host /\ HeldHosts(r) = HeldHosts(r)' \cup {g}
  <2>1. HeldHosts(r)' = {rest[i] : i \in DOMAIN rest}
    BY <1>1 DEF HeldHosts
  <2>2. HeldHosts(r) = {held[r][i] : i \in DOMAIN held[r]}
    BY DEF HeldHosts
  <2> QED
    BY <1>1, <2>1, <2>2, LastRemoved
<1>3. /\ \A h \in Host : lease'[r][h] = IF h # g \/ lease[r][h] = "lost" THEN lease[r][h] ELSE "released"
      /\ owner' = owner \/ (owner[g] \in {r, NoRun} /\ owner' = [owner EXCEPT ![g] = NoRun])
  BY <1>1, <1>2 DEF UnlockLast
<1>4. \A q \in Run \ {r} : Local(q)' = Local(q)
  <2>1. \E e : errs' = [errs EXCEPT ![r] = errs[r] \cup e]
    BY DEF UnlockLast
  <2> QED
    BY <1>1, <2>1 DEF Local, LocksInv, TypeOK
<1>8. errs[r] \subseteq errs'[r]
  <2>1. \E e : errs' = [errs EXCEPT ![r] = errs[r] \cup e]
    BY DEF UnlockLast
  <2> QED
    BY <2>1 DEF LocksInv, TypeOK
<1> HIDE DEF g, rest
<1>5. PoolInv(r)'
  <2>1. PoolCancelled(r)' <=> PoolCancelled(r)
    BY <1>1 DEF PoolCancelled
  <2>2. Busy(r)' = Busy(r)
    BY <1>1 DEF Busy
  <2> QED
    BY <1>1, <1>2, <2>1, <2>2 DEF LocksInv, PoolInv, SelectedHosts
<1>6. LeaseInv(r)'
  BY <1>1, <1>2, <1>3, <1>8 DEF LocksInv, LeaseInv
<1>7. OwnerInv'
  <2> SUFFICES ASSUME NEW q \in Run, NEW h \in Host, lease'[q][h] = "live"
               PROVE  owner'[h] = q
    BY DEF OwnerInv
  <2>1. lease[q][h] = "live" /\ (q = r => h # g)
    BY <1>1, <1>3
  <2>2. owner[h] = q /\ q # NoRun
    BY <2>1, NoRunAssumption DEF LocksInv, OwnerInv
  <2>3. \A k \in Host : k # g \/ owner[g] \notin {r, NoRun} => owner'[k] = owner[k]
    BY <1>2, <1>3 DEF LocksInv, TypeOK
  <2> QED
    BY <2>1, <2>2, <2>3
<1> QED
  BY <1>4, <1>5, <1>6, <1>7, OneRun

LEMMA UnlockDoneStep ==
    ASSUME LocksInv, TypeOK', NEW r \in Run, UnlockDone(r)
    PROVE  LocksInv'
<1>1. /\ phase[r] \in {"rollback", "unlock"} /\ phase'[r] = "end"
      /\ fed' = fed /\ call' = call /\ ctx' = ctx /\ held' = held /\ lease' = lease /\ owner' = owner
      /\ held[r] = << >>
  BY DEF UnlockDone, LocksInv, TypeOK, poolVars
<1>8. /\ errs'[r] = IF phase[r] = "unlock" THEN errs[r] \cup StopError(r) ELSE errs[r]
      /\ \A q \in Run \ {r} : errs'[q] = errs[q] /\ phase'[q] = phase[q]
  BY DEF UnlockDone, LocksInv, TypeOK
<1>9. \A q \in Run \ {r} : Local(q)' = Local(q)
  BY <1>1, <1>8 DEF Local
<1>2. HeldHosts(r) = {} /\ HeldHosts(r)' = {}
  BY <1>1 DEF HeldHosts
<1>3. SelectedHosts(r) \subseteq Host
  BY HeldFact DEF LocksInv
<1>4. ASSUME errs'[r] = {} PROVE \A h \in SelectedHosts(r) : lease[r][h] = "released"
  <2>1. phase[r] = "unlock" /\ StopError(r) = {}
    BY <1>1, <1>8, <1>4 DEF LocksInv, LeaseInv
  <2>2. \A h \in Host : lease[r][h] # "lost"
    BY <2>1 DEF StopError, LeaseErr
  <2>3. \A h \in SelectedHosts(r) : call[r][h] = "locked" /\ lease[r][h] \notin {"none", "live"}
    BY <1>2, <1>3, <2>1 DEF LocksInv, PoolInv, LeaseInv
  <2> QED
    BY <1>3, <2>2, <2>3 DEF LocksInv, TypeOK
<1>5. PoolInv(r)'
  <2>1. PoolCancelled(r)' <=> PoolCancelled(r)
    BY <1>1 DEF PoolCancelled
  <2>2. Busy(r)' = Busy(r)
    BY <1>1 DEF Busy
  <2> QED
    BY <1>1, <1>2, <2>1, <2>2 DEF LocksInv, PoolInv
<1>6. LeaseInv(r)'
  BY <1>1, <1>2, <1>4 DEF LocksInv, LeaseInv, SelectedHosts
<1>7. OwnerInv'
  BY <1>1 DEF LocksInv, OwnerInv
<1> QED
  BY <1>9, <1>5, <1>6, <1>7, OneRun

LEMMA KillStep ==
    ASSUME LocksInv, TypeOK', NEW r \in Run, Kill(r)
    PROVE  LocksInv'
<1>1. /\ phase'[r] = "killed"
      /\ fed' = fed /\ ctx' = ctx /\ held' = held /\ errs' = errs /\ owner' = owner
      /\ \A h \in Host :
           /\ call'[r][h] = IF call[r][h] \in {"calling", "got"} THEN "failed" ELSE call[r][h]
           /\ lease'[r][h] = "none"
      /\ \A q \in Run \ {r} : lease'[q] = lease[q] /\ Local(q)' = Local(q)
  BY DEF Kill, LocksInv, TypeOK, Local
<1>2. HeldHosts(r)' = HeldHosts(r) /\ HeldHosts(r) \subseteq Host
  BY <1>1, HeldFact DEF LocksInv, HeldHosts
<1>3. PoolInv(r)'
  BY <1>1, <1>2 DEF LocksInv, PoolInv, Busy
<1>4. LeaseInv(r)'
  BY <1>1, <1>2 DEF LocksInv, LeaseInv
<1>5. OwnerInv'
  BY <1>1 DEF LocksInv, OwnerInv
<1> QED
  BY <1>1, <1>3, <1>4, <1>5, OneRun

LEMMA LoseLeaseStep ==
    ASSUME LocksInv, TypeOK', NEW r \in Run, NEW g \in Host, LoseLease(r, g)
    PROVE  LocksInv'
<1>1. /\ phase' = phase /\ fed' = fed /\ call' = call /\ ctx' = ctx /\ held' = held /\ errs' = errs
      /\ owner' = owner /\ lease[r][g] = "live"
      /\ \A h \in Host : lease'[r][h] = IF h = g THEN "lost" ELSE lease[r][h]
      /\ \A q \in Run \ {r} : lease'[q] = lease[q] /\ Local(q)' = Local(q)
  BY DEF LoseLease, LocksInv, TypeOK, Local, poolVars
<1>2. HeldHosts(r)' = HeldHosts(r) /\ HeldHosts(r) \subseteq Host /\ SelectedHosts(r) \subseteq Host
  BY <1>1, HeldFact DEF LocksInv, HeldHosts
<1>3. PoolInv(r)'
  BY <1>1, <1>2 DEF LocksInv, PoolInv, Busy, PoolCancelled, SelectedHosts
<1>4. phase[r] # "end"
  <2>1. call[r][g] = "got" \/ g \in HeldHosts(r)
    BY <1>1 DEF LocksInv, LeaseInv
  <2>2. phase[r] = "end" => Busy(r) = {} /\ HeldHosts(r) = {}
    BY DEF LocksInv, LeaseInv, PoolInv, HeldHosts
  <2> QED
    BY <2>1, <2>2 DEF Busy
<1>5. LeaseInv(r)'
  BY <1>1, <1>2, <1>4 DEF LocksInv, LeaseInv
<1>6. OwnerInv'
  BY <1>1 DEF LocksInv, OwnerInv
<1> QED
  BY <1>1, <1>3, <1>5, <1>6, OneRun

LEMMA ExpireStep ==
    ASSUME LocksInv, TypeOK', NEW g \in Host, Expire(g)
    PROVE  LocksInv'
<1>1. /\ \A q \in Run : Local(q)' = Local(q)
      /\ lease' = lease /\ owner[g] \in Run /\ lease[owner[g]][g] # "live"
      /\ \A h \in Host \ {g} : owner'[h] = owner[h]
  BY DEF Expire, LocksInv, TypeOK, Local, poolVars
<1>2. OwnerInv'
  BY <1>1 DEF LocksInv, OwnerInv
<1>3. \A q \in Run : PoolInv(q)' /\ LeaseInv(q)'
  BY <1>1, Frame DEF LocksInv
<1> QED
  BY <1>2, <1>3 DEF LocksInv

LEMMA LocksInit == Init => LocksInv
<1> SUFFICES ASSUME Init PROVE LocksInv
  OBVIOUS
<1>1. \A r \in Run : HeldHosts(r) = {}
  BY DEF Init, HeldHosts
<1>2. ASSUME NEW r \in Run PROVE PoolInv(r) /\ LeaseInv(r)
  BY <1>1 DEF Init, PoolInv, LeaseInv
<1> QED
  BY <1>2, TypeInit DEF Init, LocksInv, OwnerInv

LEMMA LocksNext == LocksInv /\ [Next]_vars => LocksInv'
<1> SUFFICES ASSUME LocksInv, [Next]_vars PROVE LocksInv'
  OBVIOUS
<1>0. TypeOK /\ TypeOK'
  BY TypeNext DEF LocksInv
<1>1. ASSUME NEW r \in Run, Pool(r) PROVE LocksInv'
  <2>1. CASE CloseFeed(r)
    BY <1>0, <2>1, PhaseStep DEF CloseFeed, TypeOK, Local, poolVars
  <2>2. CASE RunHostsReturns(r)
    <3>1. \/ phase' = [phase EXCEPT ![r] = "rollback"] /\ errs' = [errs EXCEPT ![r] = errs[r] \cup {"lock"}]
             /\ PoolCancelled(r)
          \/ phase' = [phase EXCEPT ![r] = "plan"] /\ errs' = errs /\ ~PoolCancelled(r)
      BY <2>2 DEF RunHostsReturns, RunHostsError
    <3>2. /\ phase[r] = "wait" /\ Busy(r) = {}
          /\ UNCHANGED <<fed, call, held, lease, ctx, owner>>
      BY <2>2 DEF RunHostsReturns, poolVars
    <3>3. /\ errs[r] \subseteq errs'[r] /\ (phase'[r] = "rollback" => errs'[r] # {})
          /\ \A q \in Run \ {r} : Local(q)' = Local(q)
          /\ (phase'[r] = "rollback" /\ PoolCancelled(r)) \/ (phase'[r] = "plan" /\ ~PoolCancelled(r))
      <4>1. \A q \in Run \ {r} : errs'[q] = errs[q] /\ phase'[q] = phase[q]
        BY <1>0, <3>1 DEF TypeOK
      <4>2. \A q \in Run \ {r} : Local(q)' = Local(q)
        BY <3>2, <4>1 DEF Local
      <4>3. (phase'[r] = "rollback" /\ PoolCancelled(r)) \/ (phase'[r] = "plan" /\ ~PoolCancelled(r))
        BY <1>0, <3>1 DEF TypeOK
      <4>4. errs[r] \subseteq errs'[r] /\ (phase'[r] = "rollback" => errs'[r] # {})
        <5>1. (errs' = errs /\ phase'[r] = "plan") \/ errs'[r] = errs[r] \cup {"lock"}
          BY <1>0, <3>1 DEF TypeOK
        <5> QED
          BY <5>1
      <4> QED
        BY <4>2, <4>3, <4>4
    <3> QED
      BY <1>0, <3>2, <3>3, PhaseStep
  <2> QED
    BY <1>0, <1>1, <2>1, <2>2, FeedStep, LockOkStep, LockFailsStep, AppendLockStep DEF Pool
<1>2. ASSUME NEW r \in Run, Work(r) PROVE LocksInv'
  <2>1. /\ phase[r] \in Working
        /\ \E p \in Working \cup {"unlock"} : phase' = [phase EXCEPT ![r] = p]
        /\ errs' = errs \/ errs' = [errs EXCEPT ![r] = errs[r] \cup {"work"}]
        /\ UNCHANGED <<fed, call, held, lease, ctx, owner>>
    BY <1>2 DEF Work, Planned, Approved, Prepared, Executed, WorkFails, GoOn, poolVars
  <2>2. /\ errs[r] \subseteq errs'[r]
        /\ \A q \in Run \ {r} : Local(q)' = Local(q)
        /\ phase'[r] \in Working \cup {"unlock"}
    BY <1>0, <2>1 DEF TypeOK, Local
  <2> QED
    BY <1>0, <2>1, <2>2, PhaseStep
<1>3. ASSUME NEW r \in Run, Monitor(r) PROVE LocksInv'
  <2>1. /\ errs' = [errs EXCEPT ![r] = errs[r] \cup {"lease"}] /\ phase[r] # "end"
        /\ UNCHANGED <<phase, fed, call, held, lease, ctx, owner>>
    BY <1>3 DEF Monitor, poolVars
  <2> QED
    BY <1>0, <2>1, PhaseStep DEF TypeOK, Local
<1>4. ASSUME NEW r \in Run, Interrupt(r) PROVE LocksInv'
  BY <1>0, <1>4, PhaseStep DEF Interrupt, TypeOK, Local, poolVars
<1>5. CASE UNCHANGED vars \/ \E r \in Run : Ask(r) \/ Answer(r)
  <2>1. UNCHANGED <<phase, fed, call, held, lease, ctx, errs, owner>>
    BY <1>5 DEF vars, Ask, Answer, poolVars
  <2>2. \A q \in Run : Local(q)' = Local(q)
    BY <2>1 DEF Local
  <2>3. \A q \in Run : PoolInv(q)' /\ LeaseInv(q)'
    BY <2>2, Frame DEF LocksInv
  <2> QED
    BY <1>0, <2>1, <2>3 DEF LocksInv, OwnerInv
<1> QED
  BY <1>0, <1>1, <1>2, <1>3, <1>4, <1>5, UnlockLastStep, UnlockDoneStep, KillStep, LoseLeaseStep, ExpireStep
     DEF Next, Unlocking

-----------------------------------------------------------------------------
(* The theorems.                                                           *)

LEMMA LocksInvEnough == LocksInv => AllOrNothing /\ LeasesAccountedFor
<1> SUFFICES ASSUME LocksInv PROVE AllOrNothing /\ LeasesAccountedFor
  OBVIOUS
<1>1. AllOrNothing
  BY HeldFact DEF LocksInv, PoolInv, OwnerInv, HeldHosts, AllOrNothing
<1>2. LeasesAccountedFor
  <2> SUFFICES ASSUME NEW r \in Run, phase[r] = "end"
               PROVE  /\ \A h \in Host : lease[r][h] # "live"
                      /\ errs[r] = {} => \A h \in SelectedHosts(r) : lease[r][h] = "released"
    BY DEF LeasesAccountedFor
  <2>1. Busy(r) = {} /\ HeldHosts(r) = {}
    BY DEF LocksInv, PoolInv, LeaseInv, HeldHosts
  <2> QED
    BY <2>1 DEF LocksInv, LeaseInv, Busy
<1> QED
  BY <1>1, <1>2

\* The variables of the runs keep their types.
THEOREM TypeCorrect == Spec => []TypeOK
  BY TypeInit, TypeNext, PTL DEF Spec

\* For any runs, hosts and workers: whatever failed or was cancelled while the
\* pool was at work, a run gets past lockHosts only with the lock of every
\* selected host, and the leases it renews are its own on the hosts.
THEOREM AllOrNothingCorrect == Spec => []AllOrNothing
  BY LocksInit, LocksNext, LocksInvEnough, PTL DEF Spec

\* For any runs, hosts and workers: withHostLocks returns with no lease being
\* renewed, and without an error only if every lease lasted until it was given
\* back.
THEOREM LeasesAccountedForCorrect == Spec => []LeasesAccountedFor
  BY LocksInit, LocksNext, LocksInvEnough, PTL DEF Spec
=============================================================================
