-------------------------- MODULE StateLockProofs --------------------------
(***************************************************************************)
(* Proofs about the state lock for any number of Lock() calls, any timings *)
(* that satisfy LeaseAssumption, any number of power losses and any clock  *)
(* bound.                                                                  *)
(***************************************************************************)
EXTENDS StateLock, TLAPS

USE ConstantsAssumption, TokenAssumption

LEMMA ConstructorTypes ==
    /\ NoRecord \in Record
    /\ NoMarker \in Marker
    /\ \A t \in Int : UnknownRecord(t) \in Record
    /\ \A a \in Attempt, t \in Int : V2Record(a, t) \in Record
    /\ \A a \in Attempt, t \in Int : V2Marker(a, t) \in Marker
    /\ \A t \in Int : TornMarker(t) \in Marker
  BY DEF NoRecord, NoMarker, UnknownRecord, V2Record, V2Marker, TornMarker,
         Record, Marker

LEMMA TypeInit == Init => TypeOK
  BY ConstructorTypes DEF Init, TypeOK, LockPCs, RenewPCs, UnlockPCs,
         ClientStates, Free, NoToken

\* The steps of the scripts keep the types.
LEMMA TypeScripts ==
    ASSUME TypeOK, NEW a \in Attempt,
           LockScript(a) \/ RenewScript(a) \/ UnlockScript(a) \/ ScriptDies(a)
    PROVE  TypeOK'
  <1> USE DEF TypeOK, fileVars, scriptVars, clientVars, LockPCs, RenewPCs,
              UnlockPCs, ClientStates
  <1>1. CASE LockClaim(a)
    BY <1>1 DEF LockClaim, GuardOf
  <1>2. CASE LockTimedOut(a)
    BY <1>2 DEF LockTimedOut, LockEnds
  <1>3. CASE LockMkdir(a)
    BY <1>3 DEF LockMkdir, LockEnds, Free
  <1>4. CASE LockTruncMarker(a)
    BY <1>4, ConstructorTypes DEF LockTruncMarker
  <1>5. CASE LockFillMarker(a)
    BY <1>5, ConstructorTypes DEF LockFillMarker
  <1>6. CASE LockPublish(a)
    BY <1>6, ConstructorTypes DEF LockPublish, LockEnds, Free
  <1>7. CASE RenewEnter(a)
    BY <1>7 DEF RenewEnter, GuardOf
  <1>8. CASE RenewPublish(a)
    BY <1>8, ConstructorTypes DEF RenewPublish
  <1>9. CASE RenewTouch(a)
    BY <1>9 DEF RenewTouch, Marker, Free
  <1>10. CASE UnlockEnter(a)
    BY <1>10 DEF UnlockEnter, GuardOf
  <1>11. CASE UnlockRmRecord(a)
    BY <1>11, ConstructorTypes DEF UnlockRmRecord
  <1>12. CASE UnlockRmMarker(a)
    BY <1>12, ConstructorTypes DEF UnlockRmMarker
  <1>13. CASE UnlockRmdir(a)
    BY <1>13 DEF UnlockRmdir, Free
  <1>14. CASE LockDies(a)
    BY <1>14 DEF LockDies, LockEnds, LockDeath, DropGuard, Free
  <1>15. CASE RenewDies(a)
    BY <1>15 DEF RenewDies, DropGuard, Free
  <1>16. CASE UnlockDies(a)
    BY <1>16 DEF UnlockDies, UnlockDeath, DropGuard, Free
  <1> QED
    BY <1>1, <1>2, <1>3, <1>4, <1>5, <1>6, <1>7, <1>8, <1>9, <1>10, <1>11,
       <1>12, <1>13, <1>14, <1>15, <1>16
       DEF LockScript, RenewScript, UnlockScript, ScriptDies

\* The steps of the Go side keep the types.
LEMMA TypeClient ==
    ASSUME TypeOK, NEW a \in Attempt, LockCall(a) \/ Client(a)
    PROVE  TypeOK'
  <1> USE DEF TypeOK, fileVars, scriptVars, LockPCs, RenewPCs, UnlockPCs,
              ClientStates
  <1>1. CASE LockCall(a)
    BY <1>1 DEF LockCall
  <1>2. CASE LockReturns(a)
    BY <1>2 DEF LockReturns
  <1>3. CASE LockCallFails(a)
    BY <1>3 DEF LockCallFails
  <1>4. CASE ValidateOk(a)
    BY <1>4 DEF ValidateOk
  <1>5. CASE ValidateFails(a)
    BY <1>5 DEF ValidateFails, SendUnlock, StopKeepAlive
  <1>6. CASE RenewCall(a)
    BY <1>6 DEF RenewCall
  <1>7. CASE RenewOk(a)
    BY <1>7 DEF RenewOk
  <1>8. CASE RenewFails(a)
    BY <1>8 DEF RenewFails, StopKeepAlive
  <1>9. CASE UnlockCall(a)
    BY <1>9 DEF UnlockCall, SendUnlock, StopKeepAlive
  <1>10. CASE UnlockReturns(a)
    BY <1>10 DEF UnlockReturns
  <1>11. CASE ClientDies(a)
    BY <1>11 DEF ClientDies, StopKeepAlive
  <1> QED
    BY <1>1, <1>2, <1>3, <1>4, <1>5, <1>6, <1>7, <1>8, <1>9, <1>10, <1>11
       DEF Client

LEMMA TypeNext == TypeOK /\ [Next]_vars => TypeOK'
  <1> SUFFICES ASSUME TypeOK, [Next]_vars PROVE TypeOK'
    OBVIOUS
  <1>1. ASSUME NEW a \in Attempt,
               LockCall(a) \/ LockScript(a) \/ RenewScript(a)
                 \/ UnlockScript(a) \/ ScriptDies(a) \/ Client(a)
        PROVE  TypeOK'
    BY <1>1, TypeScripts, TypeClient
  <1>2. CASE PowerLoss
    <2>1. record' \in Record
      BY <1>2, ConstructorTypes DEF PowerLoss, TypeOK, Record
    <2> QED
      BY <1>2, <2>1 DEF PowerLoss, LockDeath, UnlockDeath, TypeOK, clientVars, Free, LockPCs,
             RenewPCs, UnlockPCs
  <1>3. CASE Legacy
    BY <1>3, ConstructorTypes DEF Legacy, LegacyMkdir, LegacyWrite,
           LegacyUnlock, TypeOK, scriptVars, clientVars
  <1>4. CASE Tick
    BY <1>4 DEF Tick, TypeOK, fileVars, scriptVars, clientVars
  <1>5. CASE UNCHANGED vars
    BY <1>5 DEF vars, TypeOK, fileVars, scriptVars, clientVars
  <1> QED
    BY <1>1, <1>2, <1>3, <1>4, <1>5 DEF Next

\* The state lock is well typed in every reachable state.
THEOREM TypeCorrect == Spec => []TypeOK
  BY TypeInit, TypeNext, PTL DEF Spec
-----------------------------------------------------------------------------
(* The inductive invariant.  Nothing is said of clients that are suspended: *)
(* the lemmas assume that Pausable is empty.                               *)

LEMMA InvInit == Init => LockInv
  BY DEF Init, LockInv, GuardInv, FileInv, ClientInv, RelyInv, Claiming,
         Renewing, Unlocking, Holding, Published, Relies, Free, NoRecord,
         NoMarker, NoToken

\* The lock script.  The step that matters is LockClaim: a client that relies
\* on the lease is, by ClientInv and RelyInv, within the time for which the
\* record on disk keeps everybody out, so there is nothing to claim.
LEMMA InvLockScript ==
    ASSUME TypeOK, TypeOK', LockInv, Pausable = {},
           NEW a \in Attempt, LockScript(a) \/ LockDies(a)
    PROVE  LockInv'
  <1> USE LeaseAssumption
      DEF TypeOK, Record, Marker, LockInv, GuardInv, FileInv, ClientInv,
          RelyInv, Claiming, Renewing, Unlocking, Holding, Published, Relies,
          ProtectsUntil, ValidPair, LockPCs, RenewPCs, UnlockPCs,
          ClientStates, Free, fileVars, scriptVars, clientVars
  <1>1. CASE LockClaim(a)
    BY <1>1 DEF LockClaim, GuardOf, MayClaim
  <1>2. CASE LockTimedOut(a)
    BY <1>2 DEF LockTimedOut, LockEnds
  <1>3. CASE LockMkdir(a)
    BY <1>3 DEF LockMkdir, LockEnds
  <1>4. CASE LockTruncMarker(a)
    BY <1>4 DEF LockTruncMarker, TornMarker
  <1>5. CASE LockFillMarker(a)
    BY <1>5 DEF LockFillMarker, V2Marker
  <1>6. CASE LockPublish(a)
    BY <1>6 DEF LockPublish, LockEnds, V2Record
  <1>7. CASE LockDies(a)
    BY <1>7 DEF LockDies, LockEnds, LockDeath, DropGuard
  <1> QED
    BY <1>1, <1>2, <1>3, <1>4, <1>5, <1>6, <1>7 DEF LockScript

\* The renew and the unlock script.  Each has found its own token on disk under
\* the guard, so no other client relies on the lease that it replaces or
\* removes.
LEMMA InvOtherScripts ==
    ASSUME TypeOK, TypeOK', LockInv, Pausable = {},
           NEW a \in Attempt,
           RenewScript(a) \/ RenewDies(a) \/ UnlockScript(a) \/ UnlockDies(a)
    PROVE  LockInv'
  <1> USE LeaseAssumption
      DEF TypeOK, Record, Marker, LockInv, GuardInv, FileInv, ClientInv,
          RelyInv, Claiming, Renewing, Unlocking, Holding, Published, Relies,
          ProtectsUntil, ValidPair, LockPCs, RenewPCs, UnlockPCs,
          ClientStates, Free, fileVars, scriptVars, clientVars
  <1>1. CASE RenewEnter(a)
    BY <1>1 DEF RenewEnter, GuardOf
  <1>2. CASE RenewPublish(a)
    BY <1>2 DEF RenewPublish, V2Record
  <1>3. CASE RenewTouch(a)
    BY <1>3 DEF RenewTouch
  <1>4. CASE RenewDies(a)
    BY <1>4 DEF RenewDies, DropGuard
  <1>5. CASE UnlockEnter(a)
    BY <1>5 DEF UnlockEnter, GuardOf
  <1>6. CASE UnlockRmRecord(a)
    BY <1>6 DEF UnlockRmRecord, NoRecord
  <1>7. CASE UnlockRmMarker(a)
    BY <1>7 DEF UnlockRmMarker, NoMarker
  <1>8. CASE UnlockRmdir(a)
    BY <1>8 DEF UnlockRmdir
  <1>9. CASE UnlockDies(a)
    BY <1>9 DEF UnlockDies, UnlockDeath, DropGuard
  <1> QED
    BY <1>1, <1>2, <1>3, <1>4, <1>5, <1>6, <1>7, <1>8, <1>9 DEF RenewScript, UnlockScript

\* The Go side.  RenewCall begins with at least RenewTimeout of protection left,
\* which is LeaseAssumption; RenewOk and ValidateOk take over what the script
\* published.
LEMMA InvClient ==
    ASSUME TypeOK, TypeOK', LockInv, Pausable = {},
           NEW a \in Attempt, LockCall(a) \/ Client(a)
    PROVE  LockInv'
  <1> USE LeaseAssumption
      DEF TypeOK, Record, Marker, LockInv, GuardInv, FileInv, ClientInv,
          RelyInv, Claiming, Renewing, Unlocking, Holding, Published, Relies,
          ProtectsUntil, ValidPair, LockPCs, RenewPCs, UnlockPCs,
          ClientStates, Free, fileVars, scriptVars, clientVars
  <1>1. CASE LockCall(a)
    BY <1>1 DEF LockCall
  <1>2. CASE LockReturns(a)
    BY <1>2 DEF LockReturns
  <1>3. CASE LockCallFails(a)
    BY <1>3 DEF LockCallFails
  <1>4. CASE ValidateOk(a)
    BY <1>4 DEF ValidateOk, InTime
  <1>5. CASE ValidateFails(a)
    BY <1>5 DEF ValidateFails, SendUnlock, StopKeepAlive
  <1>6. CASE RenewCall(a)
    BY <1>6 DEF RenewCall
  <1>7. CASE RenewOk(a)
    BY <1>7 DEF RenewOk, InTime
  <1>8. CASE RenewFails(a)
    BY <1>8 DEF RenewFails, StopKeepAlive
  <1>9. CASE UnlockCall(a)
    BY <1>9 DEF UnlockCall, SendUnlock, StopKeepAlive
  <1>10. CASE UnlockReturns(a)
    BY <1>10 DEF UnlockReturns
  <1>11. CASE ClientDies(a)
    BY <1>11 DEF ClientDies, StopKeepAlive
  <1> QED
    BY <1>1, <1>2, <1>3, <1>4, <1>5, <1>6, <1>7, <1>8, <1>9, <1>10, <1>11 DEF Client

\* Power losses, the old client and the clock.
LEMMA InvEnvironment ==
    ASSUME TypeOK, TypeOK', LockInv, Pausable = {},
           PowerLoss \/ Legacy \/ Tick
    PROVE  LockInv'
  <1> USE LeaseAssumption
      DEF TypeOK, Record, Marker, LockInv, GuardInv, FileInv, ClientInv,
          RelyInv, Claiming, Renewing, Unlocking, Holding, Published, Relies,
          ProtectsUntil, ValidPair, LockPCs, RenewPCs, UnlockPCs,
          ClientStates, Free, fileVars, scriptVars, clientVars
  <1>1. CASE PowerLoss
    BY <1>1 DEF PowerLoss, LockDeath, UnlockDeath, UnknownRecord
  <1>2. CASE LegacyMkdir
    BY <1>2 DEF LegacyMkdir
  <1>3. CASE LegacyWrite
    BY <1>3 DEF LegacyWrite, UnknownRecord
  <1>4. CASE LegacyUnlock
    BY <1>4 DEF LegacyUnlock, NoRecord
  <1>5. CASE Tick
    BY <1>5 DEF Tick, Overdue
  <1> QED
    BY <1>1, <1>2, <1>3, <1>4, <1>5 DEF Legacy

LEMMA InvNext ==
    ASSUME TypeOK, TypeOK', LockInv, Pausable = {}, [Next]_vars
    PROVE  LockInv'
  <1>1. ASSUME NEW a \in Attempt,
               LockCall(a) \/ LockScript(a) \/ RenewScript(a)
                 \/ UnlockScript(a) \/ ScriptDies(a) \/ Client(a)
        PROVE  LockInv'
    BY <1>1, InvLockScript, InvOtherScripts, InvClient DEF ScriptDies
  <1>2. CASE PowerLoss \/ Legacy \/ Tick
    BY <1>2, InvEnvironment
  <1>3. CASE UNCHANGED vars
    BY <1>3 DEF vars, fileVars, scriptVars, clientVars, LockInv, GuardInv,
           FileInv, ClientInv, RelyInv, Claiming, Renewing, Unlocking,
           Holding, Published, Relies, ProtectsUntil, ValidPair
  <1> QED
    BY <1>1, <1>2, <1>3 DEF Next

\* Without suspended clients, the inductive invariant always holds.
THEOREM InvCorrect ==
    ASSUME Pausable = {}
    PROVE  Spec => []LockInv
  <1>1. TypeOK /\ TypeOK' /\ LockInv /\ [Next]_vars => LockInv'
    BY InvNext
  <1> QED
    BY InvInit, <1>1, TypeCorrect, PTL DEF Spec

-----------------------------------------------------------------------------
LEMMA InvGivesSafety ==
    ASSUME TypeOK, LockInv
    PROVE  MutualExclusion /\ LegacyExclusion /\ HolderLeaseLive
  <1> USE LeaseAssumption
      DEF TypeOK, Record, LockInv, ClientInv, RelyInv, Holding, Relies,
          ProtectsUntil
  <1>1. MutualExclusion
    BY DEF MutualExclusion
  <1>2. LegacyExclusion
    BY DEF LegacyExclusion
  <1>3. HolderLeaseLive
    BY DEF HolderLeaseLive
  <1> QED
    BY <1>1, <1>2, <1>3

\* Two runs never both hold the lock of a host: whatever scripts and clients
\* die, whatever calls break or answer late, the client that loses its lease
\* knows before another one can have it.
THEOREM MutualExclusionCorrect ==
    ASSUME Pausable = {}
    PROVE  Spec => []MutualExclusion
  <1>1. TypeOK /\ LockInv => MutualExclusion
    BY InvGivesSafety
  <1> QED
    BY <1>1, TypeCorrect, InvCorrect, PTL

\* Nor does a run hold it together with an old client.
THEOREM LegacyExclusionCorrect ==
    ASSUME Pausable = {}
    PROVE  Spec => []LegacyExclusion
  <1>1. TypeOK /\ LockInv => LegacyExclusion
    BY InvGivesSafety
  <1> QED
    BY <1>1, TypeCorrect, InvCorrect, PTL

\* A run that holds the lock has its own unexpired lease on the host, unless
\* a power loss damaged the record.
THEOREM HolderLeaseLiveCorrect ==
    ASSUME Pausable = {}
    PROVE  Spec => []HolderLeaseLive
  <1>1. TypeOK /\ LockInv => HolderLeaseLive
    BY InvGivesSafety
  <1> QED
    BY <1>1, TypeCorrect, InvCorrect, PTL

-----------------------------------------------------------------------------
\* A step changes what LeaseLock sees of at most one attempt, and of that one
\* as LeaseLock allows.
LEMMA LeaseStep ==
    ASSUME TypeOK, LockInv, LockInv', TypeOK', Pausable = {}, [Next]_vars
    PROVE  [Lease!Next]_LeasePhase
  <1> USE DEF TypeOK, LeasePhase
  <1>1. CASE UNCHANGED client
    BY <1>1 DEF Holding
  <1>2. ASSUME NEW a \in Attempt, LockCall(a)
        PROVE  Lease!Try(a)
    BY <1>2 DEF LockCall, Lease!Try, Holding
  <1>3. ASSUME NEW a \in Attempt, client[a] \in {"locking", "validating", "held", "renewing"},
               NEW c \in {"lost", "unlocking", "done"},
               client' = [client EXCEPT ![a] = c]
        PROVE  Lease!Release(a)
    BY <1>3 DEF Lease!Release, Holding
  <1>4. ASSUME NEW a \in Attempt, client[a] \in {"lost", "unlocking"},
               NEW c \in {"unlocking", "done"},
               client' = [client EXCEPT ![a] = c]
        PROVE  UNCHANGED LeasePhase
    BY <1>4 DEF Holding
  <1>5. ASSUME NEW a \in Attempt, ValidateOk(a)
        PROVE  Lease!Acquire(a)
    <2>1. client[a] = "validating" /\ client' = [client EXCEPT ![a] = "held"]
      BY <1>5 DEF ValidateOk
    <2>2. \A b \in Attempt : ~Holding(b)
      <3> SUFFICES ASSUME NEW b \in Attempt, Holding(b) PROVE FALSE
        OBVIOUS
      <3>1. b # a /\ client'[b] = client[b] /\ client'[a] = "held"
        BY <2>1 DEF Holding
      <3>2. Relies(a)' /\ Relies(b)'
        BY <3>1 DEF Relies, Holding
      <3> QED
        BY <3>1, <3>2 DEF LockInv, RelyInv
    <2>3. \A b \in Attempt : LeasePhase[b] # "holding"
      BY <2>2
    <2>4. LeasePhase[a] = "trying"
      BY <2>1 DEF Holding
    <2>5. LeasePhase' = [LeasePhase EXCEPT ![a] = "holding"]
      BY <2>1 DEF Holding
    <2> HIDE DEF LeasePhase
    <2> QED
      BY <2>3, <2>4, <2>5 DEF Lease!Acquire
  <1>6. ASSUME NEW a \in Attempt,
               \/ client[a] = "locking" /\ client' = [client EXCEPT ![a] = "validating"]
               \/ client[a] = "held" /\ client' = [client EXCEPT ![a] = "renewing"]
               \/ client[a] = "renewing" /\ client' = [client EXCEPT ![a] = "held"]
        PROVE  UNCHANGED LeasePhase
    BY <1>6 DEF Holding
  <1>7. ASSUME NEW a \in Attempt, Client(a)
        PROVE  [Lease!Next]_LeasePhase
    <2> HIDE DEF LeasePhase
    <2>1. CASE ValidateOk(a)
      BY <1>5, <2>1 DEF Lease!Next
    <2>2. CASE LockReturns(a) \/ RenewCall(a) \/ RenewOk(a)
      BY <1>6, <2>2 DEF LockReturns, RenewCall, RenewOk
    <2>3. CASE LockCallFails(a) \/ ValidateFails(a) \/ RenewFails(a)
      BY <1>3, <2>3 DEF LockCallFails, ValidateFails, RenewFails, SendUnlock, StopKeepAlive,
                        Lease!Next
    <2>4. CASE UnlockCall(a) \/ UnlockReturns(a) \/ ClientDies(a)
      BY <1>3, <1>4, <2>4 DEF UnlockCall, UnlockReturns, ClientDies, SendUnlock, StopKeepAlive,
                              Lease!Next
    <2> QED
      BY <1>7, <2>1, <2>2, <2>3, <2>4 DEF Client
  <1>8. ASSUME NEW a \in Attempt, LockScript(a) \/ RenewScript(a) \/ UnlockScript(a) \/ ScriptDies(a)
        PROVE  UNCHANGED client
    BY <1>8 DEF LockScript, RenewScript, UnlockScript, ScriptDies, LockClaim, LockTimedOut,
                LockMkdir, LockTruncMarker, LockFillMarker, LockPublish, RenewEnter,
                RenewPublish, RenewTouch, UnlockEnter, UnlockRmRecord, UnlockRmMarker,
                UnlockRmdir, LockDies, RenewDies, UnlockDies, clientVars
  <1>9. CASE PowerLoss \/ Legacy \/ Tick \/ UNCHANGED vars
    BY <1>1, <1>9 DEF PowerLoss, Legacy, LegacyMkdir, LegacyWrite, LegacyUnlock, Tick, vars,
                      clientVars
  <1> HIDE DEF LeasePhase
  <1> QED
    BY <1>1, <1>2, <1>7, <1>8, <1>9 DEF Next, Lease!Next

\* The lock implements what its callers count on.
THEOREM LeaseLockCorrect ==
    ASSUME Pausable = {}
    PROVE  Spec => ImplementsLeaseLock
  <1>1. Init => Lease!Init
    BY DEF Init, Lease!Init, LeasePhase, Holding
  <1>2. TypeOK /\ TypeOK' /\ LockInv /\ LockInv' /\ [Next]_vars => [Lease!Next]_LeasePhase
    BY LeaseStep
  <1> QED
    BY <1>1, <1>2, TypeCorrect, InvCorrect, PTL DEF Spec, ImplementsLeaseLock, Lease!Spec

-----------------------------------------------------------------------------
\* Unlock is sent by a client whose lock script has ended.
UnlockInv == \A a \in Attempt : unlockPC[a] # "off" => lockPC[a] = "ok"

LEMMA UnlockInvNext ==
    ASSUME TypeOK, LockInv, UnlockInv, [Next]_vars
    PROVE  UnlockInv'
  <1> USE DEF TypeOK, UnlockInv, LockEnds
  <1>1. ASSUME NEW a \in Attempt, LockCall(a) \/ LockScript(a)
        PROVE  UnlockInv'
    BY <1>1 DEF LockCall, LockScript, LockClaim, LockTimedOut, LockMkdir, LockTruncMarker,
                LockFillMarker, LockPublish, LockInv, ClientInv
  <1>2. ASSUME NEW a \in Attempt, RenewScript(a) \/ UnlockScript(a) \/ ScriptDies(a)
        PROVE  UnlockInv'
    BY <1>2 DEF RenewScript, UnlockScript, ScriptDies, RenewEnter, RenewPublish, RenewTouch,
                UnlockEnter, UnlockRmRecord, UnlockRmMarker, UnlockRmdir, LockDies, RenewDies,
                UnlockDies, LockDeath, UnlockDeath
  <1>3. ASSUME NEW a \in Attempt, Client(a)
        PROVE  UnlockInv'
    <2>1. CASE ValidateFails(a) \/ UnlockCall(a)
      BY <2>1 DEF ValidateFails, UnlockCall, SendUnlock, LockInv, ClientInv
    <2>2. CASE UNCHANGED <<lockPC, unlockPC>>
      BY <2>2
    <2> QED
      BY <1>3, <2>1, <2>2 DEF Client, LockReturns, LockCallFails, ValidateOk, RenewCall, RenewOk,
             RenewFails, UnlockReturns, ClientDies, scriptVars
  <1>4. CASE PowerLoss
    BY <1>4 DEF PowerLoss, UnlockDeath
  <1>5. CASE Legacy \/ Tick \/ UNCHANGED vars
    BY <1>5 DEF Legacy, LegacyMkdir, LegacyWrite, LegacyUnlock, Tick, vars, scriptVars
  <1> QED
    BY <1>1, <1>2, <1>3, <1>4, <1>5 DEF Next

LEMMA ResurrectionStep ==
    ASSUME TypeOK, LockInv, UnlockInv, [Next]_vars,
           NEW a \in Attempt, unlockPC[a] = "ok", record.token # a
    PROVE  record'.token # a
  <1> USE TokenAssumption DEF TypeOK
  <1>1. ASSUME NEW b \in Attempt, LockPublish(b) \/ RenewPublish(b)
        PROVE  record'.token = b /\ b # a
    BY <1>1 DEF LockPublish, RenewPublish, V2Record, UnlockInv, LockInv, FileInv, Renewing
  <1>2. ASSUME record'.token = NoToken \/ record'.token = record.token
        PROVE  record'.token # a
    BY <1>2
  <1>3. ASSUME NEW b \in Attempt, UnlockRmRecord(b)
        PROVE  record'.token = NoToken
    BY <1>3 DEF UnlockRmRecord, NoRecord
  <1>4. CASE PowerLoss \/ Legacy
    BY <1>2, <1>4 DEF PowerLoss, Legacy, LegacyMkdir, LegacyWrite, LegacyUnlock, UnknownRecord,
                      NoRecord, Record
  <1>5. CASE UNCHANGED record
    BY <1>5
  <1> QED
    BY <1>1, <1>2, <1>3, <1>4, <1>5
    DEF Next, LockCall, LockScript, RenewScript, UnlockScript, ScriptDies, Client, Tick,
        LockClaim, LockTimedOut, LockMkdir, LockTruncMarker, LockFillMarker, RenewEnter,
        RenewTouch, UnlockEnter, UnlockRmMarker, UnlockRmdir, LockDies, RenewDies, UnlockDies,
        LockReturns, LockCallFails, ValidateOk, ValidateFails, RenewCall, RenewOk, RenewFails,
        UnlockCall, UnlockReturns, ClientDies, SendUnlock, vars, fileVars

\* A renew script that outlives its client does not bring back a lease that the
\* client's unlock script has removed.
THEOREM NoResurrectionCorrect ==
    ASSUME Pausable = {}
    PROVE  Spec => NoResurrection
  <1>1. Init => UnlockInv
    BY DEF Init, UnlockInv
  <1>2. TypeOK /\ LockInv /\ UnlockInv /\ [Next]_vars => UnlockInv'
    BY UnlockInvNext
  <1>3. TypeOK /\ LockInv /\ UnlockInv /\ [Next]_vars =>
          [\A a \in Attempt :
              unlockPC[a] = "ok" /\ record.token # a => record'.token # a]_vars
    BY ResurrectionStep
  <1> QED
    BY <1>1, <1>2, <1>3, TypeCorrect, InvCorrect, PTL DEF Spec, NoResurrection

-----------------------------------------------------------------------------
\* No file is from the future and no lease runs longer than LeaseTTL from now.
DatesInv ==
    /\ record.mtime =< now /\ record.expires =< now + LeaseTTL
    /\ marker.mtime =< now

LEMMA DatesInvNext ==
    ASSUME TypeOK, LockInv, DatesInv, [Next]_vars
    PROVE  DatesInv'
  <1> USE ConstantsAssumption DEF TypeOK, DatesInv, Record, Marker
  <1>1. ASSUME NEW a \in Attempt, LockPublish(a) \/ RenewPublish(a)
        PROVE  DatesInv'
    BY <1>1 DEF LockPublish, RenewPublish, V2Record, LockInv, GuardInv
  <1>2. ASSUME NEW a \in Attempt, LockTruncMarker(a) \/ LockFillMarker(a) \/ RenewTouch(a)
        PROVE  DatesInv'
    BY <1>2 DEF LockTruncMarker, LockFillMarker, RenewTouch, TornMarker, V2Marker
  <1>3. ASSUME NEW a \in Attempt, UnlockRmRecord(a) \/ UnlockRmMarker(a)
        PROVE  DatesInv'
    BY <1>3 DEF UnlockRmRecord, UnlockRmMarker, NoRecord, NoMarker
  <1>4. CASE PowerLoss \/ Legacy
    BY <1>4 DEF PowerLoss, Legacy, LegacyMkdir, LegacyWrite, LegacyUnlock, UnknownRecord,
                NoRecord
  <1>5. CASE Tick
    BY <1>5 DEF Tick, fileVars
  <1>6. CASE UNCHANGED <<now, record, marker>>
    BY <1>6
  <1> HIDE DEF DatesInv, Record, Marker
  <1> QED
    BY <1>1, <1>2, <1>3, <1>4, <1>5, <1>6
    DEF Next, LockCall, LockScript, RenewScript, UnlockScript, ScriptDies, Client,
        LockClaim, LockTimedOut, LockMkdir, RenewEnter, UnlockEnter, UnlockRmdir,
        LockDies, RenewDies, UnlockDies, LockReturns, LockCallFails, ValidateOk,
        ValidateFails, RenewCall, RenewOk, RenewFails, UnlockCall, UnlockReturns,
        ClientDies, SendUnlock, vars, fileVars

\* What lies on the host without an owner to tell by: a directory without a
\* marker is an old client's, or a script is at work on it or died over it; and
\* once one died over it nothing touches it any more.
OwnerInv ==
    /\ record.kind = "none" /\ lockDir = "present" /\ marker.kind # "v2"
          => legacy # "out" \/ MarkerInWork \/ DiedUnmarked
    /\ DiedUnmarked => /\ record.kind = "none" /\ lockDir = "present"
                       /\ marker.kind # "v2"
                       /\ legacy = "out" /\ guard = Free
    /\ record.kind = "unknown" => legacy # "out" \/ powerLosses > 0

LEMMA OwnerInvScripts ==
    ASSUME TypeOK, LockInv, OwnerInv, NEW a \in Attempt,
           LockScript(a) \/ RenewScript(a) \/ UnlockScript(a)
    PROVE  OwnerInv'
  <1> USE DEF TypeOK, Record, Marker, LockInv, GuardInv, FileInv, OwnerInv, MarkerInWork,
              DiedUnmarked, Claiming, Renewing, Unlocking, ValidPair, LockPCs, UnlockPCs,
              fileVars, Free
  <1>1. CASE LockClaim(a)
    BY <1>1 DEF LockClaim, MayClaim, GuardOf
  <1>2. CASE LockTimedOut(a)
    BY <1>2 DEF LockTimedOut, LockEnds
  <1>3. CASE LockMkdir(a)
    BY <1>3 DEF LockMkdir, LockEnds
  <1>4. CASE LockTruncMarker(a)
    BY <1>4 DEF LockTruncMarker, TornMarker
  <1>5. CASE LockFillMarker(a)
    BY <1>5 DEF LockFillMarker, V2Marker
  <1>6. CASE LockPublish(a)
    BY <1>6 DEF LockPublish, LockEnds, V2Record
  <1>7. CASE RenewEnter(a)
    BY <1>7 DEF RenewEnter, GuardOf
  <1>8. CASE RenewPublish(a)
    BY <1>8 DEF RenewPublish, V2Record
  <1>9. CASE RenewTouch(a)
    BY <1>9 DEF RenewTouch
  <1>10. CASE UnlockEnter(a)
    BY <1>10 DEF UnlockEnter, GuardOf
  <1>11. CASE UnlockRmRecord(a)
    BY <1>11 DEF UnlockRmRecord, NoRecord
  <1>12. CASE UnlockRmMarker(a)
    BY <1>12 DEF UnlockRmMarker, NoMarker
  <1>13. CASE UnlockRmdir(a)
    BY <1>13 DEF UnlockRmdir
  <1> QED
    BY <1>1, <1>2, <1>3, <1>4, <1>5, <1>6, <1>7, <1>8, <1>9, <1>10, <1>11, <1>12, <1>13
    DEF LockScript, RenewScript, UnlockScript

\* The deaths: the lock or unlock script that leaves a directory without a marker
\* is the one that had the guard.
LEMMA OwnerInvDeaths ==
    ASSUME TypeOK, LockInv, OwnerInv,
           PowerLoss \/ \E a \in Attempt : ScriptDies(a)
    PROVE  OwnerInv'
  <1> USE DEF TypeOK, Record, Marker, LockInv, GuardInv, FileInv, OwnerInv, MarkerInWork,
              DiedUnmarked, Claiming, Renewing, Unlocking, ValidPair, LockPCs, UnlockPCs,
              fileVars, Free, LockDeath, UnlockDeath
  <1>1. ASSUME NEW a \in Attempt, LockDies(a) PROVE OwnerInv'
    BY <1>1 DEF LockDies, LockEnds, DropGuard
  <1>2. ASSUME NEW a \in Attempt, RenewDies(a) PROVE OwnerInv'
    BY <1>2 DEF RenewDies, DropGuard
  <1>3. ASSUME NEW a \in Attempt, UnlockDies(a) PROVE OwnerInv'
    BY <1>3 DEF UnlockDies, DropGuard
  <1>4. CASE PowerLoss
    BY <1>4 DEF PowerLoss, UnknownRecord
  <1> QED
    BY <1>1, <1>2, <1>3, <1>4 DEF ScriptDies

LEMMA OwnerInvOthers ==
    ASSUME TypeOK, LockInv, OwnerInv,
           \/ \E a \in Attempt : LockCall(a) \/ Client(a)
           \/ Legacy \/ Tick \/ UNCHANGED vars
    PROVE  OwnerInv'
  <1> USE DEF TypeOK, LockInv, ClientInv, OwnerInv, MarkerInWork, DiedUnmarked,
              fileVars, scriptVars, clientVars
  <1>1. ASSUME NEW a \in Attempt, LockCall(a) PROVE OwnerInv'
    BY <1>1 DEF LockCall
  <1>2. ASSUME NEW a \in Attempt, ValidateFails(a) \/ UnlockCall(a) PROVE OwnerInv'
    BY <1>2 DEF ValidateFails, UnlockCall, SendUnlock
  <1>3. CASE UNCHANGED <<fileVars, guard, lockPC, unlockPC, legacy, powerLosses>>
    BY <1>3
  <1>4. ASSUME NEW a \in Attempt, Client(a) PROVE OwnerInv'
    BY <1>2, <1>3, <1>4
    DEF Client, LockReturns, LockCallFails, ValidateOk, RenewCall, RenewOk, RenewFails,
        UnlockReturns, ClientDies
  <1>5. CASE Legacy
    BY <1>5 DEF Legacy, LegacyMkdir, LegacyWrite, LegacyUnlock, UnknownRecord, NoRecord
  <1> QED
    BY <1>1, <1>3, <1>4, <1>5 DEF Tick, vars

\* Whatever was interrupted, the next run gets the lock after one recovery grace
\* period at the latest, unless an old client works, a power loss made the record
\* unrecognisable, or a script died between mkdir and marker (or between marker
\* and rmdir): that directory is never taken over.
THEOREM RecoverableCorrect ==
    ASSUME Pausable = {}
    PROVE  Spec => []Recoverable
  <1>1. Init => DatesInv /\ OwnerInv
    BY ConstantsAssumption
    DEF Init, DatesInv, OwnerInv, DiedUnmarked, NoRecord, NoMarker
  <1>2. TypeOK /\ LockInv /\ DatesInv /\ [Next]_vars => DatesInv'
    BY DatesInvNext
  <1>3. TypeOK /\ LockInv /\ OwnerInv /\ [Next]_vars => OwnerInv'
    BY OwnerInvScripts, OwnerInvDeaths, OwnerInvOthers DEF Next
  <1>4. TypeOK /\ LockInv /\ DatesInv /\ OwnerInv => Recoverable
    BY ConstantsAssumption, LeaseAssumption
    DEF TypeOK, Record, Marker, LockInv, FileInv, DatesInv, OwnerInv, Recoverable, MayClaim,
        ValidPair
  <1> QED
    BY <1>1, <1>2, <1>3, <1>4, TypeCorrect, InvCorrect, PTL DEF Spec
=============================================================================
