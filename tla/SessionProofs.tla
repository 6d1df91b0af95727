--------------------------- MODULE SessionProofs ---------------------------
(***************************************************************************)
(* Proofs about one invocation of dbf, for any command line, any           *)
(* configuration, any host and any number of changes by others; and about  *)
(* the calls that it makes (RemoteCalls), for any number of workers and    *)
(* calls and any argument of next: the first authentication is alone, and  *)
(* the debugger makes no call that its user has not asked for.             *)
(***************************************************************************)
EXTENDS Session, RemoteCalls, TLAPS

\* Where the command has its lock, and where it executes a plan of its own.
UnderLock == {"locked", "review", "prepare", "execute", "unlock"}
Planned == {"review", "prepare", "execute"}

DataInv ==
    /\ call \in Invocations
    /\ host \in [Items -> Values] /\ fact \in Values /\ known \in Values \cup {Fact}
    /\ lock \in {"free", "self", "other", "left"}
    /\ result \in {"", "ok", "differs", "cancelled", "error"}

\* Which command can be where, and that its result is not known before its end.
PlaceInv ==
    /\ pc = "validate" => call.cmd = "validate"
    /\ pc \in {"parse", "offline"} /\ call.offline => call.cmd = "plan"
    /\ pc = "offline" => call.offline
    /\ pc = "facts" => call.cmd # "validate"
    /\ pc = "preview" => call.cmd \in {"plan", "apply"}
    /\ pc \in {"confirm"} \cup Planned => call.cmd = "apply"
    /\ pc \in {"lock", "locked"} => call.cmd \in {"check", "apply"}
    /\ pc = "report" \/ (pc = "unlock" /\ result = "") => call.cmd = "check"
    /\ pc \notin {"unlock", "close", "end"} => result = ""
    /\ pc \in {"preview", "confirm", "lock", "report"} \cup UnderLock => known \in Values

\* The lock is the command's from Lock to Unlock, whatever others do, and a lease
\* that stays behind is the one of a failed call whose error is returned.
LockInv ==
    /\ lock = "self" <=> pc \in UnderLock
    /\ lock = "left" => pc \in {"close", "end"} /\ result = "error"

\* A plan that is made under the lock is not torn.
TornInv == pc \in Planned \cup {"report"} \/ (pc = "unlock" /\ result = "") => ~torn

\* Only an apply that went on to execute has written anything.
SavedInv ==
    saved \/ todo # {} =>
        call.cmd = "apply" /\ pc \in {"execute", "unlock", "close", "end"} /\ result # "cancelled"

\* The plan that is about to be executed is the one on the screen, and the
\* user's answer was to it.
ApprovedInv ==
    /\ pc = "confirm" => screen = preview
    /\ pc \in {"lock", "locked"} /\ call.cmd = "apply" => preview \in approved \/ call.autoApprove
    /\ pc \in Planned => screen = actual
    /\ pc \in {"prepare", "execute"} => actual \in approved \/ call.autoApprove
    /\ pc = "execute" => todo \subseteq actual

\* The changes in a set of changes are what the program wants, and what is not
\* as it wants is among them.
Wanted(changes) == \A c \in changes : c.item \in Items /\ c.to = Want(c.item)
Covers(changes) == \A i \in Items : host[i] = Want(i) \/ \E c \in changes : c.item = i

\* Unless others interfered, what is left to do covers what is not as wanted.
WorkInv ==
    /\ pc \in Planned => Wanted(actual)
    /\ pc \in {"review", "prepare"} /\ ~moved => Covers(actual)
    /\ pc = "execute" /\ ~moved => Covers(todo)
    /\ call.cmd = "apply" /\ result = "ok" /\ ~moved => Covers({})

SessionInv ==
    /\ DataInv /\ PlaceInv /\ LockInv /\ TornInv /\ SavedInv /\ ApprovedInv /\ WorkInv

-----------------------------------------------------------------------------
(* Each part of the invariant is kept by every step.                       *)

USE DEF UnderLock, Planned, Returns, world, plans

LEMMA CallFact ==
    ASSUME call \in Invocations
    PROVE  /\ call.cmd \in {"validate", "plan", "check", "apply"}
           /\ call.want \in [Items -> Values \cup {Fact}]
  BY SessionAssumption

\* What an item should be is a value once the facts are known.
LEMMA WantFact ==
    ASSUME DataInv, known \in Values, NEW i \in Items
    PROVE  Want(i) \in Values
  BY CallFact DEF DataInv, Want

LEMMA SessionInit == Init => SessionInv
<1> SUFFICES ASSUME Init PROVE SessionInv
  OBVIOUS
<1>1. PICK h \in Hosts : host = h.items /\ fact = h.fact /\ lock = h.lock
  BY DEF Init
<1>2. DataInv /\ lock \notin {"self", "left"}
  BY <1>1, SessionAssumption DEF Init, DataInv
<1> QED
  BY <1>2 DEF Init, SessionInv, PlaceInv, LockInv, TornInv, SavedInv, ApprovedInv, WorkInv

LEMMA PlaceNext == SessionInv /\ [Next]_vars => PlaceInv'
<1> SUFFICES ASSUME SessionInv, [Next]_vars PROVE PlaceInv'
  OBVIOUS
<1> USE CallFact DEF SessionInv, DataInv, PlaceInv
<1>1. CASE CheckFlags \/ Parse \/ Validate \/ Offline
  BY <1>1 DEF CheckFlags, Parse, Validate, Offline, FlagError
<1>2. CASE DiscoverFacts \/ DiscoverFactsFails \/ Preview \/ PlanFails \/ Confirm
  BY <1>2 DEF DiscoverFacts, DiscoverFactsFails, Preview, PlanFails, Confirm
<1>3. CASE Lock \/ LockFails \/ CheckPlan \/ CheckReport \/ Replan \/ Prepare
  BY <1>3 DEF Lock, LockFails, CheckPlan, CheckReport, Replan, Prepare
<1>4. CASE Execute \/ ExecuteEnds \/ ExecuteFails \/ Unlock \/ Close
  BY <1>4 DEF Execute, ExecuteEnds, ExecuteFails, Unlock, Close
<1>5. CASE Others \/ LeaseExpires \/ Ended \/ UNCHANGED vars
  BY <1>5 DEF Others, OtherLocks, OtherWrites, OtherUnlocks, LeaseExpires, Ended, vars
<1> QED
  BY <1>1, <1>2, <1>3, <1>4, <1>5 DEF Next, Steps

LEMMA LockNext == SessionInv /\ [Next]_vars => LockInv'
<1> SUFFICES ASSUME SessionInv, [Next]_vars PROVE LockInv'
  OBVIOUS
<1> USE CallFact DEF SessionInv, DataInv, PlaceInv, LockInv
<1>1. CASE CheckFlags \/ Parse \/ Validate \/ Offline
  BY <1>1 DEF CheckFlags, Parse, Validate, Offline
<1>2. CASE DiscoverFacts \/ DiscoverFactsFails \/ Preview \/ PlanFails \/ Confirm
  BY <1>2 DEF DiscoverFacts, DiscoverFactsFails, Preview, PlanFails, Confirm
<1>3. CASE Lock \/ LockFails \/ CheckPlan \/ CheckReport \/ Replan \/ Prepare
  BY <1>3 DEF Lock, LockFails, CheckPlan, CheckReport, Replan, Prepare
<1>4. CASE Execute \/ ExecuteEnds \/ ExecuteFails \/ Unlock \/ Close
  BY <1>4 DEF Execute, ExecuteEnds, ExecuteFails, Unlock, Close
<1>5. CASE Others \/ LeaseExpires \/ Ended \/ UNCHANGED vars
  BY <1>5 DEF Others, OtherLocks, OtherWrites, OtherUnlocks, LeaseExpires, Ended, vars
<1> QED
  BY <1>1, <1>2, <1>3, <1>4, <1>5 DEF Next, Steps

LEMMA TornNext == SessionInv /\ [Next]_vars => TornInv'
<1> SUFFICES ASSUME SessionInv, [Next]_vars PROVE TornInv'
  OBVIOUS
<1> USE CallFact DEF SessionInv, DataInv, PlaceInv, LockInv, TornInv
<1>1. CASE CheckFlags \/ Parse \/ Validate \/ Offline
  BY <1>1 DEF CheckFlags, Parse, Validate, Offline
<1>2. CASE DiscoverFacts \/ DiscoverFactsFails \/ Preview \/ PlanFails \/ Confirm
  BY <1>2 DEF DiscoverFacts, DiscoverFactsFails, Preview, PlanFails, Confirm
<1>3. CASE Lock \/ LockFails \/ CheckPlan \/ CheckReport \/ Replan \/ Prepare
  BY <1>3 DEF Lock, LockFails, CheckPlan, CheckReport, Replan, Prepare
<1>4. CASE Execute \/ ExecuteEnds \/ ExecuteFails \/ Unlock \/ Close
  BY <1>4 DEF Execute, ExecuteEnds, ExecuteFails, Unlock, Close
<1>5. CASE Others \/ LeaseExpires \/ Ended \/ UNCHANGED vars
  BY <1>5 DEF Others, OtherLocks, OtherWrites, OtherUnlocks, LeaseExpires, Ended, vars
<1> QED
  BY <1>1, <1>2, <1>3, <1>4, <1>5 DEF Next, Steps

LEMMA SavedNext == SessionInv /\ [Next]_vars => SavedInv'
<1> SUFFICES ASSUME SessionInv, [Next]_vars PROVE SavedInv'
  OBVIOUS
<1> USE CallFact DEF SessionInv, DataInv, PlaceInv, SavedInv
<1>1. CASE CheckFlags \/ Parse \/ Validate \/ Offline
  BY <1>1 DEF CheckFlags, Parse, Validate, Offline
<1>2. CASE DiscoverFacts \/ DiscoverFactsFails \/ Preview \/ PlanFails \/ Confirm
  BY <1>2 DEF DiscoverFacts, DiscoverFactsFails, Preview, PlanFails, Confirm
<1>3. CASE Lock \/ LockFails \/ CheckPlan \/ CheckReport \/ Replan \/ Prepare
  BY <1>3 DEF Lock, LockFails, CheckPlan, CheckReport, Replan, Prepare
<1>4. CASE Execute \/ ExecuteEnds \/ ExecuteFails \/ Unlock \/ Close
  BY <1>4 DEF Execute, ExecuteEnds, ExecuteFails, Unlock, Close
<1>5. CASE Others \/ LeaseExpires \/ Ended \/ UNCHANGED vars
  BY <1>5 DEF Others, OtherLocks, OtherWrites, OtherUnlocks, LeaseExpires, Ended, vars
<1> QED
  BY <1>1, <1>2, <1>3, <1>4, <1>5 DEF Next, Steps

LEMMA ApprovedNext == SessionInv /\ [Next]_vars => ApprovedInv'
<1> SUFFICES ASSUME SessionInv, [Next]_vars PROVE ApprovedInv'
  OBVIOUS
<1> USE CallFact DEF SessionInv, DataInv, PlaceInv, ApprovedInv
<1>1. CASE CheckFlags \/ Parse \/ Validate \/ Offline
  BY <1>1 DEF CheckFlags, Parse, Validate, Offline
<1>2. CASE DiscoverFacts \/ DiscoverFactsFails \/ Preview \/ PlanFails \/ Confirm
  BY <1>2 DEF DiscoverFacts, DiscoverFactsFails, Preview, PlanFails, Confirm
<1>3. CASE Lock \/ LockFails \/ CheckPlan \/ CheckReport \/ Replan \/ Prepare
  BY <1>3 DEF Lock, LockFails, CheckPlan, CheckReport, Replan, Prepare, SameApprovedPlan
<1>4. CASE Execute \/ ExecuteEnds \/ ExecuteFails \/ Unlock \/ Close
  BY <1>4 DEF Execute, ExecuteEnds, ExecuteFails, Unlock, Close
<1>5. CASE Others \/ LeaseExpires \/ Ended \/ UNCHANGED vars
  BY <1>5 DEF Others, OtherLocks, OtherWrites, OtherUnlocks, LeaseExpires, Ended, vars
<1> QED
  BY <1>1, <1>2, <1>3, <1>4, <1>5 DEF Next, Steps

\* A change that is left to do, and what it writes.
LEMMA ChangeFact ==
    ASSUME SessionInv, pc = "execute", NEW c \in todo
    PROVE  c.item \in Items /\ c.to = Want(c.item) /\ c.to \in Values
<1>1. c.item \in Items /\ c.to = Want(c.item)
  BY DEF SessionInv, ApprovedInv, WorkInv, Wanted
<1>2. known \in Values
  BY DEF SessionInv, PlaceInv
<1> QED
  BY <1>1, <1>2, WantFact DEF SessionInv

LEMMA DataNext == SessionInv /\ [Next]_vars => DataInv'
<1> SUFFICES ASSUME SessionInv, [Next]_vars PROVE DataInv'
  OBVIOUS
<1> USE CallFact DEF SessionInv, DataInv, PlaceInv
<1>1. CASE CheckFlags \/ Parse \/ Validate \/ Offline
  BY <1>1 DEF CheckFlags, Parse, Validate, Offline
<1>2. CASE DiscoverFacts \/ DiscoverFactsFails \/ Preview \/ PlanFails \/ Confirm
  BY <1>2 DEF DiscoverFacts, DiscoverFactsFails, Preview, PlanFails, Confirm
<1>3. CASE Lock \/ LockFails \/ CheckPlan \/ CheckReport \/ Replan \/ Prepare
  BY <1>3 DEF Lock, LockFails, CheckPlan, CheckReport, Replan, Prepare
<1>4. CASE Execute
  BY <1>4, ChangeFact DEF Execute
<1>5. CASE ExecuteEnds \/ ExecuteFails \/ Unlock \/ Close
  BY <1>5 DEF ExecuteEnds, ExecuteFails, Unlock, Close
<1>6. CASE Others \/ LeaseExpires \/ Ended \/ UNCHANGED vars
  BY <1>6 DEF Others, OtherLocks, OtherWrites, OtherUnlocks, LeaseExpires, Ended, vars
<1> QED
  BY <1>1, <1>2, <1>3, <1>4, <1>5, <1>6 DEF Next, Steps

\* A plan wants what the program wants and covers what is not so.
LEMMA PlanFact == Wanted(PlanNow) /\ Covers(PlanNow)
<1>1. Wanted(PlanNow)
  BY DEF Wanted, PlanNow
<1>2. ASSUME NEW i \in Items, host[i] # Want(i) PROVE \E c \in PlanNow : c.item = i
  <2>1. [item |-> i, from |-> host[i], to |-> Want(i)] \in PlanNow
    BY <1>2 DEF PlanNow
  <2> QED
    BY <2>1
<1> QED
  BY <1>1, <1>2 DEF Covers

LEMMA WorkNext == SessionInv /\ [Next]_vars => WorkInv'
<1> SUFFICES ASSUME SessionInv, [Next]_vars PROVE WorkInv'
  OBVIOUS
<1>0. /\ PlaceInv /\ WorkInv /\ DataInv /\ ApprovedInv
      /\ call.cmd \in {"validate", "plan", "check", "apply"}
  BY CallFact DEF SessionInv, DataInv
<1>1. CASE CheckFlags \/ Parse \/ Validate \/ Offline
  BY <1>0, <1>1 DEF CheckFlags, Parse, Validate, Offline, PlaceInv, WorkInv
<1>2. CASE DiscoverFacts \/ DiscoverFactsFails
  BY <1>0, <1>2 DEF DiscoverFacts, DiscoverFactsFails, PlaceInv, WorkInv
<1>3. CASE Preview
  <2>1. PlanNow = {} => Covers({})
    BY PlanFact
  <2>2. Covers({})' <=> Covers({})
    BY <1>3 DEF Preview, Covers, Want
  <2> QED
    BY <1>0, <1>3, <2>1, <2>2 DEF Preview, HasActions, PlaceInv, WorkInv
<1>4. CASE Replan
  <2>1. /\ Wanted(actual)' <=> Wanted(PlanNow)
        /\ Covers(actual)' <=> Covers(PlanNow)
    BY <1>4 DEF Replan, Wanted, Covers, Want
  <2> QED
    BY <1>0, <1>4, <2>1, PlanFact DEF Replan, PlaceInv, WorkInv
<1>5. CASE Execute
  <2>1. PICK c \in todo : host' = [host EXCEPT ![c.item] = c.to] /\ todo' = todo \ {c}
    BY <1>5 DEF Execute
  <2>2. /\ pc = "execute" /\ pc' = "execute" /\ result' = "" /\ actual' = actual /\ moved' = moved
        /\ call' = call /\ known' = known
    BY <1>5 DEF Execute
  <2>3. c.item \in Items /\ c.to = Want(c.item)
    BY <2>2, ChangeFact
  <2>4. Wanted(actual)'
    BY <1>0, <2>2 DEF WorkInv, Wanted, Want
  <2>5. ~moved => Covers(todo)'
    <3> SUFFICES ASSUME ~moved, NEW i \in Items, host'[i] # Want(i)'
                 PROVE  \E d \in todo' : d.item = i
      BY DEF Covers
    <3>1. Want(i)' = Want(i)
      BY <2>2 DEF Want
    <3>2. i # c.item /\ host'[i] = host[i]
      BY <1>0, <2>1, <2>3, <3>1 DEF DataInv
    <3>3. PICK d \in todo : d.item = i
      BY <1>0, <2>2, <3>1, <3>2 DEF WorkInv, Covers
    <3> QED
      BY <2>1, <3>2, <3>3
  <2> QED
    BY <2>2, <2>4, <2>5 DEF WorkInv
<1>6. CASE Prepare
  <2>1. /\ Wanted(actual)' <=> Wanted(actual)
        /\ Covers(todo)' <=> Covers(actual)
    BY <1>6 DEF Prepare, Wanted, Covers, Want
  <2> QED
    BY <1>0, <1>6, <2>1 DEF Prepare, WorkInv
<1>7. CASE PlanFails \/ Confirm \/ Lock \/ LockFails \/ CheckPlan \/ CheckReport \/ ExecuteEnds
             \/ ExecuteFails \/ Unlock \/ Close
  <2>1. /\ Wanted(actual)' <=> Wanted(actual)
        /\ Covers(actual)' <=> Covers(actual)
        /\ Covers(todo)' <=> Covers(todo)
        /\ Covers({})' <=> Covers({})
    BY <1>7 DEF PlanFails, Confirm, Lock, LockFails, CheckPlan, CheckReport, ExecuteEnds, ExecuteFails,
                Unlock, Close, Wanted, Covers, Want
  <2> QED
    BY <1>0, <1>7, <2>1 DEF PlanFails, Confirm, Lock, LockFails, CheckPlan, CheckReport, ExecuteEnds,
                            ExecuteFails, Unlock, Close, PlaceInv, WorkInv
<1>8. CASE OtherWrites
  <2>1. Wanted(actual)' <=> Wanted(actual)
    BY <1>8 DEF OtherWrites, Wanted, Want
  <2> QED
    BY <1>0, <1>8, <2>1 DEF OtherWrites, WorkInv
<1>9. CASE OtherLocks \/ OtherUnlocks \/ LeaseExpires \/ Ended \/ UNCHANGED vars
  BY <1>0, <1>9 DEF OtherLocks, OtherUnlocks, LeaseExpires, Ended, vars, WorkInv, Wanted, Covers, Want
<1> QED
  BY <1>1, <1>2, <1>3, <1>4, <1>5, <1>6, <1>7, <1>8, <1>9 DEF Next, Steps, Others

LEMMA SessionNext == SessionInv /\ [Next]_vars => SessionInv'
  BY DataNext, PlaceNext, LockNext, TornNext, SavedNext, ApprovedNext, WorkNext DEF SessionInv

-----------------------------------------------------------------------------
(* The theorems.                                                           *)

\* What check reports and apply executes was planned under the lock
\* (withHostLocks around Plan), whatever others do to the lock.
THEOREM ReadsNoTornHostCorrect == Spec => []ReadsNoTornHost
<1>1. SessionInv => ReadsNoTornHost
  BY DEF SessionInv, TornInv, ReadsNoTornHost
<1> QED
  BY SessionInit, SessionNext, <1>1, PTL DEF Spec

\* For every command line, configuration and host: the exit code of
\* runConfigWorkflow is true of the host, and the lock is given back, unless the
\* call that locks or unlocks failed: then the lease may stay until it expires,
\* and the command ends with an error.
THEOREM LastWordTrueCorrect == Spec => []LastWordTrue
<1>1. SessionInv => LastWordTrue
  BY DEF SessionInv, SavedInv, WorkInv, LockInv, Covers, LastWordTrue
<1> QED
  BY SessionInit, SessionNext, <1>1, PTL DEF Spec

\* For every command line, configuration and host: apply changes only what a
\* plan on the screen says that its user has approved (reviewExecutionPlan), or
\* was told to make unasked, and only under the lock.
THEOREM ExecutedWasApprovedCorrect == Spec => ExecutedWasApproved
<1>1. SessionInv /\ [Next]_vars =>
        [\A i \in Items : Execute /\ host'[i] # host[i] =>
           /\ call.cmd = "apply" /\ lock = "self"
           /\ screen = actual
           /\ actual \in approved \/ call.autoApprove
           /\ \E c \in actual : c.item = i /\ c.to = host'[i]]_vars
  <2> SUFFICES ASSUME SessionInv, NEW i \in Items, Execute, host'[i] # host[i]
               PROVE  /\ call.cmd = "apply" /\ lock = "self"
                      /\ screen = actual
                      /\ actual \in approved \/ call.autoApprove
                      /\ \E c \in actual : c.item = i /\ c.to = host'[i]
    OBVIOUS
  <2>1. PICK c \in todo : host' = [host EXCEPT ![c.item] = c.to]
    BY DEF Execute
  <2>2. pc = "execute" /\ c.item \in Items
    BY ChangeFact DEF Execute
  <2>3. c \in actual /\ c.item = i /\ c.to = host'[i]
    BY <2>1, <2>2 DEF SessionInv, DataInv, ApprovedInv
  <2> QED
    BY <2>2, <2>3 DEF SessionInv, PlaceInv, LockInv, ApprovedInv
<1> QED
  BY SessionInit, SessionNext, <1>1, PTL DEF Spec, ExecutedWasApproved
-----------------------------------------------------------------------------
(* The calls of the command and the goroutines that make them.             *)

Places == {"idle", "prompt", "acquire", "wait", "ssh", "failed"}

\* Until a host has been reached, whoever runs ssh has the slot.
SlotInv ==
    /\ at \in [Callers -> Places]
    /\ slot \in [by : Callers \cup {NoCaller}, succeeded : BOOLEAN]
    /\ ~slot.succeeded => \A c \in Callers : at[c] = "ssh" => slot.by = c

\* The worker that --debug leaves.
Worker == CHOOSE w \in Workers : TRUE

\* An ordinary call that was let through and has not started its ssh process.
Due(c) == kind[c] = "ordinary" /\ at[c] \in {"acquire", "wait"}

\* What the debugger may still let through on its own.
Allowed == (IF session.cancelled THEN 0 ELSE session.nextRemaining) + (IF Due(Worker) THEN 1 ELSE 0)

Sessions == [continueMode : BOOLEAN, nextRemaining : Nat, cancelled : BOOLEAN,
             lastExec : [all : BOOLEAN, count : Nat], diagnosing : BOOLEAN]
Asks == [calls : Int, all : BOOLEAN, retried : BOOLEAN]

DebugTypeOK ==
    /\ debug \in BOOLEAN
    /\ at \in [Callers -> Places]
    /\ kind \in [Callers -> {"ordinary", "cleanup", "maintenance"}]
    /\ session \in Sessions
    /\ asked \in Asks

\* Under --debug only the one worker makes ordinary calls; at the prompt nothing
\* is left of next and nobody said continue or quit; in the mode of continue all
\* calls are asked for unless quit came after it or a failed call is unanswered;
\* and the calls that were asked for suffice for what the debugger may still let
\* through.
DebugInv ==
    /\ DebugTypeOK
    /\ kind[Renewer] = "maintenance"
    /\ session.lastExec.all \/ session.lastExec.count > 0
    /\ debug =>
         /\ \A c \in Callers \ {Worker, Renewer} : at[c] = "idle"
         /\ at[Renewer] \notin {"prompt", "failed"}
         /\ at[Worker] = "prompt" =>
              ~session.cancelled /\ ~session.continueMode /\ session.nextRemaining = 0
         /\ at[Worker] \in {"prompt", "failed"} => kind[Worker] = "ordinary"
         /\ session.continueMode => session.nextRemaining = 0
         /\ session.continueMode =>
              asked.all \/ session.cancelled \/ at[Worker] = "failed" \/ session.diagnosing
         /\ session.diagnosing => at[Worker] \notin {"idle", "prompt", "failed"} /\ kind[Worker] = "ordinary"
         /\ asked.all => session.continueMode /\ asked.calls >= 0
         /\ session.cancelled => (at[Worker] = "idle" \/ kind[Worker] # "ordinary")
         /\ ~asked.all => asked.calls >= Allowed
    /\ ~debug => \A c \in Callers : at[c] \notin {"prompt", "failed"}

-----------------------------------------------------------------------------
(* The first authentication.                                               *)

\* A step of one caller that runs no ssh and leaves the slot alone keeps the
\* slot's invariant.
LEMMA QuietStep ==
    ASSUME SlotInv, NEW c \in Callers, NEW place \in Places \ {"ssh"},
           at' = [at EXCEPT ![c] = place], slot' = slot
    PROVE  SlotInv'
  BY DEF SlotInv, Places

LEMMA SlotInit == CallInit => SlotInv
  BY CallersAssumption DEF CallInit, SlotInv, Places, Callers

LEMMA SlotStep == SlotInv /\ [CallNext]_callVars => SlotInv'
<1> SUFFICES ASSUME SlotInv, [CallNext]_callVars
             PROVE  SlotInv'
    OBVIOUS
<1>1. CASE UNCHANGED callVars
  BY <1>1 DEF callVars, SlotInv
<1>2. CASE ContextEnds
  BY <1>2 DEF ContextEnds, SlotInv
<1>3. ASSUME NEW c \in Callers, StartUnattended(c) PROVE SlotInv'
  BY <1>3, QuietStep DEF StartUnattended, Goto, Places
<1>4. ASSUME NEW c \in Callers, Refused(c) PROVE SlotInv'
  BY <1>4 DEF Refused, StartsDebugged, SlotInv
<1>5. ASSUME NEW c \in Callers, Pass(c) \/ Prompt(c) PROVE SlotInv'
  BY <1>5, QuietStep DEF Pass, Prompt, StartsDebugged, Goto, Places
<1>6. ASSUME NEW c \in Callers, AcquireFree(c) PROVE SlotInv'
  BY <1>6 DEF AcquireFree, Ssh, SlotInv, Places
<1>7. ASSUME NEW c \in Callers, AcquireSlot(c) PROVE SlotInv'
  <2>1. \A d \in Callers : at[d] # "ssh"
    BY <1>7, CallersAssumption DEF AcquireSlot, SlotInv, Callers
  <2> QED
    BY <1>7, <2>1 DEF AcquireSlot, Ssh, SlotInv, Places
<1>8. ASSUME NEW c \in Callers, AcquireWait(c) \/ Wake(c) PROVE SlotInv'
  BY <1>8, QuietStep DEF AcquireWait, Wake, Goto, Places
<1>9. ASSUME NEW c \in Callers, WaitCancelled(c) PROVE SlotInv'
  <2>1. After(c, FALSE) \in Places \ {"ssh"}
    BY DEF After, Places
  <2> QED
    BY <1>9, <2>1, QuietStep DEF WaitCancelled, Goto
<1>10. ASSUME NEW c \in Callers, SshEnds(c) PROVE SlotInv'
  <2>1. PICK outcome \in {"ok", "remote error", "not reached"} :
          /\ IF slot.by = c THEN Release(outcome # "not reached") ELSE UNCHANGED <<slot, waits>>
          /\ Goto(c, After(c, outcome = "ok"))
    BY <1>10 DEF SshEnds
  <2>2. After(c, outcome = "ok") \in Places \ {"ssh"}
    BY DEF After, Places
  <2>3. CASE slot.by = c
    <3>1. slot' = [by |-> NoCaller, succeeded |-> slot.succeeded \/ outcome # "not reached"]
      BY <2>1, <2>3 DEF Release
    <3>2. ~slot.succeeded => \A d \in Callers : d # c => at[d] # "ssh"
      BY <2>3 DEF SlotInv
    <3> QED
      BY <2>1, <2>2, <3>1, <3>2 DEF Goto, SlotInv, Places
  <2>4. CASE slot.by # c
    BY <2>1, <2>2, <2>4, QuietStep DEF Goto
  <2> QED
    BY <2>3, <2>4
<1>11. ASSUME NEW c \in Callers, UserSteps(c) PROVE SlotInv'
  BY <1>11, QuietStep
     DEF UserSteps, CommandStep, CommandNext, NextN, CommandContinue, EmptyLine, CommandQuit, FailedRetry,
         FailedContinue, FailedRun, FailedQuit, AtPrompt, AtFailed, Goto, Places
<1> QED
  BY <1>1, <1>2, <1>3, <1>4, <1>5, <1>6, <1>7, <1>8, <1>9, <1>10, <1>11 DEF CallNext, CallSteps

LEMMA SlotAlone == SlotInv => FirstAuthAlone
  BY DEF SlotInv, FirstAuthAlone

\* For any number of workers and calls: until a call has reached a host, one
\* ssh process at most is at work (acquireInitialAuthSlot).
THEOREM FirstAuthAloneCorrect == CallSpec => []FirstAuthAlone
  BY SlotInit, SlotStep, SlotAlone, PTL DEF CallSpec

-----------------------------------------------------------------------------
(* The debugger.                                                           *)

LEMMA WorkerFact ==
    Worker \in Workers /\ Worker \in Callers /\ Renewer \in Callers /\ Worker # Renewer
  BY CallersAssumption DEF Worker, Callers

\* Who is active: under --debug the worker and the renewer.
LEMMA ActiveFact == Active = IF debug THEN {Worker, Renewer} ELSE Callers
  BY DEF Active, Worker

\* Only the worker under --debug is ever at a prompt, with an ordinary call.
LEMMA PromptFact ==
    ASSUME DebugInv, NEW c \in Callers, at[c] \in {"prompt", "failed"}
    PROVE  debug /\ c = Worker /\ kind[c] = "ordinary"
  BY WorkerFact DEF DebugInv, DebugTypeOK, Places

\* What the user asks for has its type.
LEMMA AsksExcept ==
    ASSUME NEW a \in Asks, NEW n \in Int
    PROVE  /\ [a EXCEPT !.calls = n, !.retried = TRUE] \in Asks
           /\ [a EXCEPT !.calls = n, !.all = FALSE] \in Asks
           /\ [a EXCEPT !.calls = n, !.all = FALSE, !.retried = FALSE] \in Asks
           /\ [a EXCEPT !.calls = n, !.all = TRUE, !.retried = FALSE] \in Asks
           /\ [a EXCEPT !.all = FALSE] \in Asks
           /\ \A b \in BOOLEAN : /\ [a EXCEPT !.calls = n, !.all = b] \in Asks
                                /\ [a EXCEPT !.calls = n, !.all = b, !.retried = TRUE] \in Asks
  BY DEF Asks

LEMMA AsksFact ==
    ASSUME asked \in Asks
    PROVE  /\ \A n \in Int : AskedFor(n) \in Asks
           /\ AskedForAll \in Asks
           /\ AskedForNone \in Asks
<1>1. 0 \in Int
  OBVIOUS
<1> QED
  BY <1>1, AsksExcept, Zenon DEF AskedFor, AskedForAll, AskedForNone

\* What the actions write into the session keeps its type.
LEMMA SessionsFact ==
    ASSUME NEW s \in Sessions, NEW n \in Nat, NEW m \in Nat, NEW b \in BOOLEAN
    PROVE  /\ [s EXCEPT !.lastExec = [all |-> FALSE, count |-> n]] \in Sessions
           /\ [s EXCEPT !.lastExec = [all |-> FALSE, count |-> n], !.nextRemaining = m] \in Sessions
           /\ [s EXCEPT !.lastExec = [all |-> TRUE, count |-> n], !.continueMode = TRUE] \in Sessions
           /\ [s EXCEPT !.cancelled = b] \in Sessions
           /\ [s EXCEPT !.diagnosing = b] \in Sessions
  BY DEF Sessions

\* A caller goes elsewhere and writes the two records.
LEMMA TypeKept ==
    ASSUME DebugTypeOK, NEW c \in Callers, NEW place \in Places, at' = [at EXCEPT ![c] = place],
           session' \in Sessions, asked' \in Asks, UNCHANGED <<debug, kind>>
    PROVE  DebugTypeOK'
  BY DEF DebugTypeOK

LEMMA DebugInit == CallInit => DebugInv
  BY WorkerFact, CallersAssumption
     DEF CallInit, DebugInv, DebugTypeOK, Sessions, Asks, Allowed, Due, Places, Callers

\* The steps of the user and the cancelled wait keep the types.
LEMMA UserTypes ==
    ASSUME DebugTypeOK, NEW c \in Callers
    PROVE  /\ CommandStep(c) => DebugTypeOK'
           /\ \A n \in Nat \ {0} : AtPrompt(c) /\ NextN(c, n) => DebugTypeOK'
           /\ CommandContinue(c) => DebugTypeOK'
           /\ CommandQuit(c) => DebugTypeOK'
           /\ WaitCancelled(c) => DebugTypeOK'
           /\ FailedRetry(c) => DebugTypeOK'
           /\ FailedContinue(c) => DebugTypeOK'
           /\ FailedRun(c) => DebugTypeOK'
           /\ FailedQuit(c) => DebugTypeOK'
<1>0. /\ session \in Sessions /\ asked \in Asks
      /\ "idle" \in Places /\ "acquire" \in Places /\ "failed" \in Places
      /\ asked.calls \in Int /\ asked.all \in BOOLEAN
  BY DEF DebugTypeOK, Places, Asks
<1>1. ASSUME CommandStep(c) PROVE DebugTypeOK'
  <2>1. session' \in Sessions
    BY <1>0, <1>1, SessionsFact DEF CommandStep
  <2>2. asked' \in Asks
    <3>1. 1 \in Int
      OBVIOUS
    <3> QED
      BY <1>0, <1>1, <3>1, AsksFact, Zenon DEF CommandStep
  <2> QED
    BY TypeKept, <1>0, <1>1, <2>1, <2>2 DEF CommandStep, AtPrompt, Goto
<1>2. ASSUME NEW n \in Nat \ {0}, AtPrompt(c), NextN(c, n) PROVE DebugTypeOK'
  <2>1. session' \in Sessions
    <3>1. n \in Nat /\ n - 1 \in Nat
      OBVIOUS
    <3> QED
      BY <1>0, <1>2, <3>1, SessionsFact DEF NextN
  <2>2. asked' \in Asks
    <3>1. n \in Int
      OBVIOUS
    <3> QED
      BY <1>0, <1>2, <3>1, AsksFact, Zenon DEF NextN
  <2> QED
    BY TypeKept, <1>0, <1>2, <2>1, <2>2 DEF NextN, AtPrompt, Goto
<1>3. ASSUME CommandContinue(c) PROVE DebugTypeOK'
  <2>1. session' \in Sessions
    BY <1>0, <1>3, SessionsFact DEF CommandContinue
  <2>2. asked' \in Asks
    BY <1>0, <1>3, AsksFact DEF CommandContinue
  <2> QED
    BY TypeKept, <1>0, <1>3, <2>1, <2>2 DEF CommandContinue, AtPrompt, Goto
<1>4. ASSUME CommandQuit(c) PROVE DebugTypeOK'
  <2>1. session' \in Sessions
    BY <1>0, <1>4, SessionsFact DEF CommandQuit
  <2>2. asked' \in Asks
    BY <1>0, <1>4, AsksFact DEF CommandQuit
  <2> QED
    BY TypeKept, <1>0, <1>4, <2>1, <2>2 DEF CommandQuit, AtPrompt, Goto
<1>5. ASSUME WaitCancelled(c) PROVE DebugTypeOK'
  <2>1. session' \in Sessions
    BY <1>0, <1>5, SessionsFact DEF WaitCancelled
  <2>2. asked' \in Asks
    <3>1. Counted(c) \in Asks
      BY <1>0 DEF Counted, Asks
    <3> QED
      BY <1>0, <1>5, <3>1, AsksExcept DEF WaitCancelled, Halted
  <2>3. After(c, FALSE) \in Places
    BY <1>0 DEF After
  <2> QED
    BY TypeKept, <1>5, <2>1, <2>2, <2>3 DEF WaitCancelled, Goto
<1>6. ASSUME FailedRetry(c) PROVE DebugTypeOK'
  <2>1. asked' \in Asks
    <3> DEFINE n == IF session.continueMode THEN 0 ELSE asked.calls + 1
    <3>1. n \in Int /\ session.continueMode \in BOOLEAN
      BY <1>0 DEF Sessions
    <3>2. asked' = [asked EXCEPT !.calls = n, !.all = session.continueMode, !.retried = TRUE]
      BY <1>6 DEF FailedRetry
    <3> QED
      BY <1>0, <3>1, <3>2, AsksExcept, Zenon
  <2> QED
    BY TypeKept, <1>0, <1>6, <2>1 DEF FailedRetry, AtFailed, Goto
<1>7. ASSUME FailedRun(c) PROVE DebugTypeOK'
  <2>1. session' \in Sessions
    BY <1>0, <1>7, SessionsFact DEF FailedRun
  <2>2. asked' \in Asks
    BY <1>0, <1>7 DEF FailedRun, Asks
  <2> QED
    BY TypeKept, <1>0, <1>7, <2>1, <2>2 DEF FailedRun, AtFailed, Goto
<1>8. ASSUME FailedQuit(c) PROVE DebugTypeOK'
  <2>1. session' \in Sessions
    BY <1>0, <1>8, SessionsFact DEF FailedQuit
  <2>2. asked' \in Asks
    BY <1>0, <1>8, AsksFact DEF FailedQuit
  <2> QED
    BY TypeKept, <1>0, <1>8, <2>1, <2>2 DEF FailedQuit, AtFailed, Goto
<1>9. ASSUME FailedContinue(c) PROVE DebugTypeOK'
  <2>1. session' \in Sessions
    BY <1>0, <1>9 DEF FailedContinue, Sessions
  <2>2. asked' \in Asks
    <3> DEFINE n == IF session.continueMode THEN 0 ELSE asked.calls
    <3>1. n \in Int /\ session.continueMode \in BOOLEAN
      BY <1>0 DEF Sessions
    <3>2. asked' = [asked EXCEPT !.calls = n, !.all = session.continueMode]
      BY <1>9 DEF FailedContinue
    <3> QED
      BY <1>0, <3>1, <3>2, AsksExcept, Zenon
  <2> QED
    BY TypeKept, <1>0, <1>9, <2>1, <2>2 DEF FailedContinue, AtFailed, Goto
<1> QED
  BY <1>1, <1>2, <1>3, <1>4, <1>5, <1>6, <1>7, <1>8, <1>9

\* At the prompt of a failed call with nothing left of next.
LEMMA NothingAllowed ==
    ASSUME session'.nextRemaining = 0, at'[Worker] = "failed"
    PROVE  Allowed' = 0
<1>1. ~Due(Worker)'
  BY DEF Due
<1> QED
  BY <1>1 DEF Allowed

\* A call of the worker fails under the debugger, and its prompt is next.
LEMMA FailedState ==
    ASSUME DebugInv, debug, ~session.cancelled, kind[Worker] = "ordinary", UNCHANGED <<debug, kind>>,
           at' = [at EXCEPT ![Worker] = "failed"], DebugTypeOK', ~session'.diagnosing,
           session'.cancelled = session.cancelled, session'.continueMode = session.continueMode,
           session'.nextRemaining = session.nextRemaining, session'.lastExec = session.lastExec,
           ~asked'.all, asked'.calls >= Allowed'
    PROVE  DebugInv'
<1> USE WorkerFact DEF DebugInv
<1>1. at \in [Callers -> Places] /\ Worker \in Callers /\ Renewer \in Callers /\ Worker # Renewer
  BY DEF DebugTypeOK, Callers
<1>2. at'[Worker] = "failed" /\ \A c \in Callers \ {Worker} : at'[c] = at[c]
  BY <1>1
<1>3. \A c \in Callers \ {Worker, Renewer} : at'[c] = "idle"
  BY <1>2
<1> QED
  BY <1>1, <1>2, <1>3, Zenon

LEMMA DebugStep == DebugInv /\ [CallNext]_callVars => DebugInv'
<1> SUFFICES ASSUME DebugInv, [CallNext]_callVars
             PROVE  DebugInv'
    OBVIOUS
<1> USE WorkerFact, ActiveFact DEF DebugInv, DebugTypeOK, Sessions, Asks, Allowed, Due, Places
<1>1. CASE UNCHANGED callVars
  BY <1>1 DEF callVars
<1>2. CASE ContextEnds
  BY <1>2 DEF ContextEnds
<1>3. ASSUME NEW c \in Callers, StartUnattended(c) PROVE DebugInv'
  BY <1>3 DEF StartUnattended, Goto
<1>4. ASSUME NEW c \in Callers, Refused(c) PROVE DebugInv'
  BY <1>4 DEF Refused, StartsDebugged
<1>5. ASSUME NEW c \in Callers, Pass(c) PROVE DebugInv'
  BY <1>5 DEF Pass, StartsDebugged, Goto
<1>6. ASSUME NEW c \in Callers, Prompt(c) PROVE DebugInv'
  BY <1>6 DEF Prompt, StartsDebugged, Goto
<1>7. ASSUME NEW c \in Callers, CommandStep(c) PROVE DebugInv'
  <2>1. debug /\ c = Worker /\ kind[c] = "ordinary"
    BY <1>7, PromptFact DEF AtPrompt, CommandStep
  <2>2. DebugTypeOK'
    BY <1>7, UserTypes
  <2>3. /\ session'.cancelled = session.cancelled /\ session'.continueMode = session.continueMode
        /\ session'.diagnosing = session.diagnosing /\ session'.nextRemaining = session.nextRemaining
        /\ session'.lastExec.count = 1 /\ ~asked'.all /\ asked'.calls = 1
    BY <1>7 DEF CommandStep, AtPrompt, AskedFor, Goto
  <2> QED
    BY <1>7, <2>1, <2>2, <2>3 DEF CommandStep, AtPrompt, Goto
<1>8. ASSUME NEW c \in Callers, AtPrompt(c), NEW n \in Nat \ {0}, NextN(c, n) PROVE DebugInv'
  <2>1. debug /\ c = Worker /\ kind[c] = "ordinary"
    BY <1>8, PromptFact DEF AtPrompt
  <2>2. DebugTypeOK'
    BY <1>8, UserTypes
  <2>3. /\ session'.cancelled = session.cancelled /\ session'.continueMode = session.continueMode
        /\ session'.diagnosing = session.diagnosing /\ session'.nextRemaining = n - 1 /\ session'.lastExec.count = n /\ ~asked'.all /\ asked'.calls = n
    BY <1>8 DEF AtPrompt, NextN, AskedFor, Goto
  <2> QED
    BY <1>8, <2>1, <2>2, <2>3 DEF AtPrompt, NextN, Goto
<1>9. ASSUME NEW c \in Callers, CommandContinue(c) PROVE DebugInv'
  <2>1. debug /\ c = Worker /\ kind[c] = "ordinary"
    BY <1>9, PromptFact DEF AtPrompt, CommandContinue
  <2>2. DebugTypeOK'
    BY <1>9, UserTypes
  <2>3. /\ session'.cancelled = session.cancelled /\ session'.lastExec.all /\ asked'.all
        /\ session'.continueMode /\ asked'.calls = 0 /\ session'.diagnosing = session.diagnosing
        /\ session'.nextRemaining = session.nextRemaining
    BY <1>9 DEF CommandContinue, AtPrompt, AskedForAll, Goto
  <2> QED
    BY <1>9, <2>1, <2>2, <2>3 DEF CommandContinue, AtPrompt, Goto
<1>10. ASSUME NEW c \in Callers, CommandNext(c) PROVE DebugInv'
  BY <1>10, <1>8, CallersAssumption DEF CommandNext
<1>11. ASSUME NEW c \in Callers, EmptyLine(c) PROVE DebugInv'
  <2>1. CASE session.lastExec.all
    BY <1>11, <2>1, <1>9 DEF EmptyLine
  <2>2. CASE ~session.lastExec.all
    <3>1. session.lastExec.count \in Nat \ {0}
      BY <2>2
    <3> QED
      BY <1>11, <2>2, <3>1, <1>8 DEF EmptyLine
  <2> QED
    BY <2>1, <2>2
<1>12. ASSUME NEW c \in Callers, CommandQuit(c) PROVE DebugInv'
  <2>1. debug /\ c = Worker /\ kind[c] = "ordinary"
    BY <1>12, PromptFact DEF AtPrompt, CommandQuit
  <2>2. DebugTypeOK'
    BY <1>12, UserTypes
  <2>3. /\ session'.nextRemaining = session.nextRemaining /\ session'.lastExec = session.lastExec
        /\ session'.continueMode = session.continueMode /\ ~asked'.all /\ asked'.calls = 0
        /\ session'.diagnosing = session.diagnosing
    BY <1>12 DEF CommandQuit, AtPrompt, AskedForNone, Goto
  <2> QED
    BY <1>12, <2>1, <2>2, <2>3 DEF CommandQuit, AtPrompt, Goto
<1>13. ASSUME NEW c \in Callers, AcquireFree(c) PROVE DebugInv'
  BY <1>13 DEF AcquireFree, Started, Counted, Ssh
<1>14. ASSUME NEW c \in Callers, AcquireSlot(c) PROVE DebugInv'
  BY <1>14 DEF AcquireSlot, Started, Counted, Ssh
<1>15. ASSUME NEW c \in Callers, AcquireWait(c) PROVE DebugInv'
  BY <1>15 DEF AcquireWait, Goto
<1>16. ASSUME NEW c \in Callers, Wake(c) PROVE DebugInv'
  BY <1>16 DEF Wake, Goto
<1>17. ASSUME NEW c \in Callers, WaitCancelled(c) PROVE DebugInv'
  <2>1. kind[c] = "ordinary" /\ at[c] = "wait" /\ (debug => c = Worker)
    BY <1>17 DEF WaitCancelled
  <2>2. at' = [at EXCEPT ![c] = IF debug THEN "failed" ELSE "idle"]
    BY <1>17, <2>1 DEF WaitCancelled, After, Goto
  <2>3. DebugTypeOK'
    BY <1>17, UserTypes
  <2>4. /\ session'.cancelled = session.cancelled /\ session'.continueMode = session.continueMode
        /\ session'.nextRemaining = session.nextRemaining /\ session'.lastExec = session.lastExec
        /\ ~session'.diagnosing
    BY <1>17 DEF WaitCancelled
  <2>5. debug => /\ ~asked'.all
                 /\ asked'.calls = IF asked.all THEN asked.calls ELSE asked.calls - 1
    BY <1>17, <2>1 DEF WaitCancelled, Counted, Halted
  <2>6. CASE debug
    <3>1. ~session.cancelled /\ c = Worker
      BY <2>1, <2>6
    <3>2. ~Due(Worker)' /\ asked'.calls >= Allowed'
      <4>1. CASE asked.all
        BY <2>1, <2>2, <2>3, <2>4, <2>5, <2>6, <3>1, <4>1
      <4>2. CASE ~asked.all
        BY <2>1, <2>2, <2>3, <2>4, <2>5, <2>6, <3>1, <4>2
      <4> QED
        BY <4>1, <4>2
    <3>3. UNCHANGED <<debug, kind>> /\ at' = [at EXCEPT ![Worker] = "failed"]
      BY <1>17, <2>2, <2>6, <3>1 DEF WaitCancelled
    <3> QED
      BY FailedState, <2>1, <2>3, <2>4, <2>5, <2>6, <3>1, <3>2, <3>3
  <2>7. CASE ~debug
    BY <1>17, <2>1, <2>2, <2>3, <2>4, <2>7 DEF WaitCancelled
  <2> QED
    BY <2>6, <2>7
<1>18. ASSUME NEW c \in Callers, SshEnds(c) PROVE DebugInv'
  <2>1. PICK outcome \in {"ok", "remote error", "not reached"} :
          Goto(c, After(c, outcome = "ok")) /\ asked' = Halted(c, outcome = "ok", asked)
    BY <1>18 DEF SshEnds
  <2>2. /\ at[c] = "ssh" /\ UNCHANGED <<debug, kind>> /\ session' \in Sessions
        /\ session'.cancelled = session.cancelled /\ session'.continueMode = session.continueMode
        /\ session'.nextRemaining = session.nextRemaining /\ session'.lastExec = session.lastExec
        /\ session'.diagnosing = IF kind[c] = "ordinary" THEN FALSE ELSE session.diagnosing
    BY <1>18 DEF SshEnds
  <2>3. debug => c \in {Worker, Renewer}
    BY <2>2
  <2>4. CASE debug /\ kind[c] = "ordinary" /\ (outcome # "ok" \/ session.diagnosing)
    <3>1. /\ at' = [at EXCEPT ![c] = "failed"] /\ c = Worker
          /\ asked' \in Asks /\ ~asked'.all /\ asked'.calls = asked.calls
      BY <2>1, <2>3, <2>4 DEF After, Halted, Goto
    <3>2. ~session.cancelled
      BY <2>2, <2>4, <3>1
    <3>3. asked'.calls >= Allowed'
      <4>1. CASE asked.all
        <5>1. session.nextRemaining = 0 /\ asked.calls >= 0
          BY <2>4, <4>1
        <5>2. at'[Worker] = "failed"
          BY <3>1
        <5>3. Allowed' = 0
          <6>1. session'.nextRemaining = 0
            BY <2>2, <5>1
          <6> QED
            BY <5>2, <6>1, NothingAllowed
        <5> QED
          BY <3>1, <5>1, <5>3
      <4>2. CASE ~asked.all
        BY <2>2, <2>4, <3>1, <3>2, <4>2
      <4> QED
        BY <4>1, <4>2
    <3>4. DebugTypeOK'
      BY <2>2, <3>1
    <3> QED
      BY FailedState, <2>2, <2>4, <3>1, <3>2, <3>3, <3>4
  <2>5. CASE ~(debug /\ kind[c] = "ordinary" /\ (outcome # "ok" \/ session.diagnosing))
    <3>1. at' = [at EXCEPT ![c] = "idle"] /\ asked' = asked
      BY <2>1, <2>5 DEF After, Halted, Goto
    <3> QED
      BY <2>2, <2>3, <2>5, <3>1
  <2> QED
    BY <2>4, <2>5
<1>19. ASSUME NEW c \in Callers, FailedRetry(c) PROVE DebugInv'
  <2>1. debug /\ c = Worker /\ kind[c] = "ordinary"
    BY <1>19, PromptFact DEF AtFailed, FailedRetry
  <2>2. DebugTypeOK'
    BY <1>19, UserTypes
  <2>3. /\ session' = session /\ asked'.all = session.continueMode
        /\ asked'.calls = IF session.continueMode THEN 0 ELSE asked.calls + 1
    BY <1>19 DEF FailedRetry, AtFailed, Goto
  <2> QED
    BY <1>19, <2>1, <2>2, <2>3 DEF FailedRetry, AtFailed, Goto
<1>20. ASSUME NEW c \in Callers, FailedContinue(c) PROVE DebugInv'
  <2>1. debug /\ c = Worker /\ kind[c] = "ordinary"
    BY <1>20, PromptFact DEF AtFailed, FailedContinue
  <2>2. DebugTypeOK'
    BY <1>20, UserTypes
  <2>3. /\ session'.cancelled = session.cancelled /\ session'.continueMode = session.continueMode
        /\ session'.nextRemaining = session.nextRemaining /\ session'.lastExec.all
        /\ session'.diagnosing = session.diagnosing /\ asked'.all = session.continueMode
        /\ asked'.calls = IF session.continueMode THEN 0 ELSE asked.calls
    BY <1>20 DEF FailedContinue, AtFailed, Goto
  <2> QED
    BY <1>20, <2>1, <2>2, <2>3 DEF FailedContinue, AtFailed, Goto
<1>21. ASSUME NEW c \in Callers, FailedRun(c) PROVE DebugInv'
  <2>1. debug /\ c = Worker /\ kind[c] = "ordinary"
    BY <1>21, PromptFact DEF AtFailed, FailedRun
  <2>2. DebugTypeOK'
    BY <1>21, UserTypes
  <2>3. /\ session'.cancelled = session.cancelled /\ session'.continueMode = session.continueMode
        /\ session'.nextRemaining = session.nextRemaining /\ session'.lastExec = session.lastExec
        /\ session'.diagnosing /\ asked'.all = asked.all /\ asked'.calls = asked.calls + 1
    BY <1>21 DEF FailedRun, AtFailed, Goto
  <2> QED
    BY <1>21, <2>1, <2>2, <2>3 DEF FailedRun, AtFailed, Goto
<1>22. ASSUME NEW c \in Callers, FailedQuit(c) PROVE DebugInv'
  <2>1. debug /\ c = Worker /\ kind[c] = "ordinary"
    BY <1>22, PromptFact DEF AtFailed, FailedQuit
  <2>2. DebugTypeOK'
    BY <1>22, UserTypes
  <2>3. /\ session'.cancelled /\ session'.lastExec = session.lastExec /\ ~asked'.all /\ asked'.calls = 0
        /\ session'.continueMode = session.continueMode /\ session'.nextRemaining = session.nextRemaining
        /\ session'.diagnosing = session.diagnosing
    BY <1>22 DEF FailedQuit, AtFailed, AskedForNone, Goto
  <2> QED
    BY <1>22, <2>1, <2>2, <2>3 DEF FailedQuit, AtFailed, Goto
<1> QED
  BY <1>1, <1>2, <1>3, <1>4, <1>5, <1>6, <1>7, <1>9, <1>10, <1>11, <1>12, <1>13, <1>14, <1>15, <1>16,
     <1>17, <1>18, <1>19, <1>20, <1>21, <1>22 DEF CallNext, CallSteps, UserSteps

LEMMA AskedEnough == DebugInv => OnlyWhatWasAsked
  BY DEF DebugInv, DebugTypeOK, Sessions, Asks, Allowed, Due, OnlyWhatWasAsked

\* For any number of calls and any argument of next: under --debug no ordinary
\* call starts an ssh process that no command of the user covers (waitBeforeCall,
\* handleCommand, handleFailedCommand), where continue ends at a failed call, and
\* the mode of before is in force again once retry or continue has answered it.
THEOREM OnlyWhatWasAskedCorrect == CallSpec => []OnlyWhatWasAsked
  BY DebugInit, DebugStep, AskedEnough, PTL DEF CallSpec
=============================================================================
