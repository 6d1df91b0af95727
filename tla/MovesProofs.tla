---------------------------- MODULE MovesProofs ----------------------------
(***************************************************************************)
(* Proofs about Moves.  The first part is about chains of declarations:    *)
(* Hops satisfies its recursion, the last component of a chain is no       *)
(* source, every component of a chain has the same final target, and a     *)
(* declaration is deeper than the one that goes on where it ends.  The     *)
(* second part is about the loop that resolves the declarations one by     *)
(* one.                                                                    *)
(***************************************************************************)
EXTENDS Moves, FiniteSetTheorems, NaturalsInduction, WellFoundedInduction, TLAPS

(* A set of numbers with 0 and with the successor of each of its members is *)
(* Nat: the form of induction the proofs below use.                         *)
LEMMA SetInduction ==
    ASSUME NEW T \in SUBSET Nat, 0 \in T, \A n \in T : n + 1 \in T
    PROVE  T = Nat
<1> SUFFICES ASSUME T # Nat PROVE FALSE
    OBVIOUS
<1>1. IsWellFoundedOn(OpToRel(<, Nat), Nat)
    BY NatLessThanWellFounded
<1>2. PICK m \in Nat \ T : \A y \in Nat \ T : ~ (<<y, m>> \in OpToRel(<, Nat))
    BY <1>1, WFMin
<1>3. \A y \in Nat \ T : ~ (y < m)
    BY <1>2 DEF OpToRel
<1> QED
    BY <1>3

-----------------------------------------------------------------------------
(* Chains.                                                                 *)

(* The functions that satisfy the recursion of Hops up to m hops.           *)
HopsUpTo(D, m) ==
    {f \in [0..m -> [Component -> Component]] :
        /\ f[0] = [c \in Component |-> c]
        /\ \A k \in 1..m : f[k] = [c \in Component |-> Follow(D, f[k - 1][c])]}

(* The function Hops defines.                                               *)
IsHop(D, f) ==
    f = [k \in Nat |->
            IF k = 0 THEN [c \in Component |-> c]
            ELSE [c \in Component |-> Follow(D, f[k - 1][c])]]

(* The next component of a chain is a component.                            *)
LEMMA FollowType ==
    ASSUME NEW D \in SUBSET Declaration, NEW c \in Component
    PROVE  Follow(D, c) \in Component
BY DEF Follow, Sources, Declaration

(* There is one function of up to m hops, and longer ones extend it.        *)
LEMMA HopsUpToExists ==
    ASSUME NEW D \in SUBSET Declaration, NEW m \in Nat
    PROVE  HopsUpTo(D, m) # {}
<1> DEFINE T == {k \in Nat : HopsUpTo(D, k) # {}}
<1>1. 0 \in T
  <2> DEFINE f == [k \in 0..0 |-> [c \in Component |-> c]]
  <2>1. f \in HopsUpTo(D, 0)
      BY DEF HopsUpTo
  <2> QED
      BY <2>1
<1>2. ASSUME NEW n \in T PROVE n + 1 \in T
  <2>1. PICK g \in HopsUpTo(D, n) : TRUE
      OBVIOUS
  <2>2. /\ g \in [0..n -> [Component -> Component]]
        /\ g[0] = [c \in Component |-> c]
        /\ \A k \in 1..n : g[k] = [c \in Component |-> Follow(D, g[k - 1][c])]
      BY <2>1 DEF HopsUpTo
  <2> DEFINE last == [c \in Component |-> Follow(D, g[n][c])]
             f == [k \in 0..(n + 1) |-> IF k = n + 1 THEN last ELSE g[k]]
  <2>3. last \in [Component -> Component]
      BY <2>2, FollowType
  <2>4. f \in [0..(n + 1) -> [Component -> Component]]
    <3>1. \A k \in 0..(n + 1) : k # n + 1 => k \in 0..n
        OBVIOUS
    <3> HIDE DEF last
    <3> QED
        BY <2>2, <2>3, <3>1
  <2>5. f[0] = [c \in Component |-> c]
      BY <2>2
  <2>6. ASSUME NEW k \in 1..(n + 1)
        PROVE  f[k] = [c \in Component |-> Follow(D, f[k - 1][c])]
    <3>1. f[k - 1] = g[k - 1]
        OBVIOUS
    <3>2. CASE k = n + 1
      <4>1. f[k] = last /\ g[k - 1] = g[n]
          BY <3>2
      <4> QED
          BY <3>1, <4>1
    <3>3. CASE k # n + 1
      <4>1. k \in 1..n /\ f[k] = g[k]
          BY <3>3
      <4>2. g[k] = [c \in Component |-> Follow(D, g[k - 1][c])]
          BY <4>1, <2>2
      <4> QED
          BY <3>1, <4>1, <4>2
    <3> QED
        BY <3>2, <3>3
  <2>7. f \in HopsUpTo(D, n + 1)
    <3> HIDE DEF f
    <3> QED
        BY <2>4, <2>5, <2>6 DEF HopsUpTo
  <2> QED
      BY <2>7
<1>3. T = Nat
  <2> HIDE DEF T
  <2>1. T \in SUBSET Nat
      BY DEF T
  <2> QED
      BY <2>1, <1>1, <1>2, SetInduction
<1> QED
    BY <1>3

LEMMA HopsUpToAgree ==
    ASSUME NEW D \in SUBSET Declaration, NEW m \in Nat, NEW n \in Nat,
           NEW f \in HopsUpTo(D, m), NEW g \in HopsUpTo(D, n),
           NEW k \in 0..m, k \in 0..n
    PROVE  f[k] = g[k]
<1> DEFINE T == {i \in Nat : i \in 0..m /\ i \in 0..n => f[i] = g[i]}
<1>1. 0 \in T
    BY DEF HopsUpTo
<1>2. ASSUME NEW i \in T PROVE i + 1 \in T
  <2> SUFFICES ASSUME i + 1 \in 0..m, i + 1 \in 0..n PROVE f[i + 1] = g[i + 1]
      OBVIOUS
  <2>1. f[i] = g[i] /\ i + 1 \in 1..m /\ i + 1 \in 1..n /\ (i + 1) - 1 = i
      OBVIOUS
  <2>2. f[i + 1] = [c \in Component |-> Follow(D, f[(i + 1) - 1][c])]
      BY <2>1 DEF HopsUpTo
  <2>3. g[i + 1] = [c \in Component |-> Follow(D, g[(i + 1) - 1][c])]
      BY <2>1 DEF HopsUpTo
  <2> QED
      BY <2>1, <2>2, <2>3
<1>3. T = Nat
  <2> HIDE DEF T
  <2>1. T \in SUBSET Nat
      BY DEF T
  <2> QED
      BY <2>1, <1>1, <1>2, SetInduction
<1> QED
    BY <1>3

(* The recursion of Hops has a solution.                                    *)
LEMMA HopExists ==
    ASSUME NEW D \in SUBSET Declaration
    PROVE  \E f : IsHop(D, f)
<1> DEFINE upTo == [m \in Nat |-> CHOOSE f \in HopsUpTo(D, m) : TRUE]
           h == [m \in Nat |-> upTo[m][m]]
<1>1. \A m \in Nat : upTo[m] \in HopsUpTo(D, m)
    BY HopsUpToExists
<1> HIDE DEF upTo
<1>2. h[0] = [c \in Component |-> c]
    BY <1>1 DEF HopsUpTo
<1>3. ASSUME NEW k \in Nat, k # 0
      PROVE  h[k] = [c \in Component |-> Follow(D, h[k - 1][c])]
  <2>1. k - 1 \in Nat /\ k - 1 \in 0..(k - 1) /\ k - 1 \in 0..k /\ k \in 1..k
      BY <1>3
  <2>2. upTo[k - 1][k - 1] = upTo[k][k - 1]
      BY <2>1, <1>1, HopsUpToAgree
  <2>3. upTo[k][k] = [c \in Component |-> Follow(D, upTo[k][k - 1][c])]
      BY <2>1, <1>1 DEF HopsUpTo
  <2> QED
      BY <2>1, <2>2, <2>3
<1>4. \A k \in Nat : h[k] = IF k = 0 THEN [c \in Component |-> c]
                           ELSE [c \in Component |-> Follow(D, h[k - 1][c])]
    BY <1>2, <1>3
<1>5. h = [k \in Nat |-> h[k]]
    OBVIOUS
<1> HIDE DEF h
<1>6. h = [k \in Nat |-> IF k = 0 THEN [c \in Component |-> c]
                         ELSE [c \in Component |-> Follow(D, h[k - 1][c])]]
    BY <1>4, <1>5
<1> QED
    BY <1>6 DEF IsHop

LEMMA HopsIsHop ==
    ASSUME NEW D, \E f : IsHop(D, f)
    PROVE  \E f : IsHop(D, f) /\ \A m \in Nat : Hops(D, m) = f[m]
BY DEF Hops, IsHop

(* What Hops computes.                                                      *)
LEMMA HopsRecursion ==
    ASSUME NEW D \in SUBSET Declaration
    PROVE  /\ Hops(D, 0) = [c \in Component |-> c]
           /\ \A n \in Nat : Hops(D, n + 1) = [c \in Component |-> Follow(D, Hops(D, n)[c])]
<1>1. PICK f : IsHop(D, f) /\ \A m \in Nat : Hops(D, m) = f[m]
    BY HopExists, HopsIsHop
<1>2. f[0] = [c \in Component |-> c]
    BY <1>1 DEF IsHop
<1>3. ASSUME NEW n \in Nat
      PROVE  f[n + 1] = [c \in Component |-> Follow(D, f[n][c])]
  <2>1. n + 1 \in Nat /\ n + 1 # 0 /\ (n + 1) - 1 = n
      OBVIOUS
  <2>2. \A k \in Nat : f[k] = IF k = 0 THEN [c \in Component |-> c]
                              ELSE [c \in Component |-> Follow(D, f[k - 1][c])]
      BY <1>1 DEF IsHop
  <2> QED
      BY <2>1, <2>2
<1> QED
    BY <1>1, <1>2, <1>3

LEMMA HopsStep ==
    ASSUME NEW D \in SUBSET Declaration, NEW n \in Nat, NEW c \in Component
    PROVE  Hops(D, n + 1)[c] = Follow(D, Hops(D, n)[c])
<1>1. Hops(D, n + 1) = [e \in Component |-> Follow(D, Hops(D, n)[e])]
    BY HopsRecursion
<1> QED
    BY <1>1

LEMMA HopsType ==
    ASSUME NEW D \in SUBSET Declaration, NEW n \in Nat, NEW c \in Component
    PROVE  Hops(D, n)[c] \in Component
<1> DEFINE T == {k \in Nat : \A e \in Component : Hops(D, k)[e] \in Component}
<1>1. 0 \in T
    BY HopsRecursion
<1>2. ASSUME NEW k \in T PROVE k + 1 \in T
    BY HopsStep, FollowType
<1>3. T = Nat
  <2> HIDE DEF T
  <2>1. T \in SUBSET Nat
      BY DEF T
  <2> QED
      BY <2>1, <1>1, <1>2, SetInduction
<1> QED
    BY <1>3

(* The first hop may as well be taken first.                                *)
LEMMA HopsShift ==
    ASSUME NEW D \in SUBSET Declaration, NEW n \in Nat, NEW c \in Component
    PROVE  Hops(D, n + 1)[c] = Hops(D, n)[Follow(D, c)]
<1> DEFINE T == {k \in Nat : Hops(D, k + 1)[c] = Hops(D, k)[Follow(D, c)]}
<1>1. Follow(D, c) \in Component
    BY FollowType
<1>2. 0 \in T
  <2>1. Hops(D, 0 + 1)[c] = Follow(D, Hops(D, 0)[c])
      BY HopsStep
  <2> QED
      BY <1>1, <2>1, HopsRecursion
<1>3. ASSUME NEW k \in T PROVE k + 1 \in T
  <2>1. Hops(D, (k + 1) + 1)[c] = Follow(D, Hops(D, k + 1)[c])
    <3>1. k + 1 \in Nat
        OBVIOUS
    <3> QED
        BY <3>1, HopsStep
  <2>2. Hops(D, k + 1)[Follow(D, c)] = Follow(D, Hops(D, k)[Follow(D, c)])
      BY <1>1, HopsStep
  <2> QED
      BY <2>1, <2>2
<1>4. T = Nat
  <2> HIDE DEF T
  <2>1. T \in SUBSET Nat
      BY DEF T
  <2> QED
      BY <2>1, <1>2, <1>3, SetInduction
<1> QED
    BY <1>4

(* A chain that has ended goes no further.                                  *)
LEMMA HopsEnd ==
    ASSUME NEW D \in SUBSET Declaration, NEW n \in Nat, NEW c \in Component,
           Hops(D, n)[c] \notin Sources(D)
    PROVE  Hops(D, n + 1)[c] = Hops(D, n)[c]
BY HopsStep DEF Follow

Valid(D) == D \in SUBSET Declaration /\ IsFiniteSet(D) /\ ~Invalid(D)

(* Declarations that are accepted lead where they say, and a final target   *)
(* is not moved on.                                                         *)
LEMMA FollowDeclaration ==
    ASSUME NEW D, Valid(D), NEW d \in D
    PROVE  Follow(D, d.from) = d.to
BY DEF Valid, Invalid, Follow, Sources

LEMMA FinalTargetType ==
    ASSUME NEW D, Valid(D), NEW c \in Component
    PROVE  FinalTarget(D, c) \in Component
<1>1. Cardinality(D) \in Nat
    BY FS_CardinalityType DEF Valid
<1> QED
    BY <1>1, HopsType DEF Valid, FinalTarget

LEMMA FinalTargetOfNoSource ==
    ASSUME NEW D, Valid(D), NEW c \in Component, c \notin Sources(D)
    PROVE  FinalTarget(D, c) = c
<1>1. Cardinality(D) \in Nat /\ D \in SUBSET Declaration
    BY FS_CardinalityType DEF Valid
<1> DEFINE T == {k \in Nat : Hops(D, k)[c] = c}
<1>2. 0 \in T
    BY <1>1, HopsRecursion
<1>3. ASSUME NEW k \in T PROVE k + 1 \in T
    BY <1>1, HopsEnd
<1>4. T = Nat
  <2> HIDE DEF T
  <2>1. T \in SUBSET Nat
      BY DEF T
  <2> QED
      BY <2>1, <1>2, <1>3, SetInduction
<1> QED
    BY <1>1, <1>4 DEF FinalTarget

LEMMA FinalTargetIsNoSource ==
    ASSUME NEW D, Valid(D), NEW c \in Component
    PROVE  FinalTarget(D, c) \notin Sources(D)
<1>1. CASE c \in Sources(D)
    BY <1>1 DEF Valid, Invalid, FinalTarget
<1>2. CASE c \notin Sources(D)
    BY <1>2, FinalTargetOfNoSource
<1> QED
    BY <1>1, <1>2

LEMMA FinalTargetOfDeclaration ==
    ASSUME NEW D, Valid(D), NEW d \in D
    PROVE  FinalTarget(D, d.from) = FinalTarget(D, d.to)
<1>1. /\ Cardinality(D) \in Nat /\ D \in SUBSET Declaration
      /\ d.from \in Component /\ d.to \in Component
    BY FS_CardinalityType DEF Valid, Declaration
<1>2. Hops(D, Cardinality(D) + 1)[d.from] = Hops(D, Cardinality(D))[d.to]
    BY <1>1, HopsShift, FollowDeclaration
<1>3. Hops(D, Cardinality(D))[d.from] \notin Sources(D)
    BY <1>1, FinalTargetIsNoSource DEF FinalTarget
<1>4. Hops(D, Cardinality(D) + 1)[d.from] = Hops(D, Cardinality(D))[d.from]
    BY <1>1, <1>3, HopsEnd
<1> QED
    BY <1>2, <1>4 DEF FinalTarget

LEMMA DepthType ==
    ASSUME NEW D, Valid(D), NEW c
    PROVE  Depth(D, c) \in Nat
<1> DEFINE S == {n \in 0..Cardinality(D) : Hops(D, n)[c] \in Sources(D)}
<1>1. Cardinality(D) \in Nat
    BY FS_CardinalityType DEF Valid
<1>2. IsFiniteSet(0..Cardinality(D))
    BY <1>1, FS_Interval
<1>3. S \in SUBSET (0..Cardinality(D))
    OBVIOUS
<1>4. Depth(D, c) = Cardinality(S)
    BY DEF Depth
<1> HIDE DEF S
<1> QED
    BY <1>2, <1>3, <1>4, FS_Subset, FS_CardinalityType

(* The order of validateAndOrderMoves takes a chain from its beginning.     *)
LEMMA DepthDecreases ==
    ASSUME NEW D, Valid(D), NEW d \in D, NEW e \in D, d.to = e.from
    PROVE  Depth(D, e.from) < Depth(D, d.from)
<1> DEFINE N == Cardinality(D)
           S(c) == {n \in 0..N : Hops(D, n)[c] \in Sources(D)}
<1>1. /\ N \in Nat /\ D \in SUBSET Declaration
      /\ d.from \in Component /\ e.from \in Component
      /\ d.from \in Sources(D)
    BY FS_CardinalityType DEF Valid, Declaration, Sources
<1> HIDE DEF N
<1>2. \A n \in Nat : Hops(D, n + 1)[d.from] = Hops(D, n)[e.from]
    BY <1>1, HopsShift, FollowDeclaration
<1>3. S(e.from) \subseteq S(d.from)
  <2> SUFFICES ASSUME NEW n \in 0..N, Hops(D, n)[e.from] \in Sources(D)
               PROVE  Hops(D, n)[d.from] \in Sources(D)
      OBVIOUS
  <2>1. n \in Nat
      BY <1>1
  <2>2. Hops(D, n + 1)[d.from] \in Sources(D)
      BY <1>2, <2>1
  <2> QED
      BY <1>1, <2>1, <2>2, HopsEnd
<1>4. S(d.from) # S(e.from)
  <2> SUFFICES ASSUME S(d.from) = S(e.from) PROVE FALSE
      OBVIOUS
  <2> DEFINE T == {n \in Nat : n =< N => Hops(D, n)[d.from] \in Sources(D)}
  <2>1. 0 \in T
      BY <1>1, HopsRecursion
  <2>2. ASSUME NEW n \in T PROVE n + 1 \in T
    <3> SUFFICES ASSUME n + 1 =< N PROVE Hops(D, n + 1)[d.from] \in Sources(D)
        OBVIOUS
    <3>1. n \in 0..N /\ Hops(D, n)[d.from] \in Sources(D)
        BY <1>1
    <3>2. n \in S(e.from)
        BY <3>1
    <3> QED
        BY <3>2, <1>2
  <2>3. T = Nat
    <3> HIDE DEF T
    <3>1. T \in SUBSET Nat
        BY DEF T
    <3> QED
        BY <3>1, <2>1, <2>2, SetInduction
  <2>4. Hops(D, N)[d.from] \in Sources(D)
      BY <2>3, <1>1
  <2> QED
      BY <2>4, <1>1, FinalTargetIsNoSource DEF FinalTarget, N
<1>5. IsFiniteSet(S(d.from)) /\ IsFiniteSet(S(e.from))
  <2>1. IsFiniteSet(0..N)
      BY <1>1, FS_Interval
  <2>2. S(d.from) \in SUBSET (0..N) /\ S(e.from) \in SUBSET (0..N)
      OBVIOUS
  <2> HIDE DEF S
  <2> QED
      BY <2>1, <2>2, FS_Subset
<1>6. Depth(D, d.from) = Cardinality(S(d.from)) /\ Depth(D, e.from) = Cardinality(S(e.from))
    BY DEF Depth, N
<1> HIDE DEF S
<1>7. /\ Cardinality(S(d.from)) \in Nat /\ Cardinality(S(e.from)) \in Nat
      /\ Cardinality(S(e.from)) =< Cardinality(S(d.from))
      /\ Cardinality(S(e.from)) # Cardinality(S(d.from))
    BY <1>3, <1>4, <1>5, FS_Subset, FS_CardinalityType
<1> QED
    BY <1>6, <1>7

-----------------------------------------------------------------------------
(* The invariant of a run.                                                 *)

\* What a state file holds: records that depend on records, and whose digests
\* were made of the component they are addressed under.
StateOK(st) ==
    /\ DOMAIN st \subseteq Address
    /\ \A a \in DOMAIN st :
         /\ st[a] \in Record
         /\ st[a].dependsOn \subseteq DOMAIN st
         /\ st[a].component \in {NoComponent, a[1]}
         /\ st[a].digest = st[a].component /\ st[a].observed = st[a].digest

Resolving == phase \in {"planning", "preparing"}

\* The declarations that have been gone through come before those that have not.
OrderInv == \A d \in decls \ todo, e \in decls : e.to = d.from => e \notin todo

\* A declaration that has been gone through has nothing left to do and nothing
\* to reject in the state st.
Settled(st, d) ==
    Matching(st, d.from) # {} =>
        /\ d.from \in desired /\ FinalTarget(decls, d.from) \notin desired
        /\ ~Collides(st, d)

\* The addresses that went and the ones that came are those of the moves.
MovesInv ==
    /\ \A a \in DOMAIN read \ DOMAIN work : \E p \in moves : p[1] = a
    /\ \A a \in DOMAIN work \ DOMAIN read : \E p \in moves : p[2] = a

\* Where an address is when the components are where L says.
Moved(L, a) == IF a[1] \in Component THEN <<L[a[1]], a[2]>> ELSE a

\* L says where the records of each component have got to.
CarriedBy(L) ==
    /\ DOMAIN work = {Moved(L, a) : a \in DOMAIN read}
    /\ \A a, b \in DOMAIN read : a # b => Moved(L, a) # Moved(L, b)
    /\ \A a \in DOMAIN read :
         /\ work[Moved(L, a)].was = read[a].was
         /\ work[Moved(L, a)].dependsOn = {Moved(L, b) : b \in read[a].dependsOn}

\* They are on the way to where the chain of the component ends, and are moved
\* on by every declaration that has been gone through.
OnTheWay(L) ==
    \A a \in DOMAIN read : a[1] \in Component =>
        /\ FinalTarget(decls, L[a[1]]) = FinalTarget(decls, a[1])
        /\ L[a[1]] # a[1] =>
             /\ a[1] \in Sources(decls) \ desired
             /\ FinalTarget(decls, a[1]) \in desired
             /\ L[a[1]] \in desired => work[Moved(L, a)].provider = Moved(L, a)
        /\ \A d \in decls \ todo : d.from = L[a[1]] => L[a[1]] = a[1] /\ a[1] \in desired

CarriedInv == \E L \in [Component -> Component] : CarriedBy(L) /\ OnTheWay(L)

\* The file a preparation wrote has nothing left to do.
FileSettled == migrated => Valid(decls) /\ \A d \in decls : Settled(file, d)

MigratedInv ==
    /\ FileSettled
    /\ migrated /\ phase = "planning" => work = file /\ moves = {}

\* What holds of the loop while it runs.
LoopInv ==
    /\ Valid(decls) /\ OrderInv /\ MovesInv /\ CarriedInv
    /\ \A d \in decls \ todo : Settled(work, d)

MovesStateInv ==
    /\ TypeOK
    /\ phase # "start" => runs < MaxRuns
    /\ StateOK(file) /\ StateOK(read) /\ StateOK(work)
    /\ phase = "preparing" => read = file
    /\ Resolving => LoopInv
    /\ MigratedInv

-----------------------------------------------------------------------------
(* Moving the records of one component.                                    *)

LEMMA AddressParts ==
    ASSUME NEW a \in Address
    PROVE  /\ a = <<a[1], a[2]>> /\ a[2] \in Suffix
           /\ a[1] \in Component \/ a[1] = HostScope
BY ConstantsAssumption

(* Addresses that differ stay different as long as nothing collides.        *)
LEMMA RebasedFacts ==
    ASSUME NEW st, StateOK(st), NEW d \in Declaration
    PROVE  /\ \A a \in DOMAIN st : Rebased(a, d) \in Address
           /\ ~Collides(st, d) => \A a, b \in DOMAIN st : Rebased(a, d) = Rebased(b, d) => a = b
<1>1. d.from \in Component /\ d.to \in Component
    BY DEF Declaration
<1>2. ASSUME NEW a \in DOMAIN st PROVE Rebased(a, d) \in Address
  <2>1. a \in Address
      BY DEF StateOK
  <2>2. CASE a[1] = d.from
    <3>1. a = <<d.from, a[2]>> /\ a[2] \in Suffix
        BY <2>1, <2>2, AddressParts
    <3>2. <<d.to, a[2]>> \in Address
        BY <1>1, <2>1, <3>1, AddressAssumption
    <3> QED
        BY <2>2, <3>2 DEF Rebased
  <2>3. CASE a[1] # d.from
      BY <2>1, <2>3 DEF Rebased
  <2> QED
      BY <2>2, <2>3
<1>3. ASSUME ~Collides(st, d), NEW a \in DOMAIN st, NEW b \in DOMAIN st,
             Rebased(a, d) = Rebased(b, d)
      PROVE  a = b
  <2>1. a = <<a[1], a[2]>> /\ b = <<b[1], b[2]>>
      BY AddressParts DEF StateOK
  <2>2. CASE a[1] = d.from /\ b[1] = d.from
    <3>1. <<d.to, a[2]>> = <<d.to, b[2]>>
        BY <1>3, <2>2 DEF Rebased
    <3> QED
        BY <2>1, <2>2, <3>1
  <2>3. CASE a[1] = d.from /\ b[1] # d.from
      BY <1>3, <2>3 DEF Collides, Matching, Rebased
  <2>4. CASE a[1] # d.from /\ b[1] = d.from
      BY <1>3, <2>4 DEF Collides, Matching, Rebased
  <2>5. CASE a[1] # d.from /\ b[1] # d.from
      BY <1>3, <2>5 DEF Rebased
  <2> QED
      BY <2>2, <2>3, <2>4, <2>5
<1> QED
    BY <1>2, <1>3

(* MoveAll renames the matching records, and only those.                    *)
LEMMA MoveAllFacts ==
    ASSUME NEW st, StateOK(st), NEW d \in Declaration, ~Collides(st, d)
    PROVE  /\ DOMAIN MoveAll(st, d) = {Rebased(a, d) : a \in DOMAIN st}
           /\ \A a \in DOMAIN st :
                MoveAll(st, d)[Rebased(a, d)] =
                    IF a[1] = d.from THEN RebaseMovedResource(st[a], d, Rebased(a, d)) ELSE st[a]
<1> DEFINE dom == (DOMAIN st \ Matching(st, d.from)) \cup {Rebased(a, d) : a \in Matching(st, d.from)}
<1>1. dom = {Rebased(a, d) : a \in DOMAIN st}
    BY DEF Matching, Rebased
<1>2. DOMAIN MoveAll(st, d) = dom
    BY DEF MoveAll
<1>3. \A b \in dom :
        MoveAll(st, d)[b] =
            IF b[1] = d.to /\ <<d.from, b[2]>> \in DOMAIN st
              THEN RebaseMovedResource(st[<<d.from, b[2]>>], d, b)
              ELSE st[b]
    BY DEF MoveAll
<1>4. ASSUME NEW a \in DOMAIN st
      PROVE  MoveAll(st, d)[Rebased(a, d)] =
                 IF a[1] = d.from THEN RebaseMovedResource(st[a], d, Rebased(a, d)) ELSE st[a]
  <2>1. Rebased(a, d) \in dom
      BY <1>1
  <2>2. a = <<a[1], a[2]>>
      BY AddressParts DEF StateOK
  <2> HIDE DEF dom
  <2>3. CASE a[1] = d.from
    <3>1. Rebased(a, d) = <<d.to, a[2]>> /\ <<d.from, a[2]>> = a
        BY <2>2, <2>3 DEF Rebased
    <3>2. Rebased(a, d)[1] = d.to /\ <<d.from, Rebased(a, d)[2]>> = a
        BY <3>1
    <3> QED
        BY <1>3, <2>1, <2>3, <3>2
  <2>4. CASE a[1] # d.from
    <3>1. Rebased(a, d) = a
        BY <2>4 DEF Rebased
    <3>2. ~(a[1] = d.to /\ <<d.from, a[2]>> \in DOMAIN st)
      <4> SUFFICES ASSUME a[1] = d.to, <<d.from, a[2]>> \in DOMAIN st PROVE FALSE
          OBVIOUS
      <4>1. PICK b \in DOMAIN st : b = <<d.from, a[2]>>
          OBVIOUS
      <4>2. b \in Matching(st, d.from) /\ Rebased(b, d) = a
          BY <4>1, <2>2 DEF Matching, Rebased
      <4> QED
          BY <4>2 DEF Collides
    <3> QED
        BY <1>3, <2>1, <2>4, <3>1, <3>2
  <2> QED
      BY <2>3, <2>4
<1> QED
    BY <1>1, <1>2, <1>4

\* new is what one turn of the loop makes of the state st, record by record.
MovedState(st, d, new) ==
    /\ DOMAIN new = {Rebased(a, d) : a \in DOMAIN st}
    /\ \A a \in DOMAIN st :
         /\ new[Rebased(a, d)] \in Record
         /\ new[Rebased(a, d)].was = st[a].was
         /\ new[Rebased(a, d)].dependsOn = {Rebased(b, d) : b \in st[a].dependsOn}
         /\ new[Rebased(a, d)].component =
              IF a[1] = d.from /\ st[a].component # NoComponent THEN d.to ELSE st[a].component
         /\ new[Rebased(a, d)].digest = new[Rebased(a, d)].component
         /\ new[Rebased(a, d)].observed = new[Rebased(a, d)].component
         /\ new[Rebased(a, d)].provider =
              IF a[1] = d.from /\ HasNode(Rebased(a, d)) THEN Rebased(a, d) ELSE st[a].provider

LEMMA MoveFacts ==
    ASSUME NEW st, StateOK(st), NEW d \in Declaration, ~Collides(st, d),
           NEW new, new = RebaseResourceDependencies(MoveAll(st, d), d)
    PROVE  MovedState(st, d, new)
<1>0. PICK mid : mid = MoveAll(st, d)
    OBVIOUS
<1>1. /\ DOMAIN mid = {Rebased(a, d) : a \in DOMAIN st}
      /\ \A a \in DOMAIN st :
           mid[Rebased(a, d)] =
               IF a[1] = d.from THEN RebaseMovedResource(st[a], d, Rebased(a, d)) ELSE st[a]
    BY <1>0, MoveAllFacts
<1>2. /\ DOMAIN new = DOMAIN mid
      /\ \A b \in DOMAIN mid : new[b] = [mid[b] EXCEPT !.dependsOn = {Rebased(c, d) : c \in @}]
    BY <1>0 DEF RebaseResourceDependencies
<1>3. d.from \in Component /\ d.to \in Component
    BY DEF Declaration
<1>4. ASSUME NEW a \in DOMAIN st
      PROVE  /\ new[Rebased(a, d)] \in Record
             /\ new[Rebased(a, d)].was = st[a].was
             /\ new[Rebased(a, d)].dependsOn = {Rebased(b, d) : b \in st[a].dependsOn}
             /\ new[Rebased(a, d)].component =
                  IF a[1] = d.from /\ st[a].component # NoComponent THEN d.to ELSE st[a].component
             /\ new[Rebased(a, d)].digest = new[Rebased(a, d)].component
             /\ new[Rebased(a, d)].observed = new[Rebased(a, d)].component
             /\ new[Rebased(a, d)].provider =
                  IF a[1] = d.from /\ HasNode(Rebased(a, d)) THEN Rebased(a, d) ELSE st[a].provider
  <2>1. /\ st[a] \in Record /\ Rebased(a, d) \in Address
        /\ st[a].digest = st[a].component /\ st[a].observed = st[a].digest
      BY RebasedFacts DEF StateOK
  <2>2. {Rebased(b, d) : b \in st[a].dependsOn} \in SUBSET Address
      BY RebasedFacts DEF StateOK
  <2>3. PICK m : m = mid[Rebased(a, d)]
      OBVIOUS
  <2>4. /\ m \in Record
        /\ m.was = st[a].was /\ m.dependsOn = st[a].dependsOn
        /\ m.component = IF a[1] = d.from /\ st[a].component # NoComponent THEN d.to ELSE st[a].component
        /\ m.digest = m.component /\ m.observed = m.component
        /\ m.provider = IF a[1] = d.from /\ HasNode(Rebased(a, d)) THEN Rebased(a, d) ELSE st[a].provider
    <3>1. CASE a[1] = d.from
      <4>1. m = RebaseMovedResource(st[a], d, Rebased(a, d))
          BY <1>1, <2>3, <3>1
      <4> QED
          BY <1>3, <2>1, <3>1, <4>1 DEF RebaseMovedResource, Record
    <3>2. CASE a[1] # d.from
      <4>1. m = st[a]
          BY <1>1, <2>3, <3>2
      <4> QED
          BY <2>1, <3>2, <4>1
    <3> QED
        BY <3>1, <3>2
  <2>5. new[Rebased(a, d)] = [m EXCEPT !.dependsOn = {Rebased(c, d) : c \in @}]
      BY <1>1, <1>2, <2>3
  <2> QED
      BY <2>2, <2>4, <2>5 DEF Record
<1>5. DOMAIN new = {Rebased(a, d) : a \in DOMAIN st}
    BY <1>1, <1>2
<1> QED
    BY <1>4, <1>5 DEF MovedState

LEMMA MoveStateOK ==
    ASSUME NEW st, StateOK(st), NEW d \in Declaration, ~Collides(st, d)
    PROVE  StateOK(RebaseResourceDependencies(MoveAll(st, d), d))
<1>1. PICK new : new = RebaseResourceDependencies(MoveAll(st, d), d)
    OBVIOUS
<1>0. MovedState(st, d, new)
    BY <1>1, MoveFacts
<1>2. /\ DOMAIN new = {Rebased(a, d) : a \in DOMAIN st}
      /\ \A a \in DOMAIN st :
           /\ new[Rebased(a, d)] \in Record
           /\ new[Rebased(a, d)].dependsOn = {Rebased(b, d) : b \in st[a].dependsOn}
           /\ new[Rebased(a, d)].component =
                IF a[1] = d.from /\ st[a].component # NoComponent THEN d.to ELSE st[a].component
           /\ new[Rebased(a, d)].digest = new[Rebased(a, d)].component
           /\ new[Rebased(a, d)].observed = new[Rebased(a, d)].component
    BY <1>0 DEF MovedState
<1>3. DOMAIN new \subseteq Address
    BY <1>2, RebasedFacts
<1>4. ASSUME NEW b \in DOMAIN new
      PROVE  /\ new[b] \in Record
             /\ new[b].dependsOn \subseteq DOMAIN new
             /\ new[b].component \in {NoComponent, b[1]}
             /\ new[b].digest = new[b].component /\ new[b].observed = new[b].digest
  <2>1. PICK a \in DOMAIN st : b = Rebased(a, d)
      BY <1>2
  <2>2. st[a].dependsOn \subseteq DOMAIN st /\ st[a].component \in {NoComponent, a[1]}
      BY DEF StateOK
  <2>3. new[b].dependsOn \subseteq DOMAIN new
      BY <1>2, <2>1, <2>2
  <2>4. b[1] = IF a[1] = d.from THEN d.to ELSE a[1]
      BY <2>1 DEF Rebased
  <2> QED
      BY <1>2, <2>1, <2>2, <2>3, <2>4
<1>5. StateOK(new)
    BY <1>3, <1>4 DEF StateOK
<1> QED
    BY <1>1, <1>5

LEMMA NewRecordFacts ==
    ASSUME NEW a \in Address, NEW X \in SUBSET Address
    PROVE  /\ NewRecord(a, X) \in Record
           /\ NewRecord(a, X).dependsOn = X
           /\ NewRecord(a, X).component \in {NoComponent, a[1]}
           /\ NewRecord(a, X).digest = NewRecord(a, X).component
           /\ NewRecord(a, X).observed = NewRecord(a, X).digest
BY AddressParts DEF NewRecord, Record

LEMMA ReconciledStateOK ==
    ASSUME NEW st, StateOK(st)
    PROVE  /\ StateOK(Reconciled(st))
           /\ DOMAIN Reconciled(st) = DOMAIN st
<1>1. PICK new : new = Reconciled(st)
    OBVIOUS
<1>2. /\ DOMAIN new = DOMAIN st
      /\ \A a \in DOMAIN st :
           new[a] = IF HasNode(a)
                      THEN [st[a] EXCEPT !.dependsOn = {b \in Deps[a] : HasNode(b)} \cap DOMAIN st]
                      ELSE st[a]
    BY <1>1 DEF Reconciled
<1>3. ASSUME NEW a \in DOMAIN new
      PROVE  /\ new[a] \in Record
             /\ new[a].dependsOn \subseteq DOMAIN new
             /\ new[a].component \in {NoComponent, a[1]}
             /\ new[a].digest = new[a].component /\ new[a].observed = new[a].digest
  <2>1. /\ st[a] \in Record
        /\ st[a].dependsOn \subseteq DOMAIN st
        /\ st[a].component \in {NoComponent, a[1]}
        /\ st[a].digest = st[a].component /\ st[a].observed = st[a].digest
        /\ DOMAIN st \subseteq Address
      BY <1>2 DEF StateOK
  <2>2. PICK X : X = {b \in Deps[a] : HasNode(b)} \cap DOMAIN st
      OBVIOUS
  <2>3. X \in SUBSET Address /\ X \subseteq DOMAIN new
      BY <1>2, <2>1, <2>2
  <2>4. CASE HasNode(a)
    <3>1. new[a] = [st[a] EXCEPT !.dependsOn = X]
        BY <1>2, <2>2, <2>4
    <3> QED
        BY <2>1, <2>3, <3>1 DEF Record
  <2>5. CASE ~HasNode(a)
      BY <1>2, <2>1, <2>5
  <2> QED
      BY <2>4, <2>5
<1>4. StateOK(new)
    BY <1>2, <1>3 DEF StateOK
<1> QED
    BY <1>1, <1>2, <1>4

LEMMA InitStateOK ==
    ASSUME NEW A \in SUBSET Address
    PROVE  StateOK([a \in A |-> NewRecord(a, Deps[a] \cap A)])
<1>1. PICK st : st = [a \in A |-> NewRecord(a, Deps[a] \cap A)]
    OBVIOUS
<1>2. ASSUME NEW a \in A
      PROVE  /\ st[a] \in Record
             /\ st[a].dependsOn \subseteq A
             /\ st[a].component \in {NoComponent, a[1]}
             /\ st[a].digest = st[a].component /\ st[a].observed = st[a].digest
  <2>1. PICK X \in SUBSET Address : X = Deps[a] \cap A
      OBVIOUS
  <2>2. st[a] = NewRecord(a, X)
      BY <1>1, <2>1
  <2> QED
      BY <2>1, <2>2, NewRecordFacts
<1>3. DOMAIN st = A
    BY <1>1
<1>4. StateOK(st)
    BY <1>2, <1>3 DEF StateOK
<1> QED
    BY <1>1, <1>4

(* A record less, or one more.                                              *)
LEMMA RemovedStateOK ==
    ASSUME NEW st, StateOK(st), NEW a \in DOMAIN st
    PROVE  StateOK([b \in DOMAIN st \ {a} |-> [st[b] EXCEPT !.dependsOn = @ \ {a}]])
<1>1. PICK new : new = [b \in DOMAIN st \ {a} |-> [st[b] EXCEPT !.dependsOn = @ \ {a}]]
    OBVIOUS
<1>2. /\ DOMAIN new = DOMAIN st \ {a}
      /\ \A b \in DOMAIN new : new[b] = [st[b] EXCEPT !.dependsOn = @ \ {a}]
    BY <1>1
<1>3. ASSUME NEW b \in DOMAIN new
      PROVE  /\ new[b] \in Record
             /\ new[b].dependsOn \subseteq DOMAIN new
             /\ new[b].component \in {NoComponent, b[1]}
             /\ new[b].digest = new[b].component /\ new[b].observed = new[b].digest
  <2>1. /\ st[b] \in Record
        /\ st[b].dependsOn \subseteq DOMAIN st
        /\ st[b].component \in {NoComponent, b[1]}
        /\ st[b].digest = st[b].component /\ st[b].observed = st[b].digest
        /\ new[b] = [st[b] EXCEPT !.dependsOn = @ \ {a}]
      BY <1>2 DEF StateOK
  <2> QED
      BY <1>2, <2>1 DEF Record
<1>4. StateOK(new)
    BY <1>2, <1>3 DEF StateOK
<1> QED
    BY <1>1, <1>4

LEMMA AddedStateOK ==
    ASSUME NEW st, StateOK(st), NEW a \in Address \ DOMAIN st
    PROVE  StateOK([b \in DOMAIN st \cup {a} |->
                       IF b = a THEN NewRecord(a, Deps[a] \cap DOMAIN st) ELSE st[b]])
<1>1. PICK new : new = [b \in DOMAIN st \cup {a} |->
                          IF b = a THEN NewRecord(a, Deps[a] \cap DOMAIN st) ELSE st[b]]
    OBVIOUS
<1>2. PICK X \in SUBSET Address : X = Deps[a] \cap DOMAIN st
    BY DEF StateOK
<1>3. /\ DOMAIN new = DOMAIN st \cup {a}
      /\ new[a] = NewRecord(a, X)
      /\ \A b \in DOMAIN st : new[b] = st[b]
    BY <1>1, <1>2
<1>4. ASSUME NEW b \in DOMAIN new
      PROVE  /\ new[b] \in Record
             /\ new[b].dependsOn \subseteq DOMAIN new
             /\ new[b].component \in {NoComponent, b[1]}
             /\ new[b].digest = new[b].component /\ new[b].observed = new[b].digest
  <2>1. CASE b = a
      BY <1>2, <1>3, <2>1, NewRecordFacts
  <2>2. CASE b \in DOMAIN st
      BY <1>3, <2>2 DEF StateOK
  <2> QED
      BY <1>3, <2>1, <2>2
<1>5. StateOK(new)
    BY <1>3, <1>4 DEF StateOK
<1> QED
    BY <1>1, <1>5

-----------------------------------------------------------------------------
(* One turn of the loop.                                                   *)

LEMMA ValidFacts ==
    ASSUME NEW D, Valid(D)
    PROVE  /\ \A d \in D : d \in Declaration /\ d.from \in Component /\ d.to \in Component /\ d.from # d.to
           /\ \A d, e \in D : d # e => d.from # e.from /\ d.to # e.to
BY DEF Valid, Invalid, Declaration

(* The declaration that is next ends where none that is left goes on from.  *)
LEMMA OrderStep ==
    ASSUME Valid(decls), OrderInv, todo \subseteq decls, NEW d \in todo, IsNext(d),
           NEW f \in decls \ (todo \ {d}), NEW e \in decls, e.to = f.from
    PROVE  e \notin todo \ {d}
<1>1. CASE f # d
    BY <1>1 DEF OrderInv
<1>2. CASE f = d
  <2> SUFFICES ASSUME e \in todo PROVE FALSE
      OBVIOUS
  <2>1. Depth(decls, d.from) < Depth(decls, e.from)
      BY <1>2, DepthDecreases
  <2>2. Depth(decls, e.from) =< Depth(decls, d.from)
      BY DEF IsNext
  <2>3. Depth(decls, d.from) \in Int /\ Depth(decls, e.from) \in Int
      BY DepthType
  <2> QED
      BY <2>1, <2>2, <2>3
<1> QED
    BY <1>1, <1>2

(* A declaration that stays behind is settled, and so is one whose records  *)
(* have been moved; no move unsettles a declaration that comes before it.   *)
LEMMA SettledStays ==
    ASSUME NEW d, ~Rejected(d), StaysBehind(d)
    PROVE  Settled(work, d)
BY DEF Rejected, StaysBehind, Settled

LEMMA SettledMoved ==
    ASSUME Valid(decls), NEW d \in decls, StateOK(work), ~Collides(work, d),
           NEW new, MovedState(work, d, new)
    PROVE  Settled(new, d)
<1>1. d.from # d.to
    BY ValidFacts
<1>2. \A b \in DOMAIN new : b[1] # d.from
  <2> SUFFICES ASSUME NEW a \in DOMAIN work PROVE Rebased(a, d)[1] # d.from
      BY DEF MovedState
  <2> QED
      BY <1>1 DEF Rebased
<1> QED
    BY <1>2 DEF Settled, Matching

LEMMA SettledKept ==
    ASSUME Valid(decls), NEW d \in decls, NEW f \in decls, f # d, d.to # f.from,
           StateOK(work), NEW new, MovedState(work, d, new), Settled(work, f)
    PROVE  Settled(new, f)
<1>1. f.from # d.from /\ f.to # d.to /\ f.from # f.to
    BY ValidFacts
<1>2. \A b \in DOMAIN new : b[1] # d.to => b \in DOMAIN work
    BY DEF MovedState, Rebased
<1>3. Matching(new, f.from) \subseteq Matching(work, f.from)
    BY <1>2 DEF Matching
<1>4. ASSUME Collides(new, f) PROVE Collides(work, f)
  <2>1. PICK a \in Matching(new, f.from) : Rebased(a, f) \in DOMAIN new
      BY <1>4 DEF Collides
  <2>2. Rebased(a, f) = <<f.to, a[2]>>
      BY <2>1 DEF Matching, Rebased
  <2>3. Rebased(a, f) \in DOMAIN work
      BY <1>1, <1>2, <2>1, <2>2
  <2> QED
      BY <1>3, <2>1, <2>3 DEF Collides
<1> QED
    BY <1>3, <1>4 DEF Settled

(* Where the records are when a declaration stays behind, and when its      *)
(* records are moved.                                                       *)
LEMMA CarriedStays ==
    ASSUME CarriedInv, NEW d \in todo, StateOK(read), ~Rejected(d), StaysBehind(d),
           todo' = todo \ {d}, UNCHANGED <<decls, desired, read, work>>
    PROVE  CarriedInv'
<1>1. PICK L \in [Component -> Component] : CarriedBy(L) /\ OnTheWay(L)
    BY DEF CarriedInv
<1>2. CarriedBy(L)'
    BY <1>1 DEF CarriedBy, Moved
<1>3. ASSUME NEW a \in DOMAIN read, a[1] \in Component, d.from = L[a[1]]
      PROVE  L[a[1]] = a[1] /\ a[1] \in desired
  <2>1. Moved(L, a) \in Matching(work, d.from)
      BY <1>1, <1>3 DEF Moved, Matching, CarriedBy
  <2>2. d.from \in desired /\ FinalTarget(decls, d.from) \notin desired
      BY <2>1 DEF StaysBehind, Rejected
  <2> QED
      BY <1>1, <1>3, <2>2 DEF OnTheWay
<1>4. OnTheWay(L)'
  <2> SUFFICES ASSUME NEW a \in DOMAIN read, a[1] \in Component
               PROVE  /\ FinalTarget(decls, L[a[1]]) = FinalTarget(decls, a[1])
                      /\ L[a[1]] # a[1] =>
                           /\ a[1] \in Sources(decls) \ desired
                           /\ FinalTarget(decls, a[1]) \in desired
                           /\ L[a[1]] \in desired => work[Moved(L, a)].provider = Moved(L, a)
                      /\ \A f \in decls \ (todo \ {d}) : f.from = L[a[1]] => L[a[1]] = a[1] /\ a[1] \in desired
      BY DEF OnTheWay, Moved
  <2> QED
      BY <1>1, <1>3 DEF OnTheWay
<1> QED
    BY <1>2, <1>4 DEF CarriedInv

LEMMA CarriedMoved ==
    ASSUME CarriedInv, Valid(decls), OrderInv, todo \subseteq decls, NEW d \in todo,
           StateOK(read), StateOK(work),
           d.from \notin desired, FinalTarget(decls, d.from) \in desired, ~Collides(work, d),
           MovedState(work, d, work'),
           todo' = todo \ {d}, UNCHANGED <<decls, desired, read>>
    PROVE  CarriedInv'
<1>1. PICK L \in [Component -> Component] : CarriedBy(L) /\ OnTheWay(L)
    BY DEF CarriedInv
<1>2. d \in Declaration /\ d.from \in Component /\ d.to \in Component /\ d.from # d.to
    BY ValidFacts
<1>3. PICK M \in [Component -> Component] :
        \A c \in Component : M[c] = IF L[c] = d.from THEN d.to ELSE L[c]
  <2> DEFINE M == [c \in Component |-> IF L[c] = d.from THEN d.to ELSE L[c]]
  <2>1. M \in [Component -> Component]
      BY <1>2
  <2> QED
      BY <2>1
<1>4. ASSUME NEW a \in DOMAIN read
      PROVE  Moved(M, a) = Rebased(Moved(L, a), d)
  <2>1. a \in Address
      BY DEF StateOK
  <2>2. CASE a[1] \in Component
      BY <1>3, <2>2 DEF Moved, Rebased
  <2>3. CASE a[1] \notin Component
      BY <1>2, <2>3 DEF Moved, Rebased
  <2> QED
      BY <2>2, <2>3
<1>5. \A a \in DOMAIN read : Moved(L, a) \in DOMAIN work
    BY <1>1 DEF CarriedBy
<1>6. CarriedBy(M)'
  <2>1. DOMAIN work' = {Moved(M, a) : a \in DOMAIN read}
    <3>1. DOMAIN work' = {Rebased(x, d) : x \in DOMAIN work}
        BY DEF MovedState
    <3>2. DOMAIN work = {Moved(L, a) : a \in DOMAIN read}
        BY <1>1 DEF CarriedBy
    <3> QED
        BY <1>4, <3>1, <3>2
  <2>2. ASSUME NEW a \in DOMAIN read, NEW b \in DOMAIN read, a # b
        PROVE  Moved(M, a) # Moved(M, b)
    <3>1. Moved(L, a) # Moved(L, b)
        BY <1>1, <2>2 DEF CarriedBy
    <3> QED
        BY <1>2, <1>4, <1>5, <3>1, RebasedFacts
  <2>3. ASSUME NEW a \in DOMAIN read
        PROVE  /\ work'[Moved(M, a)].was = read[a].was
               /\ work'[Moved(M, a)].dependsOn = {Moved(M, b) : b \in read[a].dependsOn}
    <3>1. PICK x \in DOMAIN work : x = Moved(L, a)
        BY <1>5
    <3>2. /\ work'[Rebased(x, d)].was = work[x].was
          /\ work'[Rebased(x, d)].dependsOn = {Rebased(y, d) : y \in work[x].dependsOn}
        BY DEF MovedState
    <3>3. /\ work[x].was = read[a].was
          /\ work[x].dependsOn = {Moved(L, b) : b \in read[a].dependsOn}
        BY <1>1, <3>1 DEF CarriedBy
    <3>4. \A b \in read[a].dependsOn : Moved(M, b) = Rebased(Moved(L, b), d)
        BY <1>4 DEF StateOK
    <3>5. {Rebased(y, d) : y \in work[x].dependsOn} = {Moved(M, b) : b \in read[a].dependsOn}
        BY <3>3, <3>4
    <3> QED
        BY <1>4, <3>1, <3>2, <3>3, <3>5
  <2> QED
      BY <2>1, <2>2, <2>3 DEF CarriedBy, Moved
<1>7. ASSUME NEW a \in DOMAIN read, a[1] \in Component
      PROVE  /\ FinalTarget(decls, M[a[1]]) = FinalTarget(decls, a[1])
             /\ M[a[1]] # a[1] =>
                  /\ a[1] \in Sources(decls) \ desired
                  /\ FinalTarget(decls, a[1]) \in desired
                  /\ M[a[1]] \in desired => work'[Moved(M, a)].provider = Moved(M, a)
             /\ \A f \in decls \ (todo \ {d}) : f.from = M[a[1]] => M[a[1]] = a[1] /\ a[1] \in desired
  <2>1. PICK c \in Component : c = a[1]
      BY <1>7
  <2>2. PICK x \in DOMAIN work : x = Moved(L, a) /\ x = <<L[c], a[2]>>
      BY <1>5, <2>1 DEF Moved
  <2>3. work'[Moved(M, a)].provider =
            IF L[c] = d.from /\ HasNode(Moved(M, a)) THEN Moved(M, a) ELSE work[x].provider
    <3>0. x[1] = L[c]
        BY <2>2
    <3>1. Moved(M, a) = Rebased(x, d)
      <4>1. Moved(M, a) = Rebased(Moved(L, a), d)
          BY <1>4
      <4> QED
          BY <2>2, <4>1
    <3>2. work'[Rebased(x, d)].provider =
              IF x[1] = d.from /\ HasNode(Rebased(x, d)) THEN Rebased(x, d) ELSE work[x].provider
        BY DEF MovedState
    <3> QED
        BY <3>0, <3>1, <3>2
  <2>4. /\ FinalTarget(decls, L[c]) = FinalTarget(decls, c)
        /\ L[c] # c =>
             /\ c \in Sources(decls) \ desired
             /\ FinalTarget(decls, c) \in desired
             /\ L[c] \in desired => work[x].provider = x
        /\ \A f \in decls \ todo : f.from = L[c] => L[c] = c /\ c \in desired
      BY <1>1, <1>7, <2>1, <2>2 DEF OnTheWay
  <2>5. CASE L[c] = d.from
    <3>1. M[c] = d.to /\ Moved(M, a) = <<d.to, a[2]>>
        BY <1>3, <2>1, <2>5 DEF Moved
    <3>2. FinalTarget(decls, M[c]) = FinalTarget(decls, c)
        BY <2>4, <2>5, <3>1, FinalTargetOfDeclaration
    <3>3. c \in Sources(decls) \ desired /\ FinalTarget(decls, c) \in desired
        BY <2>4, <2>5 DEF Sources
    <3>4. d.to \in desired => work'[Moved(M, a)].provider = Moved(M, a)
        BY <2>3, <2>5, <3>1 DEF HasNode
    <3>5. ASSUME NEW f \in decls \ (todo \ {d}), f.from = d.to
          PROVE  FALSE
      <4>1. f # d
          BY <1>2, <3>5
      <4> QED
          BY <3>5, <4>1 DEF OrderInv
    <3> QED
        BY <2>1, <3>1, <3>2, <3>3, <3>4, <3>5
  <2>6. CASE L[c] # d.from
    <3>1. M[c] = L[c] /\ Moved(M, a) = x
        BY <1>3, <2>1, <2>2, <2>6 DEF Moved
    <3>2. work'[Moved(M, a)].provider = work[x].provider
        BY <2>3, <2>6
    <3> QED
        BY <2>1, <2>4, <2>6, <3>1, <3>2
  <2> QED
      BY <2>5, <2>6
<1>8. OnTheWay(M)'
    BY <1>7 DEF OnTheWay, Moved
<1> QED
    BY <1>6, <1>8 DEF CarriedInv

(* The addresses that went and came, when records are moved.                *)
LEMMA MovesMoved ==
    ASSUME MovesInv, StateOK(read), StateOK(work), NEW d,
           MovedState(work, d, work'),
           moves' = moves \cup {<<a, Rebased(a, d)>> : a \in Matching(work, d.from)},
           UNCHANGED read
    PROVE  MovesInv'
<1>1. ASSUME NEW a \in DOMAIN read \ DOMAIN work'
      PROVE  \E p \in moves' : p[1] = a
  <2>1. CASE a \in DOMAIN work
    <3>1. Rebased(a, d) # a
        BY <2>1 DEF MovedState
    <3>2. a \in Matching(work, d.from)
        BY <2>1, <3>1 DEF Matching, Rebased
    <3>3. <<a, Rebased(a, d)>> \in moves' /\ <<a, Rebased(a, d)>>[1] = a
        BY <3>2
    <3> QED
        BY <3>3
  <2>2. CASE a \notin DOMAIN work
      BY <2>2 DEF MovesInv
  <2> QED
      BY <2>1, <2>2
<1>2. ASSUME NEW b \in DOMAIN work' \ DOMAIN read
      PROVE  \E p \in moves' : p[2] = b
  <2>1. CASE b \in DOMAIN work
      BY <2>1 DEF MovesInv
  <2>2. CASE b \notin DOMAIN work
    <3>1. PICK a \in DOMAIN work : b = Rebased(a, d)
        BY DEF MovedState
    <3>2. a \in Matching(work, d.from)
        BY <2>2, <3>1 DEF Matching, Rebased
    <3>3. <<a, b>> \in moves' /\ <<a, b>>[2] = b
        BY <3>1, <3>2
    <3> QED
        BY <3>3
  <2> QED
      BY <2>1, <2>2
<1> QED
    BY <1>1, <1>2 DEF MovesInv

-----------------------------------------------------------------------------
(* The invariant holds.                                                    *)

LEMMA MovesInit == Init => MovesStateInv
<1> SUFFICES ASSUME Init PROVE MovesStateInv
    OBVIOUS
<1>1. StateOK(file) /\ read = file /\ work = file
    BY InitStateOK DEF Init
<1>2. TypeOK
  <2>1. \A st \in {file, read, work} : DOMAIN st \subseteq Address /\ \A a \in DOMAIN st : st[a] \in Record
      BY <1>1 DEF StateOK
  <2>2. 0 \in 0..MaxRuns /\ 0 \in 0..MaxForeign
      BY ConstantsAssumption
  <2> QED
      BY <2>1, <2>2 DEF Init, TypeOK, Phases
<1> QED
    BY <1>1, <1>2 DEF Init, MovesStateInv, MigratedInv, FileSettled, Resolving

(* The loop begins with nothing moved.                                      *)
LEMMA LoopBegins ==
    ASSUME StateOK(file), decls \in Declarations, ~Invalid(decls),
           read' = file, work' = file, todo' = decls, moves' = {}, UNCHANGED <<decls, desired>>
    PROVE  LoopInv'
<1>1. Valid(decls)'
    BY ConstantsAssumption, AddressAssumption DEF Valid
<1>2. OrderInv'
    BY DEF OrderInv
<1>3. MovesInv'
    BY DEF MovesInv
<1>4. CarriedInv'
  <2>1. PICK L \in [Component -> Component] : \A c \in Component : L[c] = c
    <3> DEFINE L == [c \in Component |-> c]
    <3>1. L \in [Component -> Component] /\ \A c \in Component : L[c] = c
        OBVIOUS
    <3> QED
        BY <3>1
  <2>2. \A a \in DOMAIN file : Moved(L, a) = a
      BY <2>1, AddressParts DEF StateOK, Moved
  <2>3. CarriedBy(L)'
    <3>1. DOMAIN file = {Moved(L, a) : a \in DOMAIN file}
        BY <2>2
    <3>2. \A a \in DOMAIN file : file[a].dependsOn = {Moved(L, b) : b \in file[a].dependsOn}
        BY <2>2 DEF StateOK
    <3> QED
        BY <2>2, <3>1, <3>2 DEF CarriedBy, Moved
  <2>4. OnTheWay(L)'
      BY <2>1 DEF OnTheWay
  <2> QED
      BY <2>3, <2>4 DEF CarriedInv
<1>5. (\A d \in decls \ todo : Settled(work, d))'
    OBVIOUS
<1> QED
    BY <1>1, <1>2, <1>3, <1>4, <1>5 DEF LoopInv

(* One turn keeps it.                                                       *)
LEMMA LoopGoesOn ==
    ASSUME LoopInv, todo \subseteq decls, StateOK(read), StateOK(work),
           NEW d \in todo, ResolveOne(d), ~Rejected(d)
    PROVE  LoopInv' /\ StateOK(work)'
<1>1. /\ todo' = todo \ {d}
      /\ UNCHANGED <<decls, desired, read>>
      /\ IsNext(d)
      /\ Valid(decls) /\ OrderInv /\ MovesInv /\ CarriedInv
      /\ \A f \in decls \ todo : Settled(work, f)
    BY DEF ResolveOne, LoopInv
<1>2. Valid(decls)'
    BY <1>1
<1>3. OrderInv'
    BY <1>1, OrderStep DEF OrderInv
<1>4. CASE StaysBehind(d)
  <2>1. UNCHANGED <<work, moves>>
      BY <1>4 DEF ResolveOne
  <2>2. MovesInv'
      BY <1>1, <2>1 DEF MovesInv
  <2>3. CarriedInv'
      BY <1>1, <1>4, <2>1, CarriedStays
  <2>4. (\A f \in decls \ todo : Settled(work, f))'
    <3>1. \A f \in decls \ (todo \ {d}) : Settled(work, f)
        BY <1>1, <1>4, SettledStays
    <3> QED
        BY <1>1, <2>1, <3>1 DEF Settled, Matching, Collides
  <2>5. StateOK(work)'
      BY <2>1 DEF StateOK
  <2> QED
      BY <1>2, <1>3, <2>2, <2>3, <2>4, <2>5 DEF LoopInv
<1>5. CASE ~StaysBehind(d)
  <2>1. /\ work' = RebaseResourceDependencies(MoveAll(work, d), d)
        /\ moves' = moves \cup {<<a, Rebased(a, d)>> : a \in Matching(work, d.from)}
      BY <1>5 DEF ResolveOne
  <2>2. d.from \notin desired /\ FinalTarget(decls, d.from) \in desired /\ ~Collides(work, d)
      BY <1>5 DEF StaysBehind, Rejected
  <2>3. d \in Declaration /\ d \in decls
      BY <1>1, ValidFacts
  <2>4. MovedState(work, d, work')
      BY <2>1, <2>2, <2>3, MoveFacts
  <2>5. MovesInv'
      BY <1>1, <2>1, <2>4, MovesMoved
  <2>6. CarriedInv'
      BY <1>1, <2>2, <2>4, CarriedMoved
  <2>7. (\A f \in decls \ todo : Settled(work, f))'
    <3>1. ASSUME NEW f \in decls \ (todo \ {d}) PROVE Settled(work', f)
      <4>1. CASE f = d
          BY <1>1, <2>2, <2>3, <2>4, <4>1, SettledMoved
      <4>2. CASE f # d
        <5>1. d.to # f.from
            BY <1>1, <2>3, <4>2 DEF OrderInv
        <5> QED
            BY <1>1, <2>3, <2>4, <4>2, <5>1, SettledKept
      <4> QED
          BY <4>1, <4>2
    <3> QED
        BY <1>1, <3>1 DEF Settled, Matching, Collides
  <2>8. StateOK(work)'
    <3>1. StateOK(RebaseResourceDependencies(MoveAll(work, d), d))
        BY <2>2, <2>3, MoveStateOK
    <3> QED
        BY <2>1, <3>1 DEF StateOK
  <2> QED
      BY <1>2, <1>3, <2>5, <2>6, <2>7, <2>8 DEF LoopInv
<1> QED
    BY <1>4, <1>5

(* The parts of the invariant that are about values no variable of which    *)
(* has changed.                                                             *)
LEMMA StatesKept ==
    ASSUME StateOK(read), StateOK(work), UNCHANGED resolving
    PROVE  StateOK(read)' /\ StateOK(work)'
BY DEF StateOK, resolving

LEMMA FileKept ==
    ASSUME StateOK(file), FileSettled, UNCHANGED <<decls, desired, file, migrated>>
    PROVE  StateOK(file)' /\ FileSettled'
BY DEF StateOK, FileSettled, Settled, Matching, Collides

LEMMA LoopKept ==
    ASSUME LoopInv, UNCHANGED <<decls, desired, resolving>>
    PROVE  LoopInv'
<1> USE DEF resolving
<1>1. OrderInv'
    BY DEF LoopInv, OrderInv
<1>2. MovesInv'
    BY DEF LoopInv, MovesInv
<1>3. CarriedInv'
  <2>1. PICK L \in [Component -> Component] : CarriedBy(L) /\ OnTheWay(L)
      BY DEF LoopInv, CarriedInv
  <2>2. CarriedBy(L)'
      BY <2>1 DEF CarriedBy
  <2>3. OnTheWay(L)'
      BY <2>1 DEF OnTheWay
  <2> QED
      BY <2>2, <2>3 DEF CarriedInv
<1>4. (\A d \in decls \ todo : Settled(work, d))'
    BY DEF LoopInv, Settled, Matching, Collides
<1>5. Valid(decls)'
    BY DEF LoopInv
<1> QED
    BY <1>1, <1>2, <1>3, <1>4, <1>5 DEF LoopInv

(* What a settled state says depends on its addresses only.                 *)
LEMMA SettledByDomain ==
    ASSUME NEW st, NEW new, DOMAIN new = DOMAIN st, NEW d, Settled(st, d)
    PROVE  Settled(new, d)
BY DEF Settled, Matching, Collides

(* An error ends what the run was doing.                                    *)
LEMMA FailStep ==
    ASSUME MovesStateInv, Fail, runs < MaxRuns
    PROVE  MovesStateInv'
<1>1. StateOK(file)' /\ FileSettled' /\ StateOK(read)' /\ StateOK(work)'
    BY StatesKept, FileKept DEF MovesStateInv, MigratedInv, Fail
<1>2. TypeOK'
    BY DEF MovesStateInv, TypeOK, Fail, resolving, Phases
<1> QED
    BY <1>1, <1>2 DEF MovesStateInv, MigratedInv, Fail, Resolving

LEMMA ReadStep ==
    ASSUME MovesStateInv, NEW from, NEW to \in {"planning", "preparing"},
           ReadState(from, to), ~Invalid(decls), runs < MaxRuns
    PROVE  MovesStateInv'
<1>1. /\ phase' = to
      /\ read' = file /\ work' = file /\ todo' = decls /\ moves' = {}
      /\ UNCHANGED <<decls, desired, file, approved, migrated, runs, foreign>>
    BY DEF ReadState, Fail
<1>2. StateOK(file) /\ FileSettled /\ TypeOK
    BY DEF MovesStateInv, MigratedInv
<1>3. StateOK(file)' /\ FileSettled'
    BY <1>1, <1>2, FileKept
<1>4. StateOK(read)' /\ StateOK(work)'
    BY <1>1, <1>2 DEF StateOK
<1>5. LoopInv'
    BY <1>1, <1>2, LoopBegins DEF TypeOK
<1>6. TypeOK'
  <2>1. (\A st \in {file, read, work} : DOMAIN st \subseteq Address /\ \A a \in DOMAIN st : st[a] \in Record)'
      BY <1>1, <1>2 DEF StateOK
  <2> QED
      BY <1>1, <1>2, <2>1 DEF TypeOK, Phases
<1> QED
    BY <1>1, <1>3, <1>4, <1>5, <1>6 DEF MovesStateInv, MigratedInv, Resolving

LEMMA ResolveStep ==
    ASSUME MovesStateInv, NEW d \in todo, ResolveOne(d), ~Rejected(d)
    PROVE  MovesStateInv'
<1>1. /\ phase \in {"planning", "preparing"} /\ todo' = todo \ {d}
      /\ UNCHANGED <<decls, desired, file, phase, read, approved, migrated, runs, foreign>>
    BY DEF ResolveOne
<1>2. StateOK(file) /\ StateOK(read) /\ StateOK(work) /\ FileSettled /\ TypeOK /\ LoopInv
    BY <1>1 DEF MovesStateInv, MigratedInv, Resolving
<1>3. StateOK(file)' /\ FileSettled'
    BY <1>1, <1>2, FileKept
<1>4. StateOK(read)'
    BY <1>1, <1>2 DEF StateOK
<1>5. LoopInv' /\ StateOK(work)'
    BY <1>2, LoopGoesOn DEF TypeOK
<1>6. moves' \subseteq Address \X Address
  <2>1. CASE StaysBehind(d)
      BY <1>2, <2>1 DEF ResolveOne, TypeOK
  <2>2. CASE ~StaysBehind(d)
    <3>1. moves' = moves \cup {<<a, Rebased(a, d)>> : a \in Matching(work, d.from)}
        BY <2>2 DEF ResolveOne
    <3>2. d \in Declaration
        BY <1>2, ValidFacts DEF LoopInv, TypeOK
    <3>3. \A a \in Matching(work, d.from) : a \in Address /\ Rebased(a, d) \in Address
        BY <1>2, <3>2, RebasedFacts DEF Matching, StateOK
    <3> QED
        BY <1>2, <3>1, <3>3 DEF TypeOK
  <2> QED
      BY <2>1, <2>2
<1>7. TypeOK'
  <2>1. (\A st \in {file, read, work} : DOMAIN st \subseteq Address /\ \A a \in DOMAIN st : st[a] \in Record)'
      BY <1>3, <1>4, <1>5 DEF StateOK
  <2> QED
      BY <1>1, <1>2, <1>6, <2>1 DEF TypeOK
<1>8. ASSUME migrated, phase = "planning"
      PROVE  work' = file /\ moves' = {}
  <2>1. work = file /\ moves = {} /\ Settled(file, d)
      BY <1>2, <1>8 DEF MovesStateInv, MigratedInv, FileSettled, TypeOK
  <2>2. StaysBehind(d)
      BY <2>1 DEF Settled, StaysBehind
  <2> QED
      BY <2>1, <2>2 DEF ResolveOne
<1> QED
    BY <1>1, <1>3, <1>4, <1>5, <1>7, <1>8 DEF MovesStateInv, MigratedInv, Resolving

LEMMA WrittenSettled ==
    ASSUME LoopInv, StateOK(work), todo = {},
           file' = Reconciled(work), UNCHANGED <<decls, desired>>
    PROVE  StateOK(file)' /\ FileSettled'
<1>1. DOMAIN file' = DOMAIN work /\ StateOK(Reconciled(work))
    BY ReconciledStateOK
<1>2. StateOK(file)'
    BY <1>1 DEF StateOK
<1>3. \A d \in decls : Settled(file', d)
    BY <1>1, SettledByDomain DEF LoopInv
<1>4. FileSettled'
    BY <1>3 DEF LoopInv, FileSettled, Settled, Matching, Collides
<1> QED
    BY <1>2, <1>4

LEMMA WriteStep ==
    ASSUME MovesStateInv, phase = "preparing", todo = {},
           phase' \in {"executing", "error"},
           \/ UNCHANGED <<file, migrated>>
           \/ file' = Reconciled(work) /\ migrated' = TRUE,
           UNCHANGED <<decls, desired, resolving, approved, runs, foreign>>
    PROVE  MovesStateInv'
<1>1. /\ StateOK(file) /\ StateOK(read) /\ StateOK(work)
      /\ FileSettled /\ TypeOK /\ LoopInv /\ runs < MaxRuns
    BY DEF MovesStateInv, MigratedInv, Resolving
<1>2. StateOK(file)' /\ FileSettled'
    BY <1>1, FileKept, WrittenSettled
<1>3. StateOK(read)' /\ StateOK(work)'
    BY <1>1, StatesKept
<1>4. TypeOK'
  <2>1. (\A st \in {file, read, work} : DOMAIN st \subseteq Address /\ \A a \in DOMAIN st : st[a] \in Record)'
      BY <1>2, <1>3 DEF StateOK
  <2>2. migrated' \in BOOLEAN
      BY <1>1 DEF TypeOK
  <2> QED
      BY <1>1, <2>1, <2>2 DEF TypeOK, resolving, Phases
<1> QED
    BY <1>1, <1>2, <1>3, <1>4 DEF MovesStateInv, MigratedInv, Resolving

LEMMA ForeignStep ==
    ASSUME MovesStateInv, ForeignWrite
    PROVE  MovesStateInv'
<1>1. /\ StateOK(file) /\ StateOK(read) /\ StateOK(work) /\ TypeOK
      /\ phase # "start" => runs < MaxRuns
      /\ Resolving => LoopInv
    BY DEF MovesStateInv
<1>2. /\ foreign < MaxForeign /\ phase \in {"approve", "planning"}
      /\ foreign' = foreign + 1 /\ migrated' = FALSE
      /\ UNCHANGED <<decls, desired, phase, resolving, approved, runs>>
    BY DEF ForeignWrite
<1>3. StateOK(file)'
  <2>1. PICK a \in Address :
          IF a \in DOMAIN file
            THEN file' = [b \in DOMAIN file \ {a} |-> [file[b] EXCEPT !.dependsOn = @ \ {a}]]
            ELSE file' = [b \in DOMAIN file \cup {a} |->
                            IF b = a THEN NewRecord(a, Deps[a] \cap DOMAIN file) ELSE file[b]]
      BY DEF ForeignWrite
  <2>2. CASE a \in DOMAIN file
    <3>1. StateOK(file')
        BY <1>1, <2>1, <2>2, RemovedStateOK
    <3> QED
        BY <3>1 DEF StateOK
  <2>3. CASE a \notin DOMAIN file
    <3>1. StateOK(file')
        BY <1>1, <2>1, <2>3, AddedStateOK
    <3> QED
        BY <3>1 DEF StateOK
  <2> QED
      BY <2>2, <2>3
<1>4. StateOK(read)' /\ StateOK(work)'
    BY <1>1, <1>2, StatesKept
<1>5. FileSettled'
    BY <1>2 DEF FileSettled
<1>6. Resolving' => LoopInv'
  <2>1. (phase = "planning") => LoopInv
      BY <1>1 DEF Resolving
  <2>2. (phase = "planning") => LoopInv'
      BY <1>2, <2>1, LoopKept
  <2> QED
      BY <1>2, <2>2 DEF Resolving
<1>7. TypeOK'
  <2>1. (\A st \in {file, read, work} : DOMAIN st \subseteq Address /\ \A a \in DOMAIN st : st[a] \in Record)'
      BY <1>3, <1>4 DEF StateOK
  <2>2. foreign' \in 0..MaxForeign
      BY <1>1, <1>2, ConstantsAssumption DEF TypeOK
  <2> QED
      BY <1>1, <1>2, <2>1, <2>2 DEF TypeOK, resolving
<1> QED
    BY <1>1, <1>2, <1>3, <1>4, <1>5, <1>6, <1>7 DEF MovesStateInv, MigratedInv

LEMMA MovesStep == MovesStateInv /\ [Next]_vars => MovesStateInv'
<1> SUFFICES ASSUME MovesStateInv, [Next]_vars PROVE MovesStateInv'
    OBVIOUS
<1>1. /\ StateOK(file) /\ StateOK(read) /\ StateOK(work) /\ TypeOK /\ FileSettled
      /\ phase # "start" => runs < MaxRuns
      /\ Resolving => LoopInv
    BY DEF MovesStateInv, MigratedInv
<1>2. CASE StartPlan
  <2>1. runs < MaxRuns /\ ReadState("start", "planning")
      BY <1>2 DEF StartPlan
  <2>2. CASE Invalid(decls)
      BY <2>1, <2>2, FailStep DEF ReadState
  <2>3. CASE ~Invalid(decls)
      BY <2>1, <2>3, ReadStep
  <2> QED
      BY <2>2, <2>3
<1>3. CASE Approve
  <2>1. /\ phase = "planning" /\ phase' = "approve" /\ approved' = moves
        /\ UNCHANGED <<decls, desired, file, resolving, migrated, runs, foreign>>
      BY <1>3 DEF Approve
  <2>2. StateOK(file)' /\ FileSettled' /\ StateOK(read)' /\ StateOK(work)'
      BY <1>1, <2>1, FileKept, StatesKept
  <2>3. TypeOK'
    <3>1. (\A st \in {file, read, work} : DOMAIN st \subseteq Address /\ \A a \in DOMAIN st : st[a] \in Record)'
        BY <2>2 DEF StateOK
    <3> QED
        BY <1>1, <2>1, <3>1 DEF TypeOK, resolving, Phases
  <2> QED
      BY <1>1, <2>1, <2>2, <2>3 DEF MovesStateInv, MigratedInv, Resolving
<1>4. CASE StartPrepare
  <2>1. phase = "approve" /\ ReadState("approve", "preparing")
      BY <1>4 DEF StartPrepare, ReadState
  <2>2. runs < MaxRuns
      BY <1>1, <2>1
  <2>3. CASE Invalid(decls)
      BY <2>1, <2>2, <2>3, FailStep DEF ReadState
  <2>4. CASE ~Invalid(decls)
      BY <2>1, <2>2, <2>4, ReadStep
  <2> QED
      BY <2>3, <2>4
<1>5. ASSUME NEW d \in todo, ResolveOne(d) PROVE MovesStateInv'
  <2>1. CASE Rejected(d)
      BY <1>1, <1>5, <2>1, FailStep DEF ResolveOne
  <2>2. CASE ~Rejected(d)
      BY <1>5, <2>2, ResolveStep
  <2> QED
      BY <2>1, <2>2
<1>6. CASE NotApproved
    BY <1>1, <1>6, FailStep DEF NotApproved
<1>7. CASE PrepareWrite
    BY <1>7, WriteStep DEF PrepareWrite
<1>8. CASE PrepareWriteFails
    BY <1>8, WriteStep DEF PrepareWriteFails
<1>9. CASE RunEnds
  <2>1. /\ phase # "start" /\ phase' = "start" /\ runs' = runs + 1
        /\ UNCHANGED <<decls, desired, file, resolving, approved, migrated, foreign>>
      BY <1>9 DEF RunEnds
  <2>2. StateOK(file)' /\ FileSettled' /\ StateOK(read)' /\ StateOK(work)'
      BY <1>1, <2>1, FileKept, StatesKept
  <2>3. TypeOK'
    <3>1. (\A st \in {file, read, work} : DOMAIN st \subseteq Address /\ \A a \in DOMAIN st : st[a] \in Record)'
        BY <2>2 DEF StateOK
    <3>2. runs' \in 0..MaxRuns
        BY <1>1, <2>1, ConstantsAssumption DEF TypeOK
    <3> QED
        BY <1>1, <2>1, <3>1, <3>2 DEF TypeOK, resolving, Phases
  <2> QED
      BY <1>1, <2>1, <2>2, <2>3 DEF MovesStateInv, MigratedInv, Resolving
<1>10. CASE ForeignWrite
    BY <1>10, ForeignStep
<1>11. CASE UNCHANGED vars
  <2>1. /\ UNCHANGED <<decls, desired, resolving, file, migrated>>
        /\ UNCHANGED <<phase, approved, runs, foreign, read, work, moves, todo>>
      BY <1>11 DEF vars, resolving
  <2>2. StateOK(file)' /\ FileSettled' /\ StateOK(read)' /\ StateOK(work)'
      BY <1>1, <2>1, FileKept, StatesKept
  <2>3. Resolving => LoopInv'
      BY <1>1, <2>1, LoopKept
  <2>4. TypeOK'
      BY <1>1, <2>1 DEF TypeOK
  <2> QED
      BY <1>1, <2>1, <2>2, <2>3, <2>4 DEF MovesStateInv, MigratedInv, Resolving
<1> QED
    BY <1>2, <1>3, <1>4, <1>5, <1>6, <1>7, <1>8, <1>9, <1>10, <1>11 DEF Next

LEMMA MovesStateCorrect == Spec => []MovesStateInv
BY MovesInit, MovesStep, PTL DEF Spec

-----------------------------------------------------------------------------
(* What it shows.                                                          *)

(* The variables keep their types, in every run over every state file.      *)
THEOREM TypeCorrect == Spec => []TypeOK
<1>1. MovesStateInv => TypeOK
    BY DEF MovesStateInv
<1> QED
    BY <1>1, MovesStateCorrect, PTL

(* At the end of the loop the records of a component are at home.           *)
LEMMA CarriedHome ==
    ASSUME LoopInv, todo = {}, StateOK(read),
           NEW L \in [Component -> Component], CarriedBy(L), OnTheWay(L), NEW a \in DOMAIN read
    PROVE  /\ Moved(L, a) = Home(a)
           /\ Home(a) # a =>
                /\ Home(a)[1] = FinalTarget(decls, a[1])
                /\ work[Home(a)].provider = Home(a)
<1>1. Valid(decls) /\ a = <<a[1], a[2]>> /\ (a[1] \in Component \/ a[1] = HostScope)
    BY AddressParts DEF LoopInv, StateOK
<1>2. CASE a[1] \notin Component
  <2>1. a[1] \notin Sources(decls)
      BY <1>1, <1>2, ValidFacts DEF Sources
  <2> QED
      BY <1>2, <2>1 DEF Moved, Home
<1>3. CASE a[1] \in Component
  <2>1. PICK c \in Component : c = a[1]
      BY <1>3
  <2>2. /\ FinalTarget(decls, L[c]) = FinalTarget(decls, c)
        /\ L[c] # c =>
             /\ c \in Sources(decls) \ desired
             /\ FinalTarget(decls, c) \in desired
             /\ L[c] \in desired => work[Moved(L, a)].provider = Moved(L, a)
        /\ \A d \in decls : d.from = L[c] => L[c] = c /\ c \in desired
      BY <1>3, <2>1 DEF OnTheWay
  <2>3. Moved(L, a) = <<L[c], a[2]>>
      BY <2>1 DEF Moved
  <2>4. CASE L[c] \in Sources(decls)
    <3>1. L[c] = c /\ c \in desired
        BY <2>2, <2>4 DEF Sources
    <3> QED
        BY <1>1, <2>1, <2>3, <3>1 DEF Home
  <2>5. CASE L[c] \notin Sources(decls)
    <3>1. L[c] = FinalTarget(decls, c)
        BY <1>1, <2>2, <2>5, FinalTargetOfNoSource
    <3>2. CASE L[c] = c
        BY <1>1, <2>1, <2>3, <2>5, <3>2 DEF Home
    <3>3. CASE L[c] # c
        BY <2>1, <2>2, <2>3, <3>1, <3>3 DEF Home
    <3> QED
        BY <3>2, <3>3
  <2> QED
      BY <2>4, <2>5
<1> QED
    BY <1>2, <1>3

(* ResolveMoves, hop by hop in the order of validateAndOrderMoves, gives    *)
(* what renaming every record to its final address gives, for every valid   *)
(* set of moved blocks and every state file: ResolvedDirectly.              *)
THEOREM ResolvedDirectlyCorrect == Spec => []ResolvedDirectly
<1>1. MovesStateInv => ResolvedDirectly
  <2> SUFFICES ASSUME MovesStateInv, Resolved
               PROVE  /\ DOMAIN work = {Home(a) : a \in DOMAIN read}
                      /\ \A a, b \in DOMAIN read : a # b => Home(a) # Home(b)
                      /\ \A a \in DOMAIN read :
                           /\ work[Home(a)].was = read[a].was
                           /\ work[Home(a)].dependsOn = {Home(b) : b \in read[a].dependsOn}
      BY DEF ResolvedDirectly
  <2>1. LoopInv /\ todo = {} /\ StateOK(read)
      BY DEF MovesStateInv, Resolved, Resolving
  <2>2. PICK L \in [Component -> Component] : CarriedBy(L) /\ OnTheWay(L)
      BY <2>1 DEF LoopInv, CarriedInv
  <2>3. \A a \in DOMAIN read : Moved(L, a) = Home(a)
      BY <2>1, <2>2, CarriedHome
  <2>4. \A a \in DOMAIN read : \A b \in read[a].dependsOn : Moved(L, b) = Home(b)
      BY <2>1, <2>3 DEF StateOK
  <2>5. \A a \in DOMAIN read :
          {Moved(L, b) : b \in read[a].dependsOn} = {Home(b) : b \in read[a].dependsOn}
      BY <2>4
  <2>6. {Moved(L, a) : a \in DOMAIN read} = {Home(a) : a \in DOMAIN read}
      BY <2>3
  <2> QED
      BY <2>2, <2>3, <2>5, <2>6 DEF CarriedBy
<1> QED
    BY <1>1, MovesStateCorrect, PTL

(* A record that only moved is in sync with the node it is compared with    *)
(* next, however long the chain it was moved along: MoveOnlyIsNoOp.         *)
THEOREM MoveOnlyIsNoOpCorrect == Spec => []MoveOnlyIsNoOp
<1>1. MovesStateInv => MoveOnlyIsNoOp
  <2> SUFFICES ASSUME MovesStateInv, Resolved, NEW a \in DOMAIN read, Home(a) # a
               PROVE  /\ work[Home(a)].component # NoComponent => work[Home(a)].component = Home(a)[1]
                      /\ work[Home(a)].digest = work[Home(a)].component
                      /\ work[Home(a)].observed = work[Home(a)].digest
                      /\ work[Home(a)].provider = Home(a)
      BY DEF MoveOnlyIsNoOp
  <2>1. LoopInv /\ todo = {} /\ StateOK(read) /\ StateOK(work)
      BY DEF MovesStateInv, Resolved, Resolving
  <2>2. PICK L \in [Component -> Component] : CarriedBy(L) /\ OnTheWay(L)
      BY <2>1 DEF LoopInv, CarriedInv
  <2>3. Moved(L, a) = Home(a) /\ work[Home(a)].provider = Home(a)
      BY <2>1, <2>2, CarriedHome
  <2>4. Home(a) \in DOMAIN work
      BY <2>2, <2>3 DEF CarriedBy
  <2> QED
      BY <2>1, <2>3, <2>4 DEF StateOK
<1> QED
    BY <1>1, MovesStateCorrect, PTL

(* A run that follows a preparation whose write reached the file, also one  *)
(* that failed, makes no move and reports no error: RetryIsSafe.            *)
THEOREM RetryIsSafeCorrect == Spec => []RetryIsSafe
<1>1. MovesStateInv => RetryIsSafe
  <2> SUFFICES ASSUME MovesStateInv, migrated, phase = "planning"
               PROVE  moves = {} /\ \A d \in todo : ~Rejected(d)
      BY DEF RetryIsSafe
  <2>1. work = file /\ moves = {} /\ \A d \in todo : Settled(file, d)
      BY DEF MovesStateInv, MigratedInv, FileSettled, TypeOK
  <2> QED
      BY <2>1 DEF Settled, Rejected
<1> QED
    BY <1>1, MovesStateCorrect, PTL

(* What a preparation writes differs from the file by moves of the approved *)
(* plan only, whatever another run wrote since: ApprovedMovesOnly.          *)
THEOREM ApprovedMovesOnlyCorrect == Spec => ApprovedMovesOnly
<1>1. MovesStateInv /\ [Next]_vars =>
        [phase = "preparing" /\ file' # file =>
           /\ \A a \in DOMAIN file \ DOMAIN file' : \E p \in approved : p[1] = a
           /\ \A a \in DOMAIN file' \ DOMAIN file : \E p \in approved : p[2] = a]_vars
  <2> SUFFICES ASSUME MovesStateInv, Next, phase = "preparing", file' # file
               PROVE  /\ \A a \in DOMAIN file \ DOMAIN file' : \E p \in approved : p[1] = a
                      /\ \A a \in DOMAIN file' \ DOMAIN file : \E p \in approved : p[2] = a
      BY DEF vars
  <2>1. ApprovedMoves /\ file' = Reconciled(work)
      BY DEF Next, StartPlan, StartPrepare, Approve, ReadState, ResolveOne, Fail, NotApproved,
             PrepareWrite, PrepareWriteFails, RunEnds, ForeignWrite
  <2>2. read = file /\ MovesInv /\ StateOK(work)
      BY DEF MovesStateInv, Resolving, LoopInv
  <2>3. DOMAIN file' = DOMAIN work
      BY <2>1, <2>2, ReconciledStateOK
  <2> QED
      BY <2>1, <2>2, <2>3 DEF MovesInv, ApprovedMoves
<1> QED
    BY <1>1, MovesStateCorrect, PTL DEF Spec, ApprovedMovesOnly

=============================================================================
