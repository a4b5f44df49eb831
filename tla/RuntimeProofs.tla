--------------------------- MODULE RuntimeProofs ----------------------------
(***************************************************************************)
(* Proofs about the life of a runtime.  RuntimeShutdown, for every job     *)
(* tree, every set of classes and every number of callers; RuntimeStartup, *)
(* for any number of workers in any pools: the startup gate is all or      *)
(* nothing, and a runtime that was built behaves as RuntimeShutdown says;  *)
(* Reservations: what its ledger holds is what is charged to it, within    *)
(* the limits, and credits are neither minted nor lost.                    *)
(***************************************************************************)
EXTENDS RuntimeStartup, Reservations, FiniteSetTheorems, WellFoundedInduction, TLAPS

-----------------------------------------------------------------------------
(* RuntimeShutdown *)

\* A handoff counter counts the slots of its class.
HandedExact == \A c \in Classes : handed[c] = Cardinality(Slots(c))

\* The order of a job's handoff: no wrapper before its portion was leased, and
\* no portion before the job was ready.
HandoffOrder ==
  \A j \in Jobs :
    /\ attempt[j] = "none" <=> portion[j] \in {"none", "selected", "leased"}
    /\ job[j] \in {"absent", "admitted", "ready"} => portion[j] = "none"

\* What the readings taken so far have established for good.
Quiet == host \in {"records", "handed", "recheck", "unwrap", "joined", "panicked"}

Readings ==
  /\ Quiet => \A j \in Jobs : job[j] \in {"absent", "gone"}
  /\ host \notin {"idle", "joined"} => phase = "Closing"
  /\ phase = "Stopped" <=> host = "joined"
  /\ host = "handed" => \A c \in Classes \ unread : Slots(c) = {}
  /\ host \in {"recheck", "unwrap", "joined", "panicked"} =>
       \A c \in Classes : Slots(c) = {}
  /\ OnlyCallersOwn
  /\ host = "panicked" => Callers # {}

IInv == TypeOK /\ ActiveExact /\ HandedExact /\ HandoffOrder /\ Readings

-----------------------------------------------------------------------------

LEMMA TypeInit == Init => TypeOK
BY ShutdownAssumption DEF Init, TypeOK

\* Types, one action at a time.
LEMMA TypeStep == TypeOK /\ [Next]_vars => TypeOK'
<1> SUFFICES ASSUME TypeOK, [Next]_vars PROVE TypeOK'
  OBVIOUS
<1> USE ShutdownAssumption DEF TypeOK, hostVars, Become
<1>1. ASSUME NEW j \in Jobs, Admit(j) \/ Cancel(j) \/ JobStep(j) PROVE TypeOK'
  BY <1>1 DEF Admit, Cancel, JobStep, Accept, Refuse, Return, Remove, Retire
<1>2. ASSUME NEW j \in Jobs, PortionStep(j) PROVE TypeOK'
  BY <1>2 DEF PortionStep, Select, LeasePortion, Spawn, DropPortion,
    UncountPortion, Threads
<1>3. ASSUME NEW x \in Callers, NEW j \in Jobs, TakeCandidate(x, j) PROVE TypeOK'
  BY <1>3 DEF TakeCandidate, Threads
<1>4. ASSUME NEW x \in Threads, ClaimStep(x) PROVE TypeOK'
  <2>1. CASE Claim(x)
    BY <1>4, <2>1 DEF Claim, Threads
  <2>2. CASE Depart(x)
    BY <1>4, <2>2 DEF Depart, Threads
  <2>3. CASE LeaseClaim(x) \/ RefuseClaim(x) \/ DropClaim(x) \/ UncountClaim(x)
    BY <1>4, <2>3 DEF LeaseClaim, RefuseClaim, DropClaim, UncountClaim, Threads
  <2> QED
    BY <1>4, <2>1, <2>2, <2>3 DEF ClaimStep
<1>5. ASSUME HostStep PROVE TypeOK'
  BY <1>5 DEF HostStep, TryShutdown, ReadActive, ReadRecords, ReadHanded,
    RecheckActive, Unwrap, Reading
<1>6. CASE BeginShutdown
  BY <1>6 DEF BeginShutdown
<1>7. CASE UNCHANGED vars
  BY <1>7 DEF vars
<1> QED
  BY <1>1, <1>2, <1>3, <1>4, <1>5, <1>6, <1>7 DEF Next, Environment, System

-----------------------------------------------------------------------------
(* Counting *)

LEMMA FiniteTokens ==
  /\ IsFiniteSet(Admitted) /\ IsFiniteSet(DispatchLeases)
  /\ IsFiniteSet(ClaimLeases) /\ IsFiniteSet(Threads)
  /\ \A c \in Classes : IsFiniteSet(Slots(c))
<1>1. IsFiniteSet(Threads)
  BY ShutdownAssumption, FS_Union DEF Threads
<1>2. Admitted \subseteq Jobs /\ DispatchLeases \subseteq Jobs
  BY DEF Admitted, DispatchLeases
<1>3. ClaimLeases \subseteq Threads
  BY DEF ClaimLeases
<1>4. \A c \in Classes : Slots(c) \subseteq Jobs
  BY DEF Slots
<1> QED
  BY <1>1, <1>2, <1>3, <1>4, FS_Subset, ShutdownAssumption

\* One token more, or one token less.
LEMMA Counted ==
  ASSUME NEW S, NEW T, NEW x, IsFiniteSet(S)
  PROVE  /\ Cardinality(S) \in Nat
         /\ x \notin S /\ T = S \cup {x} => Cardinality(T) = Cardinality(S) + 1
         /\ x \in S /\ T = S \ {x} => Cardinality(T) = Cardinality(S) - 1
BY FS_CardinalityType, FS_AddElement, FS_RemoveElement

LEMMA ActiveInit == Init => ActiveExact
<1> SUFFICES ASSUME Init PROVE ActiveExact
  OBVIOUS
<1>1. Admitted = {} /\ DispatchLeases = {} /\ ClaimLeases = {}
  BY DEF Init, Admitted, DispatchLeases, ClaimLeases, Threads
<1> QED
  BY <1>1, FS_EmptySet DEF Init, ActiveExact

\* Every step that touches an admission or a lease moves the count with it.
LEMMA ActiveStep == TypeOK /\ HandoffOrder /\ ActiveExact /\ [Next]_vars => ActiveExact'
<1> SUFFICES ASSUME TypeOK, HandoffOrder, ActiveExact, [Next]_vars PROVE ActiveExact'
  OBVIOUS
<1> USE DEF hostVars, Become
<1> DEFINE A == Cardinality(Admitted)
           D == Cardinality(DispatchLeases)
           C == Cardinality(ClaimLeases)
<1>0. active \in Int /\ A \in Nat /\ D \in Nat /\ C \in Nat /\ active = A + D + C
  BY FiniteTokens, FS_CardinalityType DEF TypeOK, ActiveExact
<1>1. ASSUME NEW j \in Jobs, Admit(j) PROVE ActiveExact'
  <2>1. Admitted' = Admitted \cup {j} /\ j \notin Admitted
    BY <1>1 DEF Admit, Admitted, TypeOK
  <2>2. DispatchLeases' = DispatchLeases /\ ClaimLeases' = ClaimLeases
    BY <1>1 DEF Admit, DispatchLeases, ClaimLeases
  <2>3. Cardinality(Admitted') = A + 1
    BY <2>1, Counted, FiniteTokens
  <2> QED
    BY <1>0, <1>1, <2>2, <2>3 DEF Admit, ActiveExact
<1>2. ASSUME NEW j \in Jobs, Refuse(j) \/ Retire(j) PROVE ActiveExact'
  <2>1. Admitted' = Admitted \ {j} /\ j \in Admitted
    BY <1>2 DEF Refuse, Retire, Admitted, TypeOK
  <2>2. DispatchLeases' = DispatchLeases /\ ClaimLeases' = ClaimLeases
    BY <1>2 DEF Refuse, Retire, DispatchLeases, ClaimLeases
  <2>3. Cardinality(Admitted') = A - 1
    BY <2>1, Counted, FiniteTokens
  <2> QED
    BY <1>0, <1>2, <2>2, <2>3 DEF Refuse, Retire, ActiveExact
<1>3. ASSUME NEW j \in Jobs, LeasePortion(j) PROVE ActiveExact'
  <2>1. DispatchLeases' = DispatchLeases \cup {j} /\ j \notin DispatchLeases
    BY <1>3 DEF LeasePortion, DispatchLeases, TypeOK
  <2>2. Admitted' = Admitted /\ ClaimLeases' = ClaimLeases
    BY <1>3 DEF LeasePortion, Admitted, ClaimLeases
  <2>3. Cardinality(DispatchLeases') = D + 1
    BY <2>1, Counted, FiniteTokens
  <2> QED
    BY <1>0, <1>3, <2>2, <2>3 DEF LeasePortion, ActiveExact
<1>4. ASSUME NEW j \in Jobs, UncountPortion(j) PROVE ActiveExact'
  <2>1. DispatchLeases' = DispatchLeases \ {j} /\ j \in DispatchLeases
    BY <1>4 DEF UncountPortion, DispatchLeases, TypeOK
  <2>2. Admitted' = Admitted /\ ClaimLeases' = ClaimLeases
    BY <1>4 DEF UncountPortion, Admitted, ClaimLeases
  <2>3. Cardinality(DispatchLeases') = D - 1
    BY <2>1, Counted, FiniteTokens
  <2> QED
    BY <1>0, <1>4, <2>2, <2>3 DEF UncountPortion, ActiveExact
<1>5. ASSUME NEW x \in Threads, LeaseClaim(x) PROVE ActiveExact'
  <2>1. ClaimLeases' = ClaimLeases \cup {x} /\ x \notin ClaimLeases
    BY <1>5 DEF LeaseClaim, ClaimLeases, TypeOK
  <2>2. Admitted' = Admitted /\ DispatchLeases' = DispatchLeases
    BY <1>5 DEF LeaseClaim, Admitted, DispatchLeases
  <2>3. Cardinality(ClaimLeases') = C + 1
    BY <2>1, Counted, FiniteTokens
  <2> QED
    BY <1>0, <1>5, <2>2, <2>3 DEF LeaseClaim, ActiveExact
<1>6. ASSUME NEW x \in Threads, UncountClaim(x) PROVE ActiveExact'
  <2>1. ClaimLeases' = ClaimLeases \ {x} /\ x \in ClaimLeases
    BY <1>6 DEF UncountClaim, ClaimLeases, TypeOK
  <2>2. Admitted' = Admitted /\ DispatchLeases' = DispatchLeases
    BY <1>6 DEF UncountClaim, Admitted, DispatchLeases
  <2>3. Cardinality(ClaimLeases') = C - 1
    BY <2>1, Counted, FiniteTokens
  <2> QED
    BY <1>0, <1>6, <2>2, <2>3 DEF UncountClaim, ActiveExact
<1>7. ASSUME /\ active' = active /\ Admitted' = Admitted
             /\ DispatchLeases' = DispatchLeases /\ ClaimLeases' = ClaimLeases
      PROVE  ActiveExact'
  BY <1>7 DEF ActiveExact
<1>8. ASSUME NEW j \in Jobs, Accept(j) \/ Cancel(j) \/ Return(j) \/ Remove(j)
      PROVE  ActiveExact'
  BY <1>7, <1>8 DEF Accept, Cancel, Return, Remove, Admitted, DispatchLeases,
    ClaimLeases, TypeOK
<1>9. ASSUME NEW j \in Jobs, Select(j) \/ Spawn(j) \/ DropPortion(j)
      PROVE  ActiveExact'
  <2>1. Admitted' = Admitted
    BY <1>9 DEF Select, Spawn, DropPortion, Admitted, TypeOK
  <2>2. DispatchLeases' = DispatchLeases
    BY <1>9 DEF Select, Spawn, DropPortion, DispatchLeases, TypeOK
  <2>3. ClaimLeases' = ClaimLeases
    BY <1>9 DEF Select, Spawn, DropPortion, ClaimLeases, TypeOK, Threads, HandoffOrder
  <2> QED
    BY <1>7, <1>9, <2>1, <2>2, <2>3 DEF Select, Spawn, DropPortion
<1>10. ASSUME NEW x \in Threads, RefuseClaim(x) \/ Claim(x) \/ DropClaim(x) \/ Depart(x)
       PROVE  ActiveExact'
  <2>1. Admitted' = Admitted
    BY <1>10 DEF RefuseClaim, Claim, DropClaim, Depart, Admitted, TypeOK
  <2>2. ClaimLeases' = ClaimLeases
    BY <1>10 DEF RefuseClaim, Claim, DropClaim, Depart, ClaimLeases, TypeOK
  <2>3. DispatchLeases' = DispatchLeases
    BY <1>10 DEF RefuseClaim, Claim, DropClaim, Depart, DispatchLeases
  <2> QED
    BY <1>7, <1>10, <2>1, <2>2, <2>3 DEF RefuseClaim, Claim, DropClaim, Depart
<1>11. ASSUME NEW x \in Callers, NEW j \in Jobs, TakeCandidate(x, j) PROVE ActiveExact'
  BY <1>7, <1>11 DEF TakeCandidate, Admitted, DispatchLeases, ClaimLeases, TypeOK
<1>12. CASE HostStep \/ BeginShutdown \/ UNCHANGED vars
  BY <1>7, <1>12 DEF HostStep, BeginShutdown, vars, TryShutdown, ReadActive, ReadRecords,
    ReadHanded, RecheckActive, Unwrap, Admitted, DispatchLeases, ClaimLeases
<1> QED
  BY <1>1, <1>2, <1>3, <1>4, <1>5, <1>6, <1>8, <1>9, <1>10, <1>11, <1>12
    DEF Next, Environment, System, JobStep, PortionStep, ClaimStep

-----------------------------------------------------------------------------
(* Handoff slots *)

LEMMA HandoffOrderStep == TypeOK /\ HandoffOrder /\ [Next]_vars => HandoffOrder'
<1> SUFFICES ASSUME TypeOK, HandoffOrder, [Next]_vars PROVE HandoffOrder'
  OBVIOUS
<1> USE ShutdownAssumption DEF HandoffOrder, TypeOK, hostVars, Become
<1>1. ASSUME NEW j \in Jobs, Admit(j) \/ Cancel(j) \/ JobStep(j) PROVE HandoffOrder'
  BY <1>1 DEF Admit, Cancel, JobStep, Accept, Refuse, Return, Remove, Retire
<1>2. ASSUME NEW j \in Jobs, PortionStep(j) PROVE HandoffOrder'
  BY <1>2 DEF PortionStep, Select, LeasePortion, Spawn, DropPortion,
    UncountPortion, Threads
<1>3. ASSUME NEW x \in Callers, NEW j \in Jobs, TakeCandidate(x, j)
      PROVE  HandoffOrder'
  BY <1>3 DEF TakeCandidate, Threads
<1>4. ASSUME NEW x \in Threads, ClaimStep(x) PROVE HandoffOrder'
  <2>1. CASE Claim(x)
    BY <1>4, <2>1 DEF Claim, Threads
  <2>2. CASE LeaseClaim(x) \/ RefuseClaim(x) \/ DropClaim(x) \/ UncountClaim(x) \/ Depart(x)
    BY <1>4, <2>2 DEF LeaseClaim, RefuseClaim, DropClaim, UncountClaim, Depart,
      Threads
  <2> QED
    BY <1>4, <2>1, <2>2 DEF ClaimStep
<1>5. CASE HostStep \/ BeginShutdown \/ UNCHANGED vars
  BY <1>5 DEF HostStep, BeginShutdown, vars, TryShutdown, ReadActive,
    ReadRecords, ReadHanded, RecheckActive, Unwrap
<1> QED
  BY <1>1, <1>2, <1>3, <1>4, <1>5 DEF Next, Environment, System

LEMMA HandedInit == Init => HandedExact
<1> SUFFICES ASSUME Init, NEW c \in Classes PROVE handed[c] = Cardinality(Slots(c))
  BY DEF HandedExact
<1>1. Slots(c) = {}
  BY DEF Init, Slots, Threads
<1> QED
  BY <1>1, FS_EmptySet DEF Init

\* Only Select and Depart move a slot, both with the count of its class.
LEMMA HandedStep ==
  TypeOK /\ HandoffOrder /\ HandedExact /\ [Next]_vars => HandedExact'
<1> SUFFICES ASSUME TypeOK, HandoffOrder, HandedExact, [Next]_vars,
                    NEW c \in Classes
             PROVE  handed'[c] = Cardinality(Slots(c)')
  BY DEF HandedExact
<1> USE DEF hostVars, Become
<1>0. handed[c] = Cardinality(Slots(c)) /\ handed \in [Classes -> Int]
  BY DEF HandedExact, TypeOK
<1>1. ASSUME NEW j \in Jobs, Select(j) PROVE handed'[c] = Cardinality(Slots(c)')
  <2>1. CASE ClassOf[j] = c
    <3>1. Slots(c)' = Slots(c) \cup {j} /\ j \notin Slots(c)
      BY <1>1, <2>1 DEF Select, Slots, TypeOK, HandoffOrder
    <3>2. Cardinality(Slots(c)') = Cardinality(Slots(c)) + 1
      BY <3>1, Counted, FiniteTokens
    <3> QED
      BY <1>0, <1>1, <2>1, <3>2 DEF Select
  <2>2. CASE ClassOf[j] # c
    <3>1. Slots(c)' = Slots(c)
      BY <1>1, <2>2 DEF Select, Slots, TypeOK
    <3> QED
      BY <1>0, <1>1, <2>2, <3>1 DEF Select
  <2> QED
    BY <2>1, <2>2
<1>2. ASSUME NEW x \in Threads, Depart(x) PROVE handed'[c] = Cardinality(Slots(c)')
  <2>1. CASE x \in Jobs /\ ClassOf[x] = c
    <3>1. Slots(c)' = Slots(c) \ {x} /\ x \in Slots(c)
      BY <1>2, <2>1 DEF Depart, Slots, TypeOK, HandoffOrder
    <3>2. Cardinality(Slots(c)') = Cardinality(Slots(c)) - 1
      BY <3>1, Counted, FiniteTokens
    <3> QED
      BY <1>0, <1>2, <2>1, <3>2 DEF Depart
  <2>2. CASE ~(x \in Jobs /\ ClassOf[x] = c)
    <3>1. Slots(c)' = Slots(c)
      BY <1>2, <2>2 DEF Depart, Slots, TypeOK
    <3> QED
      BY <1>0, <1>2, <2>2, <3>1 DEF Depart
  <2> QED
    BY <2>1, <2>2
<1>3. ASSUME handed' = handed, Slots(c)' = Slots(c)
      PROVE  handed'[c] = Cardinality(Slots(c)')
  BY <1>0, <1>3
<1>4. ASSUME NEW j \in Jobs, Admit(j) \/ Cancel(j) \/ JobStep(j)
      PROVE  handed'[c] = Cardinality(Slots(c)')
  BY <1>3, <1>4 DEF Admit, Cancel, JobStep, Accept, Refuse, Return, Remove,
    Retire, Slots
<1>5. ASSUME NEW j \in Jobs,
             LeasePortion(j) \/ Spawn(j) \/ DropPortion(j) \/ UncountPortion(j)
      PROVE  handed'[c] = Cardinality(Slots(c)')
  <2>1. Slots(c)' = Slots(c)
    BY <1>5 DEF LeasePortion, Spawn, DropPortion, UncountPortion, Slots, TypeOK,
      HandoffOrder, Threads
  <2> QED
    BY <1>3, <1>5, <2>1 DEF LeasePortion, Spawn, DropPortion, UncountPortion
<1>6. ASSUME NEW x \in Callers, NEW j \in Jobs, TakeCandidate(x, j)
      PROVE  handed'[c] = Cardinality(Slots(c)')
  <2>1. Slots(c)' = Slots(c)
    BY <1>6, ShutdownAssumption DEF TakeCandidate, Slots, TypeOK
  <2> QED
    BY <1>3, <1>6, <2>1 DEF TakeCandidate
<1>7. ASSUME NEW x \in Threads, LeaseClaim(x) \/ RefuseClaim(x) \/ Claim(x)
                                  \/ DropClaim(x) \/ UncountClaim(x)
      PROVE  handed'[c] = Cardinality(Slots(c)')
  <2>1. CASE Claim(x)
    BY <1>3, <2>1 DEF Claim, Slots, Threads, TypeOK
  <2>2. CASE LeaseClaim(x) \/ RefuseClaim(x)
    BY <1>3, <2>2 DEF LeaseClaim, RefuseClaim, Slots, Threads, TypeOK
  <2>3. CASE DropClaim(x) \/ UncountClaim(x)
    BY <1>3, <2>3 DEF DropClaim, UncountClaim, Slots, Threads, TypeOK
  <2> QED
    BY <1>7, <2>1, <2>2, <2>3
<1>8. CASE HostStep \/ BeginShutdown \/ UNCHANGED vars
  BY <1>3, <1>8 DEF HostStep, BeginShutdown, vars, TryShutdown, ReadActive,
    ReadRecords, ReadHanded, RecheckActive, Unwrap, Slots
<1> QED
  BY <1>1, <1>2, <1>4, <1>5, <1>6, <1>7, <1>8
    DEF Next, Environment, System, PortionStep, ClaimStep

-----------------------------------------------------------------------------
(* The readings *)

\* A zero count leaves no token.
LEMMA NoneActive ==
  TypeOK /\ ActiveExact /\ active = 0 =>
    Admitted = {} /\ DispatchLeases = {} /\ ClaimLeases = {}
<1> SUFFICES ASSUME TypeOK, ActiveExact, active = 0
             PROVE  Admitted = {} /\ DispatchLeases = {} /\ ClaimLeases = {}
  OBVIOUS
<1>1. /\ Cardinality(Admitted) \in Nat /\ Cardinality(DispatchLeases) \in Nat
      /\ Cardinality(ClaimLeases) \in Nat
  BY FiniteTokens, FS_CardinalityType
<1>2. /\ Cardinality(Admitted) = 0 /\ Cardinality(DispatchLeases) = 0
      /\ Cardinality(ClaimLeases) = 0
  BY <1>1 DEF ActiveExact
<1> QED
  BY <1>2, FiniteTokens, FS_EmptySet

LEMMA ReadingsStep == IInv /\ [Next]_vars => Readings'
<1> SUFFICES ASSUME IInv, [Next]_vars PROVE Readings'
  OBVIOUS
<1> USE DEF OnlyCallersOwn
<1>0. TypeOK /\ HandoffOrder /\ Readings /\ ActiveExact /\ HandedExact
  BY DEF IInv
<1> USE DEF hostVars, Become, Quiet
<1>1. ASSUME NEW j \in Jobs, Admit(j) \/ Cancel(j) \/ JobStep(j) PROVE Readings'
  <2>1. \A c \in Classes : Slots(c)' = Slots(c)
    BY <1>1 DEF Admit, Cancel, JobStep, Accept, Refuse, Return, Remove, Retire, Slots
  <2>2. Owners' = Owners
    BY <1>1 DEF Admit, Cancel, JobStep, Accept, Refuse, Return, Remove, Retire, Owners
  <2>3. ~Quiet
    BY <1>0, <1>1, ShutdownAssumption DEF Admit, Cancel, JobStep, Accept, Refuse, Return,
      Remove, Retire, Readings, TypeOK
  <2> QED
    BY <1>0, <1>1, <2>1, <2>2, <2>3 DEF Admit, Cancel, JobStep, Accept, Refuse,
      Return, Remove, Retire, Readings, TypeOK
<1>2. ASSUME NEW j \in Jobs, Select(j) PROVE Readings'
  <2>1. ~Quiet
    BY <1>0, <1>2 DEF Select, Readings
  <2> QED
    BY <1>0, <1>2, <2>1 DEF Select, Readings
<1>3. ASSUME NEW j \in Jobs, LeasePortion(j) \/ Spawn(j) \/ DropPortion(j)
                                \/ UncountPortion(j)
      PROVE  Readings'
  <2>1. \A c \in Classes : Slots(c)' = Slots(c)
    BY <1>0, <1>3 DEF LeasePortion, Spawn, DropPortion, UncountPortion, Slots,
      TypeOK, HandoffOrder, Threads
  <2>2. host = "unwrap" => Owners' \subseteq Callers
    <3>1. portion[j] \in {"selected", "leased"} => j \in Slots(ClassOf[j])
      BY DEF Slots
    <3>2. host = "unwrap" => portion[j] \notin {"selected", "leased"}
      BY <1>0, <3>1, ShutdownAssumption DEF Readings
    <3>3. CASE LeasePortion(j) \/ Spawn(j)
      BY <3>2, <3>3 DEF LeasePortion, Spawn
    <3>4. CASE DropPortion(j) \/ UncountPortion(j)
      BY <1>0, <3>4 DEF DropPortion, UncountPortion, Owners, Readings, TypeOK
    <3> QED
      BY <1>3, <3>3, <3>4
  <2> QED
    BY <1>0, <1>3, <2>1, <2>2 DEF LeasePortion, Spawn, DropPortion,
      UncountPortion, Readings
<1>4. ASSUME NEW x \in Callers, NEW j \in Jobs, TakeCandidate(x, j) PROVE Readings'
  <2>1. ~Quiet
    BY <1>0, <1>4 DEF TakeCandidate, Readings
  <2> QED
    BY <1>0, <1>4, <2>1 DEF TakeCandidate, Readings
<1>5. ASSUME NEW x \in Threads, ClaimStep(x) PROVE Readings'
  <2>1. \A c \in Classes : Slots(c)' \subseteq Slots(c)
    <3>1. CASE Claim(x)
      BY <1>0, <3>1 DEF Claim, Slots, Threads, TypeOK
    <3>2. CASE LeaseClaim(x) \/ RefuseClaim(x)
      BY <1>0, <3>2 DEF LeaseClaim, RefuseClaim, Slots, Threads, TypeOK
    <3>3. CASE DropClaim(x) \/ UncountClaim(x) \/ Depart(x)
      BY <1>0, <3>3 DEF DropClaim, UncountClaim, Depart, Slots, Threads, TypeOK
    <3> QED
      BY <1>5, <3>1, <3>2, <3>3 DEF ClaimStep
  <2>2. Quiet => job' = job
    BY <1>0, <1>5 DEF ClaimStep, LeaseClaim, RefuseClaim, Claim, DropClaim,
      UncountClaim, Depart, Readings, TypeOK
  <2>3. host = "unwrap" => Owners' \subseteq Callers
    <3>1. x \in Jobs /\ attempt[x] \in {"queued", "leased"} => x \in Slots(ClassOf[x])
      BY DEF Slots
    <3>2. host = "unwrap" /\ x \in Jobs => attempt[x] \notin {"queued", "leased"}
      BY <1>0, <3>1, ShutdownAssumption DEF Readings
    <3>3. CASE LeaseClaim(x)
      BY <1>0, <3>2, <3>3 DEF LeaseClaim, Owners, Threads, Readings, TypeOK
    <3>4. CASE Claim(x)
      BY <1>0, <3>2, <3>4 DEF Claim, Owners, Threads, Readings, TypeOK
    <3>5. CASE RefuseClaim(x) \/ DropClaim(x) \/ UncountClaim(x) \/ Depart(x)
      BY <1>0, <3>5 DEF RefuseClaim, DropClaim, UncountClaim, Depart, Owners,
        Readings, TypeOK
    <3> QED
      BY <1>5, <3>3, <3>4, <3>5 DEF ClaimStep
  <2>4. phase' = phase /\ host' = host /\ unread' = unread
    BY <1>5 DEF ClaimStep, LeaseClaim, RefuseClaim, Claim, DropClaim,
      UncountClaim, Depart
  <2> QED
    BY <1>0, <2>1, <2>2, <2>3, <2>4 DEF Readings
<1>6. CASE TryShutdown
  BY <1>0, <1>6 DEF TryShutdown, Readings
<1>7. CASE ReadActive
  <2>1. active = 0 => \A j \in Jobs : job[j] \in {"absent", "gone"}
    BY <1>0, NoneActive DEF Admitted, TypeOK
  <2> QED
    BY <1>0, <1>7, <2>1 DEF ReadActive, Reading, Readings
<1>8. CASE ReadRecords
  BY <1>0, <1>8 DEF ReadRecords, Reading, Readings
<1>9. ASSUME NEW c \in Classes, ReadHanded(c) PROVE Readings'
  <2>1. handed[c] = 0 => Slots(c) = {}
    BY <1>0, FiniteTokens, FS_EmptySet DEF HandedExact
  <2>2. \A k \in Classes : Slots(k)' = Slots(k)
    BY <1>9 DEF ReadHanded, Slots
  <2> QED
    BY <1>0, <1>9, <2>1, <2>2 DEF ReadHanded, Reading, Readings
<1>10. CASE RecheckActive
  <2>1. active = 0 => Owners = {}
    BY <1>0, NoneActive DEF Owners, DispatchLeases, ClaimLeases
  <2>2. Owners' = Owners /\ \A k \in Classes : Slots(k)' = Slots(k)
    BY <1>10 DEF RecheckActive, Owners, Slots
  <2> QED
    BY <1>0, <1>10, <2>1, <2>2 DEF RecheckActive, Reading, Readings
<1>11. CASE Unwrap
  <2>1. \A k \in Classes : Slots(k)' = Slots(k)
    BY <1>11 DEF Unwrap, Slots
  <2> QED
    BY <1>0, <1>11, <2>1 DEF Unwrap, Readings
<1>12. CASE BeginShutdown \/ UNCHANGED vars
  <2>1. Owners' = Owners /\ \A k \in Classes : Slots(k)' = Slots(k)
    BY <1>12 DEF BeginShutdown, vars, Owners, Slots
  <2> QED
    BY <1>0, <1>12, <2>1 DEF BeginShutdown, vars, Readings
<1> QED
  BY <1>1, <1>2, <1>3, <1>4, <1>5, <1>6, <1>7, <1>8, <1>9, <1>10, <1>11, <1>12
    DEF Next, Environment, System, HostStep, PortionStep

-----------------------------------------------------------------------------
(* Theorems *)

LEMMA Inductive == Spec => []IInv
<1>1. Init => IInv
  <2>1. Init => HandoffOrder /\ Readings
    BY ShutdownAssumption DEF Init, HandoffOrder, Readings, OnlyCallersOwn, Quiet,
      Threads
  <2> QED
    BY <2>1, TypeInit, ActiveInit, HandedInit DEF IInv
<1>2. IInv /\ [Next]_vars => IInv'
  BY TypeStep, ActiveStep, HandoffOrderStep, HandedStep, ReadingsStep DEF IInv
<1> QED
  BY <1>1, <1>2, PTL DEF Spec

\* The state has the types the module declares.
THEOREM TypeCorrect == Spec => []TypeOK
<1>1. IInv => TypeOK
  BY DEF IInv
<1> QED
  BY <1>1, Inductive, PTL

\* RuntimeControl's count is exact in every reachable state, with any number of
\* callers, so a zero reading means that no ExecutionLease owns the backend.
THEOREM ActivityCounted == Spec => []ActiveExact
<1>1. IInv => ActiveExact
  BY DEF IInv
<1> QED
  BY <1>1, Inductive, PTL

\* A stopped runtime has finalized every job and every wrapper, with any number
\* of callers.
THEOREM JoinedIsDrained == Spec => []StoppedIsDrained
<1>1. IInv => StoppedIsDrained
  BY FS_EmptySet DEF IInv, Readings, Quiet, StoppedIsDrained, HandedExact
<1> QED
  BY <1>1, Inductive, PTL

\* A slot always finds the backend: nothing admitted is refused by closure.
THEOREM SlotsAreServed == Spec => []SlotsGetLeases
<1>1. IInv => SlotsGetLeases
  <2> SUFFICES ASSUME IInv, NEW j \in Jobs,
                      portion[j] = "selected" \/ attempt[j] = "queued"
               PROVE  Upgradable
    BY DEF SlotsGetLeases
  <2>1. j \in Slots(ClassOf[j]) /\ ClassOf[j] \in Classes
    BY ShutdownAssumption DEF Slots
  <2>2. host \notin {"joined", "panicked"}
    BY <2>1 DEF IInv, Readings
  <2> QED
    BY <2>2 DEF IInv, Readings, TypeOK, Upgradable
<1> QED
  BY <1>1, Inductive, PTL

\* After the readings of try_shutdown no dispatcher and no worker owns the
\* backend, with any number of callers.
THEOREM UnwrapMeetsCallers == Spec => []OnlyCallersOwn
<1>1. IInv => OnlyCallersOwn
  BY DEF IInv, Readings
<1> QED
  BY <1>1, Inductive, PTL

\* What try_shutdown takes its readings for: nobody but a caller can own the
\* backend it unwraps, and the join meets no job and no wrapper.
THEOREM ReadingsAreEnough == Spec => []ReadingsSuffice
<1>1. OnlyCallersOwn /\ StoppedIsDrained => ReadingsSuffice
  BY DEF ReadingsSuffice
<1> QED
  BY <1>1, UnwrapMeetsCallers, JoinedIsDrained, PTL

\* When nobody outside the jobs executes them, the three readings of
\* try_shutdown do establish that the backend has no other owner.
THEOREM QuietMeansUnowned ==
  ASSUME Callers = {} PROVE Spec => []QuiescentOwnsBackend
<1>1. IInv => QuiescentOwnsBackend
  BY DEF IInv, Readings, QuiescentOwnsBackend
<1> QED
  BY <1>1, Inductive, PTL

-----------------------------------------------------------------------------
(* RuntimeStartup *)

\* Those who have come to the gate and are still there.
Come == {w \in Workers : worker[w] \in {"asleep", "woken"}}

\* While the gate is closed to all, the count is that of the workers at it, and
\* nobody has left.
CountExact ==
  gate = "Preparing" =>
    ready = Cardinality(Come) /\ \A w \in Workers : worker[w] # "ended"

\* The builder opens the gate, and opens it for everybody.
OpenForAll ==
  /\ gate = "Started" <=> builder = "built"
  /\ builder = "built" => \A w \in Workers : worker[w] = "running"
  /\ (\E w \in Workers : worker[w] = "running") => builder = "built"

\* The error that closed the gate reaches the caller of build.
ErrorKept ==
  /\ builder \in {"rollback", "refused"} => gate = "Aborted"
  /\ gate = "Aborted" /\ builder \notin {"dropping", "joining", "failed"} => error
  /\ builder \in {"dropping", "joining", "failed"} => reported

\* Joined pools stay joined.
JoinedForGood ==
  builder = "failed" => \A w \in Workers : worker[w] \in {"none", "ended"}

BuildInv == BuildTypeOK /\ CountExact /\ OpenForAll /\ ErrorKept /\ JoinedForGood

-----------------------------------------------------------------------------
(* The gate *)

LEMMA BuildInvInit == BuildInit => BuildInv
<1> SUFFICES ASSUME BuildInit PROVE BuildInv
  OBVIOUS
<1>1. Come = {}
  BY DEF BuildInit, Come
<1> QED
  BY <1>1, FS_EmptySet DEF BuildInit, BuildInv, BuildTypeOK, CountExact, OpenForAll, ErrorKept,
    JoinedForGood

LEMMA FiniteGate == IsFiniteSet(Come) /\ Come \subseteq Workers /\ Cardinality(Come) \in Nat
BY StartupAssumption, FS_Subset, FS_CardinalityType DEF Come

\* When as many have come as there are workers, all have.
LEMMA AllCome == Cardinality(Come) = Cardinality(Workers) => Come = Workers
BY FiniteGate, StartupAssumption, FS_Subset

LEMMA BuildTypeStep == BuildTypeOK /\ [LifeNext]_lifeVars => BuildTypeOK'
<1> SUFFICES ASSUME BuildTypeOK, [LifeNext]_lifeVars PROVE BuildTypeOK'
  OBVIOUS
<1> USE DEF BuildTypeOK, RecordFailure
<1>1. ASSUME NEW w \in Workers, Launch(w) \/ FailLaunch(w) PROVE BuildTypeOK'
  BY <1>1 DEF Launch, FailLaunch, Woken
<1>2. CASE StartWhenReady
  BY <1>2 DEF StartWhenReady
<1>3. CASE AbortGate
  BY <1>3 DEF AbortGate, Woken
<1>4. CASE BeforeLaunch \/ Rollback \/ TakeError \/ JoinPools
  BY <1>4 DEF BeforeLaunch, Rollback, TakeError, JoinPools
<1>5. ASSUME NEW w \in Workers, WorkerStep(w) PROVE BuildTypeOK'
  <2>1. AtGate \in {"asleep", "running", "ended"}
    BY DEF AtGate
  <2>2. Woken \in [Workers -> {"none", "setup", "asleep", "woken", "running", "ended"}]
    BY DEF Woken
  <2>3. CASE FailSetup(w)
    BY <2>2, <2>3 DEF FailSetup, BuilderWoken
  <2>4. CASE ReadyAndWait(w)
    BY <2>1, <2>2, <2>4 DEF ReadyAndWait, BuilderWoken
  <2>5. CASE LookAgain(w)
    BY <2>1, <2>5 DEF LookAgain
  <2> QED
    BY <1>5, <2>3, <2>4, <2>5 DEF WorkerStep
<1>6. CASE Run(Next) \/ UNCHANGED lifeVars
  BY <1>6 DEF Run, buildVars, lifeVars
<1> QED
  BY <1>1, <1>2, <1>3, <1>4, <1>5, <1>6 DEF LifeNext, BuilderStep

\* The count of the gate, one action at a time.
LEMMA CountStep == BuildInv /\ [LifeNext]_lifeVars => CountExact'
<1> SUFFICES ASSUME BuildInv, [LifeNext]_lifeVars, gate' = "Preparing"
             PROVE  ready' = Cardinality(Come') /\ \A v \in Workers : worker'[v] # "ended"
  BY DEF CountExact
<1> USE DEF BuildInv, BuildTypeOK
<1>1. ASSUME NEW w \in Workers, Launch(w) PROVE Come' = Come
  BY <1>1 DEF Launch, Come, IsNext, Unlaunched
<1>2. ASSUME NEW w \in Workers, ReadyAndWait(w), gate = "Preparing"
      PROVE  ready' = Cardinality(Come') /\ \A v \in Workers : worker'[v] # "ended"
  <2>1. Come' = Come \cup {w} /\ w \notin Come
    BY <1>2 DEF ReadyAndWait, Come, Woken, AtGate
  <2>2. Cardinality(Come') = Cardinality(Come) + 1
    BY <2>1, Counted, FiniteGate
  <2> QED
    BY <1>2, <2>2 DEF ReadyAndWait, CountExact, Woken, AtGate
<1>3. ASSUME NEW w \in Workers, LookAgain(w), gate = "Preparing" PROVE Come' = Come
  BY <1>3 DEF LookAgain, Come, AtGate
<1>4. ASSUME NEW w \in Workers, Launch(w) \/ ReadyAndWait(w) \/ LookAgain(w)
      PROVE  ready' = Cardinality(Come') /\ \A v \in Workers : worker'[v] # "ended"
  BY <1>1, <1>2, <1>3, <1>4 DEF Launch, ReadyAndWait, LookAgain, CountExact, AtGate
<1>5. CASE StartWhenReady
  <2>1. gate = "Preparing" /\ worker' = worker /\ ready' = ready
    BY <1>5 DEF StartWhenReady
  <2> QED
    BY <2>1 DEF CountExact, Come
<1>6. CASE BeforeLaunch \/ Rollback \/ TakeError \/ JoinPools \/ Run(Next) \/ UNCHANGED lifeVars
  BY <1>6 DEF BeforeLaunch, Rollback, TakeError, JoinPools, Run, buildVars, lifeVars, CountExact,
    Come
<1>7. ~AbortGate /\ \A w \in Workers : ~FailLaunch(w) /\ ~FailSetup(w)
  BY DEF AbortGate, FailLaunch, FailSetup, RecordFailure
<1> QED
  BY <1>4, <1>5, <1>6, <1>7 DEF LifeNext, BuilderStep, WorkerStep

\* What an open gate means.
LEMMA OpenStep == BuildInv /\ [LifeNext]_lifeVars => OpenForAll'
<1> SUFFICES ASSUME BuildInv, [LifeNext]_lifeVars PROVE OpenForAll'
  OBVIOUS
<1> USE DEF BuildInv, BuildTypeOK, OpenForAll, RecordFailure
<1>1. CASE StartWhenReady
  <2>1. CASE gate' = "Started"
    <3>1. Come = Workers
      BY <1>1, <2>1, AllCome DEF StartWhenReady, CountExact
    <3> QED
      BY <1>1, <2>1, <3>1 DEF StartWhenReady, Come
  <2>2. CASE gate' # "Started"
    BY <1>1, <2>2 DEF StartWhenReady
  <2> QED
    BY <2>1, <2>2
<1>2. ASSUME NEW w \in Workers, Launch(w) \/ FailLaunch(w) PROVE OpenForAll'
  BY <1>2 DEF Launch, FailLaunch, Woken
<1>3. CASE BeforeLaunch \/ Rollback \/ TakeError \/ AbortGate \/ JoinPools
  BY <1>3 DEF BeforeLaunch, Rollback, TakeError, AbortGate, JoinPools, Woken
<1>4. ASSUME NEW w \in Workers, WorkerStep(w) PROVE OpenForAll'
  <2>1. gate # "Started" /\ builder # "built" /\ AtGate # "running"
    BY <1>4 DEF WorkerStep, FailSetup, ReadyAndWait, LookAgain, AtGate
  <2> QED
    BY <1>4, <2>1 DEF WorkerStep, FailSetup, ReadyAndWait, LookAgain, Woken, BuilderWoken
<1>5. CASE Run(Next) \/ UNCHANGED lifeVars
  BY <1>5 DEF Run, buildVars, lifeVars
<1> QED
  BY <1>1, <1>2, <1>3, <1>4, <1>5 DEF LifeNext, BuilderStep

\* What a refused start leaves behind.
LEMMA ErrorStep == BuildInv /\ [LifeNext]_lifeVars => ErrorKept' /\ JoinedForGood'
<1> SUFFICES ASSUME BuildInv, [LifeNext]_lifeVars PROVE ErrorKept' /\ JoinedForGood'
  OBVIOUS
<1> USE DEF BuildInv, BuildTypeOK, ErrorKept, JoinedForGood, RecordFailure
<1>1. ASSUME NEW w \in Workers, Launch(w) \/ FailLaunch(w) PROVE ErrorKept' /\ JoinedForGood'
  BY <1>1 DEF Launch, FailLaunch
<1>2. CASE BeforeLaunch \/ Rollback \/ StartWhenReady \/ TakeError
  BY <1>2 DEF BeforeLaunch, Rollback, StartWhenReady, TakeError
<1>3. CASE AbortGate \/ JoinPools
  BY <1>3 DEF AbortGate, JoinPools
<1>4. ASSUME NEW w \in Workers, WorkerStep(w) PROVE ErrorKept' /\ JoinedForGood'
  <2>1. builder # "failed"
    BY <1>4 DEF WorkerStep, FailSetup, ReadyAndWait, LookAgain
  <2> QED
    BY <1>4, <2>1 DEF WorkerStep, FailSetup, ReadyAndWait, LookAgain, BuilderWoken
<1>5. CASE Run(Next) \/ UNCHANGED lifeVars
  BY <1>5 DEF Run, buildVars, lifeVars
<1> QED
  BY <1>1, <1>2, <1>3, <1>4, <1>5 DEF LifeNext, BuilderStep

LEMMA BuildInductive == LifeSpec => []BuildInv
<1>1. LifeInit => BuildInv
  BY BuildInvInit DEF LifeInit
<1>2. BuildInv /\ [LifeNext]_lifeVars => BuildInv'
  BY BuildTypeStep, CountStep, OpenStep, ErrorStep DEF BuildInv
<1> QED
  BY <1>1, <1>2, PTL DEF LifeSpec

-----------------------------------------------------------------------------
(* Theorems *)

\* Every reachable state of a build is well typed.
THEOREM BuildTypeCorrect == LifeSpec => []BuildTypeOK
<1>1. BuildInv => BuildTypeOK
  BY DEF BuildInv
<1> QED
  BY <1>1, BuildInductive, PTL

\* start_when_ready starts all workers of all pools or none, and a failed build
\* has joined every thread it launched and has an error to return.
THEOREM StartsWhole == LifeSpec => []AllOrNone
<1>1. BuildInv => AllOrNone
  BY DEF BuildInv, OpenForAll, ErrorKept, JoinedForGood, AllOrNone, AllUp, AllGone
<1> QED
  BY <1>1, BuildInductive, PTL

\* The expectation in take_error, "aborted startup has a worker error", is met.
THEOREM ErrorIsThere == LifeSpec => []RefusalHasError
<1>1. BuildInv => RefusalHasError
  BY DEF BuildInv, ErrorKept, RefusalHasError
<1> QED
  BY <1>1, BuildInductive, PTL

\* The gate adds nothing to what a runtime does: every life of one, built or
\* not, is a behaviour of RuntimeShutdown.
THEOREM LifeImplements == LifeSpec => Spec
<1>1. LifeInit => Init
  BY DEF LifeInit
<1>2. [LifeNext]_lifeVars => [Next]_vars
  <2> SUFFICES ASSUME [LifeNext]_lifeVars PROVE [Next]_vars
    OBVIOUS
  <2>1. CASE BuilderStep
    BY <2>1 DEF BuilderStep, BeforeLaunch, Launch, FailLaunch, Rollback, StartWhenReady,
      TakeError, AbortGate, JoinPools
  <2>2. ASSUME NEW w \in Workers, WorkerStep(w) PROVE UNCHANGED vars
    BY <2>2 DEF WorkerStep, FailSetup, ReadyAndWait, LookAgain
  <2>3. CASE Run(Next)
    BY <2>3 DEF Run
  <2>4. CASE UNCHANGED lifeVars
    BY <2>4 DEF lifeVars
  <2> QED
    BY <2>1, <2>2, <2>3, <2>4 DEF LifeNext
<1> QED
  BY <1>1, <1>2, PTL DEF LifeSpec, Spec

\* So what the readings of try_shutdown establish holds from build on.
THEOREM BuiltRuntimesDrain == LifeSpec => []ReadingsSuffice
BY LifeImplements, ReadingsAreEnough, PTL

-----------------------------------------------------------------------------
(* Sums.  The library's induction theorems are about operators; a least     *)
(* counterexample, which a well-founded relation has, does the same for     *)
(* sets of numbers and of subsets.                                          *)

\* Every nonempty set of natural numbers has a least element.
LEMMA LeastNumber ==
  ASSUME NEW T \in SUBSET Nat, T # {}
  PROVE  \E m \in T : \A k \in T : m <= k
<1> DEFINE R == OpToRel(<, Nat)
<1>1. ASSUME NEW k \in Nat, NEW m \in Nat, k < m PROVE <<k, m>> \in R
  <2> DEFINE p == <<k, m>>
  <2>1. p \in Nat \X Nat /\ p[1] < p[2]
    BY <1>1
  <2> HIDE DEF p
  <2>2. p \in R
    BY <2>1 DEF OpToRel
  <2> QED
    BY <2>2 DEF p
<1>2. IsWellFoundedOn(R, Nat)
  BY NatLessThanWellFounded
<1> HIDE DEF R
<1>3. \E m \in T : \A k \in T : ~(<<k, m>> \in R)
  BY <1>2, WFMin
<1>4. PICK m \in T : \A k \in T : ~(<<k, m>> \in R)
  BY <1>3
<1>5. ASSUME NEW k \in T PROVE ~(k < m)
  BY <1>1, <1>4, <1>5
<1>6. \A k \in T : m <= k
  BY <1>5
<1> QED
  BY <1>6

Pick(s) == CHOOSE x \in s : TRUE

\* One equation of the fold: what it says of s, given what it says of smaller sets.
Row(f, g, s) == IF s = {} THEN 0 ELSE f[Pick(s)] + g[s \ {Pick(s)}]

IsTable(g, f, S) == g = [s \in SUBSET S |-> Row(f, g, s)]

SumTable(f, S) == CHOOSE g : g = [s \in SUBSET S |-> Row(f, g, s)]

LEMMA SumUnfold ==
  ASSUME NEW f, NEW S
  PROVE  SumFunctionOnSet(f, S) = SumTable(f, S)[S]
BY DEF SumFunctionOnSet, FoldFunctionOnSet, MapThenFoldSet, SumTable, Row, Pick

\* A set of subsets of a finite set has a member of least cardinality.
LEMMA LeastSubset ==
  ASSUME NEW S, IsFiniteSet(S), NEW B \in SUBSET (SUBSET S), B # {}
  PROVE  \E T \in B : \A U \in B : Cardinality(T) <= Cardinality(U)
<1> DEFINE N == {Cardinality(U) : U \in B}
<1>1. \A U \in B : Cardinality(U) \in Nat
  BY FS_Subset, FS_CardinalityType
<1>2. N \in SUBSET Nat /\ N # {}
  BY <1>1
<1>3. PICK m \in N : \A k \in N : m <= k
  <2> HIDE DEF N
  <2> QED
    BY <1>2, LeastNumber
<1>4. PICK T \in B : Cardinality(T) = m
  BY <1>3
<1>5. ASSUME NEW U \in B PROVE Cardinality(T) <= Cardinality(U)
  BY <1>3, <1>4
<1> QED
  BY <1>4, <1>5

LEMMA PickSmaller ==
  ASSUME NEW S, IsFiniteSet(S), NEW T \in SUBSET S, T # {}
  PROVE  /\ Pick(T) \in T /\ T \ {Pick(T)} \in SUBSET S
         /\ Cardinality(T) \in Nat
         /\ Cardinality(T \ {Pick(T)}) = Cardinality(T) - 1
<1>1. Pick(T) \in T
  BY DEF Pick
<1>2. IsFiniteSet(T) /\ Cardinality(T) \in Nat
  BY FS_Subset, FS_CardinalityType
<1> QED
  BY <1>1, <1>2, FS_RemoveElement

\* The fold of the library is defined on every subset of a finite set.
LEMMA SumTableExists ==
  ASSUME NEW f, NEW S, IsFiniteSet(S)
  PROVE  IsTable(SumTable(f, S), f, S)
<1> DEFINE Below(n) == {s \in SUBSET S : Cardinality(s) <= n}
           Defined(n) == \E g : g = [s \in Below(n) |-> Row(f, g, s)]
           Bad == {n \in Nat : ~Defined(n)}
<1>1. ASSUME NEW m \in Bad, \A k \in Bad : m <= k PROVE FALSE
  <2>1. m \in Nat /\ ~Defined(m)
    OBVIOUS
  <2>2. CASE m = 0
    <3> DEFINE g == [s \in Below(0) |-> 0]
    <3>1. \A s \in Below(0) : s = {}
      BY FS_Subset, FS_EmptySet, FS_CardinalityType
    <3>2. g = [s \in Below(0) |-> Row(f, g, s)]
      BY <3>1 DEF Row
    <3> QED
      BY <3>2, <2>1, <2>2
  <2>3. CASE m # 0
    <3>1. m - 1 \in Nat /\ Defined(m - 1)
      <4>1. m - 1 \in Nat /\ ~(m <= m - 1)
        BY <2>1, <2>3
      <4> HIDE DEF Defined
      <4>2. m - 1 \notin Bad
        BY <4>1, <1>1
      <4> QED
        BY <4>1, <4>2
    <3>2. PICK g : g = [s \in Below(m - 1) |-> Row(f, g, s)]
      BY <3>1
    <3> DEFINE h == [s \in Below(m) |-> Row(f, g, s)]
    <3>3. ASSUME NEW s \in Below(m - 1) PROVE h[s] = g[s]
      <4>1. s \in Below(m)
        BY <2>1, <3>3, FS_Subset, FS_CardinalityType
      <4> QED
        BY <4>1, <3>2
    <3>4. ASSUME NEW s \in Below(m) PROVE Row(f, g, s) = Row(f, h, s)
      <4>1. CASE s = {}
        BY <4>1 DEF Row
      <4>2. CASE s # {}
        <5>1. s \ {Pick(s)} \in Below(m - 1)
          BY <4>2, <3>4, <2>1, PickSmaller
        <5>2. h[s \ {Pick(s)}] = g[s \ {Pick(s)}]
          BY <5>1, <3>3
        <5> QED
          BY <4>2, <5>2 DEF Row
      <4> QED
        BY <4>1, <4>2
    <3>5. h = [s \in Below(m) |-> Row(f, h, s)]
      BY <3>4
    <3>6. Defined(m)
      <4> HIDE DEF h
      <4> QED
        BY <3>5
    <3> QED
      BY <3>6, <2>1
  <2> QED
    BY <2>2, <2>3
<1>2. Bad = {}
  <2>1. Bad \in SUBSET Nat
    OBVIOUS
  <2> HIDE DEF Bad
  <2> QED
    BY <1>1, <2>1, LeastNumber
<1>3. Cardinality(S) \in Nat
  BY FS_CardinalityType
<1>4. PICK g : g = [s \in Below(Cardinality(S)) |-> Row(f, g, s)]
  <2>1. Defined(Cardinality(S))
    BY <1>2, <1>3
  <2> QED
    BY <2>1
<1>5. Below(Cardinality(S)) = SUBSET S
  BY FS_Subset
<1>6. g = [s \in SUBSET S |-> Row(f, g, s)]
  BY <1>4, <1>5
<1> QED
  BY <1>6 DEF SumTable, IsTable

\* Tables of two sets agree on the subsets of both, whose sum they give.
LEMMA SumTablesAgree ==
  ASSUME NEW f, NEW S, IsFiniteSet(S), NEW T \in SUBSET S
  PROVE  SumTable(f, S)[T] = SumFunctionOnSet(f, T)
<1> DEFINE g == SumTable(f, S)
           h == SumTable(f, T)
           B == {s \in SUBSET T : g[s] # h[s]}
<1>1. IsFiniteSet(T)
  BY FS_Subset
<1>2. IsTable(g, f, S) /\ IsTable(h, f, T)
  BY <1>1, SumTableExists
<1> HIDE DEF g, h
<1>3. /\ g = [s \in SUBSET S |-> Row(f, g, s)]
      /\ h = [s \in SUBSET T |-> Row(f, h, s)]
  BY <1>2 DEF IsTable
<1>4. ASSUME NEW s \in B, \A u \in B : Cardinality(s) <= Cardinality(u) PROVE FALSE
  <2>1. s \in SUBSET T /\ s \in SUBSET S /\ g[s] # h[s]
    OBVIOUS
  <2>2. g[s] = Row(f, g, s) /\ h[s] = Row(f, h, s)
    BY <2>1, <1>3
  <2>3. s # {}
    BY <2>1, <2>2 DEF Row
  <2>4. /\ s \ {Pick(s)} \in SUBSET T /\ Cardinality(s) \in Nat
        /\ Cardinality(s \ {Pick(s)}) = Cardinality(s) - 1
    BY <2>1, <2>3, <1>1, PickSmaller
  <2>5. s \ {Pick(s)} \notin B
    BY <1>4, <2>4
  <2>6. g[s \ {Pick(s)}] = h[s \ {Pick(s)}]
    BY <2>4, <2>5
  <2> QED
    BY <2>1, <2>2, <2>3, <2>6 DEF Row
<1>5. B = {}
  <2>1. B \in SUBSET (SUBSET T)
    OBVIOUS
  <2> HIDE DEF B
  <2> QED
    BY <1>1, <1>4, <2>1, LeastSubset
<1>6. g[T] = h[T]
  BY <1>5
<1> QED
  BY <1>6, SumUnfold DEF g, h

\* The sum by its first element.
LEMMA SumByPick ==
  ASSUME NEW f, NEW S, IsFiniteSet(S)
  PROVE  SumFunctionOnSet(f, S) =
           IF S = {} THEN 0 ELSE f[Pick(S)] + SumFunctionOnSet(f, S \ {Pick(S)})
<1>1. SumTable(f, S)[S] = Row(f, SumTable(f, S), S)
  <2> DEFINE g == SumTable(f, S)
  <2>1. IsTable(g, f, S)
    BY SumTableExists
  <2> HIDE DEF g
  <2>2. g[S] = Row(f, g, S)
    BY <2>1 DEF IsTable
  <2> QED
    BY <2>2 DEF g
<1>2. SumTable(f, S)[S \ {Pick(S)}] = SumFunctionOnSet(f, S \ {Pick(S)})
  BY SumTablesAgree
<1> QED
  BY <1>1, <1>2, SumUnfold DEF Row

LEMMA SumEmpty ==
  ASSUME NEW f
  PROVE  SumFunctionOnSet(f, {}) = 0
<1>1. IsFiniteSet({})
  BY FS_EmptySet
<1> QED
  BY <1>1, SumByPick

LEMMA SumNat ==
  ASSUME NEW S, IsFiniteSet(S), NEW f, \A x \in S : f[x] \in Nat
  PROVE  SumFunctionOnSet(f, S) \in Nat
<1> DEFINE B == {s \in SUBSET S : SumFunctionOnSet(f, s) \notin Nat}
<1>1. ASSUME NEW s \in B, \A u \in B : Cardinality(s) <= Cardinality(u) PROVE FALSE
  <2>0. s \in SUBSET S /\ SumFunctionOnSet(f, s) \notin Nat
    OBVIOUS
  <2>1. s \in SUBSET S /\ IsFiniteSet(s) /\ SumFunctionOnSet(f, s) \notin Nat
    BY <2>0, FS_Subset
  <2>2. s # {}
    BY <2>1, SumEmpty
  <2>3. /\ Pick(s) \in s /\ s \ {Pick(s)} \in SUBSET S /\ Cardinality(s) \in Nat
        /\ Cardinality(s \ {Pick(s)}) = Cardinality(s) - 1
    BY <2>1, <2>2, PickSmaller
  <2>4. s \ {Pick(s)} \notin B
    BY <1>1, <2>3
  <2>5. SumFunctionOnSet(f, s \ {Pick(s)}) \in Nat /\ f[Pick(s)] \in Nat
    BY <2>1, <2>3, <2>4
  <2> QED
    BY <2>1, <2>2, <2>5, SumByPick
<1>2. B = {}
  <2>1. B \in SUBSET (SUBSET S)
    OBVIOUS
  <2> HIDE DEF B
  <2> QED
    BY <1>1, <2>1, LeastSubset
<1> QED
  BY <1>2

\* Any element can be taken out first.
LEMMA SumRemove ==
  ASSUME NEW S, IsFiniteSet(S), NEW f, \A x \in S : f[x] \in Nat, NEW e \in S
  PROVE  SumFunctionOnSet(f, S) = f[e] + SumFunctionOnSet(f, S \ {e})
<1> DEFINE Sum(s) == SumFunctionOnSet(f, s)
           B == {s \in SUBSET S : \E y \in s : Sum(s) # f[y] + Sum(s \ {y})}
<1>0. ASSUME NEW s \in SUBSET S PROVE IsFiniteSet(s) /\ Sum(s) \in Nat
  BY FS_Subset, SumNat
<1>1. ASSUME NEW s \in B, \A u \in B : Cardinality(s) <= Cardinality(u) PROVE FALSE
  <2>1. PICK y \in s : Sum(s) # f[y] + Sum(s \ {y})
    OBVIOUS
  <2> DEFINE p == Pick(s)
  <2>2. s \in SUBSET S /\ IsFiniteSet(s) /\ s # {}
    BY <1>0, <2>1
  <2>3. /\ p \in s /\ s \ {p} \in SUBSET S /\ Cardinality(s) \in Nat
        /\ Cardinality(s \ {p}) = Cardinality(s) - 1
    BY <2>2, PickSmaller
  <2>4. Sum(s) = f[p] + Sum(s \ {p})
    BY <2>2, SumByPick
  <2>5. y # p
    BY <2>1, <2>4
  <2> DEFINE q == Pick(s \ {y})
             r == s \ {p}
             v == s \ {y}
  <2>6. /\ v \in SUBSET S /\ v # {} /\ IsFiniteSet(v) /\ Cardinality(v) = Cardinality(s) - 1
    BY <2>2, <2>3, <2>5, FS_RemoveElement
  <2>7. v \notin B /\ r \notin B
    <3>1. ~(Cardinality(s) <= Cardinality(v)) /\ ~(Cardinality(s) <= Cardinality(r))
      BY <2>3, <2>6
    <3> HIDE DEF B, v, r
    <3> QED
      BY <1>1, <3>1
  <2>8. Sum(v) = f[p] + Sum(v \ {p})
    BY <2>7, <2>6, <2>3, <2>5
  <2>9. Sum(r) = f[y] + Sum(r \ {y})
    BY <2>7, <2>3, <2>5
  <2>10. v \ {p} = r \ {y} /\ v \ {p} \in SUBSET S
    BY <2>2
  <2>11. f[p] \in Nat /\ f[y] \in Nat /\ Sum(v \ {p}) \in Nat
    BY <2>2, <2>3, <2>10, <1>0
  <2> HIDE DEF Sum, p, r, v
  <2>12. Sum(s) = f[y] + Sum(v)
    BY <2>4, <2>8, <2>9, <2>10, <2>11 DEF r
  <2> QED
    BY <2>1, <2>12 DEF v
<1>2. B = {}
  <2>1. B \in SUBSET (SUBSET S)
    OBVIOUS
  <2> HIDE DEF B
  <2> QED
    BY <1>1, <2>1, LeastSubset
<1> QED
  BY <1>2

LEMMA SumAgree ==
  ASSUME NEW S, IsFiniteSet(S), NEW f, NEW g, \A x \in S : f[x] = g[x]
  PROVE  SumFunctionOnSet(f, S) = SumFunctionOnSet(g, S)
<1> DEFINE B == {s \in SUBSET S : SumFunctionOnSet(f, s) # SumFunctionOnSet(g, s)}
<1>1. ASSUME NEW s \in B, \A u \in B : Cardinality(s) <= Cardinality(u) PROVE FALSE
  <2>0. s \in SUBSET S /\ SumFunctionOnSet(f, s) # SumFunctionOnSet(g, s)
    OBVIOUS
  <2>1. s \in SUBSET S /\ IsFiniteSet(s) /\ SumFunctionOnSet(f, s) # SumFunctionOnSet(g, s)
    BY <2>0, FS_Subset
  <2>2. s # {}
    BY <2>1, SumEmpty
  <2>3. /\ Pick(s) \in s /\ s \ {Pick(s)} \in SUBSET S /\ Cardinality(s) \in Nat
        /\ Cardinality(s \ {Pick(s)}) = Cardinality(s) - 1
    BY <2>1, <2>2, PickSmaller
  <2>4. s \ {Pick(s)} \notin B
    BY <1>1, <2>3
  <2>5. SumFunctionOnSet(f, s \ {Pick(s)}) = SumFunctionOnSet(g, s \ {Pick(s)})
        /\ f[Pick(s)] = g[Pick(s)]
    BY <2>1, <2>3, <2>4
  <2> QED
    BY <2>1, <2>2, <2>5, SumByPick
<1>2. B = {}
  <2>1. B \in SUBSET (SUBSET S)
    OBVIOUS
  <2> HIDE DEF B
  <2> QED
    BY <1>1, <2>1, LeastSubset
<1> QED
  BY <1>2

-----------------------------------------------------------------------------
(* Costs *)

LEMMA CostFacts ==
  /\ Zero \in Cost
  /\ \A a \in Cost : a.meta \in Nat /\ a.bytes \in Nat /\ a = [meta |-> a.meta, bytes |-> a.bytes]
  /\ \A a, b \in Cost : Plus(a, b) \in Cost
  /\ \A a, b \in Cost : Fits(b, a) => Minus(a, b) \in Cost
  /\ \A n \in Nat : Bytes(n) \in Cost
BY DEF Zero, Cost, Plus, Minus, Bytes, Fits

\* A sum of costs is a cost.
LEMMA CostSumType ==
  ASSUME NEW S, IsFiniteSet(S), NEW f, \A x \in S : f[x] \in Cost
  PROVE  SumOf(f, S) \in Cost
<1>1. /\ \A x \in S : [y \in S |-> f[y].meta][x] \in Nat
      /\ \A x \in S : [y \in S |-> f[y].bytes][x] \in Nat
  BY DEF Cost
<1>2. /\ SumFunctionOnSet([y \in S |-> f[y].meta], S) \in Nat
      /\ SumFunctionOnSet([y \in S |-> f[y].bytes], S) \in Nat
  BY <1>1, SumNat
<1> QED
  BY <1>2 DEF SumOf, Cost

LEMMA CostSumEmpty ==
  ASSUME NEW f
  PROVE  SumOf(f, {}) = Zero
BY SumEmpty DEF SumOf, Zero

\* Sums of functions that agree are equal.
LEMMA CostSumAgree ==
  ASSUME NEW S, IsFiniteSet(S), NEW f, NEW g, \A x \in S : f[x] = g[x]
  PROVE  SumOf(f, S) = SumOf(g, S)
<1>1. /\ [y \in S |-> f[y].meta] = [y \in S |-> g[y].meta]
      /\ [y \in S |-> f[y].bytes] = [y \in S |-> g[y].bytes]
  OBVIOUS
<1> QED
  BY <1>1 DEF SumOf

\* One term taken out of a sum.
LEMMA CostSumRemove ==
  ASSUME NEW S, IsFiniteSet(S), NEW f, \A x \in S : f[x] \in Cost, NEW e \in S
  PROVE  SumOf(f, S) = Plus(f[e], SumOf(f, S \ {e}))
<1> DEFINE m == [y \in S |-> f[y].meta]
           b == [y \in S |-> f[y].bytes]
           n == [y \in S \ {e} |-> f[y].meta]
           c == [y \in S \ {e} |-> f[y].bytes]
<1>1. (\A x \in S : m[x] \in Nat) /\ (\A x \in S : b[x] \in Nat)
  BY DEF Cost
<1>2. IsFiniteSet(S \ {e})
  BY FS_RemoveElement
<1>3. (\A x \in S \ {e} : m[x] = n[x]) /\ (\A x \in S \ {e} : b[x] = c[x])
  OBVIOUS
<1>4. m[e] = f[e].meta /\ b[e] = f[e].bytes
  OBVIOUS
<1>5. SumOf(f, S) = [meta |-> SumFunctionOnSet(m, S), bytes |-> SumFunctionOnSet(b, S)]
  BY DEF SumOf
<1>6. SumOf(f, S \ {e}) = [meta |-> SumFunctionOnSet(n, S \ {e}),
                           bytes |-> SumFunctionOnSet(c, S \ {e})]
  BY DEF SumOf
<1> HIDE DEF m, b, n, c
<1>7. /\ SumFunctionOnSet(m, S) = m[e] + SumFunctionOnSet(m, S \ {e})
      /\ SumFunctionOnSet(b, S) = b[e] + SumFunctionOnSet(b, S \ {e})
  BY <1>1, SumRemove
<1>8. /\ SumFunctionOnSet(m, S \ {e}) = SumFunctionOnSet(n, S \ {e})
      /\ SumFunctionOnSet(b, S \ {e}) = SumFunctionOnSet(c, S \ {e})
  BY <1>2, <1>3, SumAgree
<1> QED
  BY <1>4, <1>5, <1>6, <1>7, <1>8 DEF Plus

\* Two sums that differ in one term share the rest.
LEMMA CostSumShift ==
  ASSUME NEW S, IsFiniteSet(S), NEW f, \A x \in S : f[x] \in Cost,
         NEW T, IsFiniteSet(T), NEW g, \A x \in T : g[x] \in Cost,
         NEW e, S \ {e} = T \ {e}, \A x \in S \ {e} : f[x] = g[x]
  PROVE  \E rest \in Cost :
           /\ SumOf(f, S) = IF e \in S THEN Plus(f[e], rest) ELSE rest
           /\ SumOf(g, T) = IF e \in T THEN Plus(g[e], rest) ELSE rest
<1> DEFINE rest == SumOf(f, S \ {e})
<1>1. IsFiniteSet(S \ {e}) /\ rest \in Cost
  <2>1. IsFiniteSet(S \ {e})
    BY FS_RemoveElement
  <2> QED
    BY <2>1, CostSumType
<1>2. rest = SumOf(g, T \ {e})
  BY <1>1, CostSumAgree
<1>3. SumOf(f, S) = IF e \in S THEN Plus(f[e], rest) ELSE rest
  <2>1. CASE e \in S
    BY <2>1, CostSumRemove
  <2>2. CASE e \notin S
    <3>1. S \ {e} = S
      BY <2>2
    <3> QED
      BY <2>2, <3>1
  <2> QED
    BY <2>1, <2>2
<1>4. SumOf(g, T) = IF e \in T THEN Plus(g[e], rest) ELSE rest
  <2>1. CASE e \in T
    BY <2>1, <1>2, CostSumRemove
  <2>2. CASE e \notin T
    <3>1. T \ {e} = T
      BY <2>2
    <3> QED
      BY <2>2, <3>1, <1>2
  <2> QED
    BY <2>1, <2>2
<1> QED
  BY <1>1, <1>3, <1>4

\* Each term is part of its sum.
LEMMA CostSumTerm ==
  ASSUME NEW S, IsFiniteSet(S), NEW f, \A x \in S : f[x] \in Cost, NEW e \in S
  PROVE  Fits(f[e], SumOf(f, S))
<1>1. SumOf(f, S) = Plus(f[e], SumOf(f, S \ {e}))
  BY CostSumRemove
<1>2. SumOf(f, S \ {e}) \in Cost
  <2>1. IsFiniteSet(S \ {e})
    BY FS_RemoveElement
  <2> QED
    BY <2>1, CostSumType
<1>3. f[e] \in Cost
  OBVIOUS
<1> QED
  BY <1>1, <1>2, <1>3 DEF Plus, Fits, Cost

-----------------------------------------------------------------------------
(* The inductive invariant *)

\* Handles form the trees of their pipelines: each knows the handle its pipeline
\* was reserved with, its parent and its refund stay within the branch, and the
\* pipeline is charged while a handle keeps it.
Rooted ==
  \A h \in Handles :
    /\ handle[h] = "free" <=> root[h] = NoHandle
    /\ handle[h] = "free" => parent[h] = NoHandle
    /\ handle[h] # "free" => root[root[h]] = root[h]
    /\ pipe[h] # "none" <=> root[h] = h
    /\ handle[h] \in {"live", "retired"} => pipe[root[h]] = "charged"
    /\ parent[h] # NoHandle => root[parent[h]] = root[h]
    /\ handle[h] # "free" /\ parent[h] = NoHandle => root[h] = h
    /\ growth[h] # Zero => Alive(h)
    /\ ~Alive(h) => balance[h] = Zero
    /\ refund[h].at # NoHandle => handle[h] = "retired" /\ root[refund[h].at] = root[h]

\* A lease keeps the branch it was taken from, and what it gives back stays there.
Leased ==
  \A l \in Leases :
    /\ lease[l] # "free" => bank[l] # NoHandle /\ root[bank[l]] # NoHandle
    /\ lease[l] \in {"upgraded", "refunding"} => pipe[root[bank[l]]] = "charged"
    /\ refund[l].at # NoHandle => lease[l] = "refunding" /\ root[refund[l].at] = root[bank[l]]

LedgerInv == LedgerBounded /\ Rooted /\ Leased /\ CreditsConserved

LEMMA RootFacts ==
  ASSUME ReservationAssumption, LedgerTypeOK, Rooted
  PROVE  /\ \A h \in Handles : handle[h] # "free" => root[h] \in Handles /\ handle[root[h]] # "free"
         /\ \A h \in Handles : parent[h] # NoHandle => parent[h] \in Handles
         /\ \A h \in Handles : root[h] # NoHandle => root[h] \in Handles
         /\ \A x \in Handles \cup Leases : refund[x].at # NoHandle => refund[x].at \in Handles
         /\ \A l \in Leases : bank[l] # NoHandle => bank[l] \in Handles
         /\ \A h, x \in Handles : handle[h] = "free" => (x # h => root[x] # h)
BY DEF ReservationAssumption, LedgerTypeOK, Rooted

\* The terms of the ledger.
PipelineCharges(k) == SumOf(total, Charged(k))
GrowthCharges(k) == SumOf(growth, Growing(k))
LeaseCost == [l \in Leases |-> Bytes(bytes[l])]
LeaseCharges(k) == SumOf(LeaseCost, Detached(k))
OwnedCharges(k) == IF k = "Ordinary" THEN owned ELSE 0

Balanced(k) ==
  /\ usage[k].meta = PipelineCharges(k).meta + GrowthCharges(k).meta + LeaseCharges(k).meta
                       + OwnedCharges(k)
  /\ usage[k].bytes = PipelineCharges(k).bytes + GrowthCharges(k).bytes + LeaseCharges(k).bytes

LEMMA ChargesTyped ==
  ASSUME ReservationAssumption, LedgerTypeOK, NEW k \in Kinds
  PROVE  /\ PipelineCharges(k) \in Cost /\ GrowthCharges(k) \in Cost /\ LeaseCharges(k) \in Cost
         /\ OwnedCharges(k) \in Nat
         /\ IsFiniteSet(Charged(k)) /\ IsFiniteSet(Growing(k)) /\ IsFiniteSet(Detached(k))
         /\ \A l \in Leases : LeaseCost[l] = Bytes(bytes[l]) /\ LeaseCost[l] \in Cost
<1>1. /\ Charged(k) \in SUBSET Handles /\ Growing(k) \in SUBSET Handles
      /\ Detached(k) \in SUBSET Leases
  BY DEF Charged, Growing, Detached
<1>2. IsFiniteSet(Charged(k)) /\ IsFiniteSet(Growing(k)) /\ IsFiniteSet(Detached(k))
  BY <1>1, FS_Subset DEF ReservationAssumption
<1>3. \A l \in Leases : LeaseCost[l] = Bytes(bytes[l]) /\ LeaseCost[l] \in Cost
  <2>1. \A l \in Leases : bytes[l] \in Nat
    BY DEF LedgerTypeOK
  <2> QED
    BY <2>1, CostFacts DEF LeaseCost
<1>4. PipelineCharges(k) \in Cost
  <2>1. \A r \in Charged(k) : total[r] \in Cost
    BY DEF Charged, LedgerTypeOK
  <2> QED
    BY <2>1, <1>2, CostSumType DEF PipelineCharges
<1>5. GrowthCharges(k) \in Cost
  <2>1. \A r \in Growing(k) : growth[r] \in Cost
    BY DEF Growing, LedgerTypeOK
  <2> QED
    BY <2>1, <1>2, CostSumType DEF GrowthCharges
<1>6. LeaseCharges(k) \in Cost
  <2>1. \A r \in Detached(k) : LeaseCost[r] \in Cost
    BY <1>1, <1>3
  <2> QED
    BY <2>1, <1>2, CostSumType DEF LeaseCharges
<1>7. OwnedCharges(k) \in Nat
  BY DEF OwnedCharges, LedgerTypeOK
<1> QED
  BY <1>2, <1>3, <1>4, <1>5, <1>6, <1>7

\* The ledger by dimension.
LEMMA LedgerForm ==
  ASSUME ReservationAssumption, LedgerTypeOK
  PROVE  LedgerExact <=> /\ \A k \in Kinds : Balanced(k)
                         /\ pipelines = Cardinality(Charged("Required"))
<1>1. ASSUME NEW k \in Kinds
      PROVE  (usage[k] = Plus(PipelineCharges(k), Plus(GrowthCharges(k), Plus(LeaseCharges(k),
                [meta |-> OwnedCharges(k), bytes |-> 0])))) <=> Balanced(k)
  <2>1. /\ PipelineCharges(k) \in Cost /\ GrowthCharges(k) \in Cost /\ LeaseCharges(k) \in Cost
        /\ OwnedCharges(k) \in Nat
    BY ChargesTyped
  <2>2. usage[k] \in Cost
    BY DEF LedgerTypeOK
  <2> QED
    BY <2>1, <2>2 DEF Balanced, Plus, Cost
<1> QED
  BY <1>1 DEF LedgerExact, PipelineCharges, GrowthCharges, LeaseCharges, LeaseCost, OwnedCharges

\* What is charged can be given back.
LEMMA Covered ==
  ASSUME ReservationAssumption, LedgerTypeOK, NEW k \in Kinds, Balanced(k)
  PROVE  /\ \A r \in Charged(k) : Fits(total[r], usage[k])
         /\ \A l \in Detached(k) : Fits(Bytes(bytes[l]), usage[k])
         /\ OwnedCharges(k) <= usage[k].meta
<1>1. /\ PipelineCharges(k) \in Cost /\ GrowthCharges(k) \in Cost /\ LeaseCharges(k) \in Cost
      /\ OwnedCharges(k) \in Nat
      /\ IsFiniteSet(Charged(k)) /\ IsFiniteSet(Growing(k)) /\ IsFiniteSet(Detached(k))
      /\ \A l \in Leases : LeaseCost[l] = Bytes(bytes[l]) /\ LeaseCost[l] \in Cost
  BY ChargesTyped
<1>2. /\ Fits(PipelineCharges(k), usage[k]) /\ Fits(LeaseCharges(k), usage[k])
      /\ OwnedCharges(k) <= usage[k].meta
  BY <1>1 DEF Balanced, Fits, Cost
<1>3. ASSUME NEW r \in Charged(k) PROVE Fits(total[r], usage[k])
  <2>1. \A x \in Charged(k) : total[x] \in Cost
    BY DEF Charged, LedgerTypeOK
  <2>2. Fits(total[r], PipelineCharges(k))
    BY <2>1, <1>1, CostSumTerm DEF PipelineCharges
  <2>3. usage[k] \in Cost
    BY DEF LedgerTypeOK
  <2> QED
    BY <2>1, <2>2, <2>3, <1>1, <1>2 DEF Fits, Cost
<1>4. ASSUME NEW l \in Detached(k) PROVE Fits(Bytes(bytes[l]), usage[k])
  <2>1. \A x \in Detached(k) : LeaseCost[x] \in Cost /\ LeaseCost[x] = Bytes(bytes[x])
    BY <1>1 DEF Detached
  <2>2. Fits(LeaseCost[l], LeaseCharges(k))
    BY <2>1, <1>1, CostSumTerm DEF LeaseCharges
  <2>3. usage[k] \in Cost
    BY DEF LedgerTypeOK
  <2> QED
    BY <2>1, <2>2, <2>3, <1>1, <1>2 DEF Fits, Cost
<1> QED
  BY <1>2, <1>3, <1>4

LEMMA CreditsTyped ==
  ASSUME ReservationAssumption, LedgerTypeOK, NEW r
  PROVE  /\ IsFiniteSet(Branch(r)) /\ IsFiniteSet(Returning(r))
         /\ Branch(r) \in SUBSET Handles /\ Returning(r) \in SUBSET (Handles \cup Leases)
         /\ \A h \in Branch(r) : balance[h] \in Cost
         /\ \A x \in Handles \cup Leases : refund[x].cost \in Cost
<1>1. Branch(r) \in SUBSET Handles /\ Returning(r) \in SUBSET (Handles \cup Leases)
  BY DEF Branch, Returning
<1>2. IsFiniteSet(Handles \cup Leases)
  BY FS_Union DEF ReservationAssumption
<1>3. IsFiniteSet(Branch(r)) /\ IsFiniteSet(Returning(r))
  BY <1>1, <1>2, FS_Subset DEF ReservationAssumption
<1> QED
  BY <1>1, <1>3 DEF LedgerTypeOK

\* What the handles of a branch can spend, and what is on its way back to them.
Spendable(r) == SumOf(balance, Branch(r))
RefundCost == [x \in Handles \cup Leases |-> refund[x].cost]
Owed(r) == SumOf(RefundCost, Returning(r))

LEMMA CreditForm ==
  ASSUME ReservationAssumption, LedgerTypeOK, NEW r
  PROVE  /\ Credits(r) = Plus(Spendable(r), Owed(r))
         /\ Spendable(r) \in Cost /\ Owed(r) \in Cost
         /\ \A h \in Branch(r) : Fits(balance[h], Spendable(r))
         /\ \A x \in Handles \cup Leases : RefundCost[x] = refund[x].cost
<1>1. /\ IsFiniteSet(Branch(r)) /\ IsFiniteSet(Returning(r))
      /\ Returning(r) \in SUBSET (Handles \cup Leases)
      /\ \A h \in Branch(r) : balance[h] \in Cost
      /\ \A x \in Handles \cup Leases : refund[x].cost \in Cost
  BY CreditsTyped
<1>2. \A x \in Returning(r) : RefundCost[x] \in Cost
  BY <1>1 DEF RefundCost
<1>3. Spendable(r) \in Cost /\ Owed(r) \in Cost
  BY <1>1, <1>2, CostSumType DEF Spendable, Owed
<1>4. \A h \in Branch(r) : Fits(balance[h], Spendable(r))
  BY <1>1, CostSumTerm DEF Spendable
<1> QED
  BY <1>3, <1>4 DEF Credits, Spendable, Owed, RefundCost

\* A live handle's balance is part of its pipeline's charge.
LEMMA Funded ==
  ASSUME ReservationAssumption, LedgerTypeOK, Rooted, CreditsConserved,
         NEW h \in Handles, Alive(h)
  PROVE  /\ root[h] \in Handles /\ pipe[root[h]] = "charged"
         /\ Fits(balance[h], total[root[h]])
<1>1. root[h] \in Handles /\ pipe[root[h]] = "charged"
  BY RootFacts DEF Rooted, Alive
<1>2. Fits(Credits(root[h]), total[root[h]])
  BY <1>1 DEF CreditsConserved
<1>3. h \in Branch(root[h])
  BY DEF Branch
<1>4. /\ Credits(root[h]) = Plus(Spendable(root[h]), Owed(root[h]))
      /\ Spendable(root[h]) \in Cost /\ Owed(root[h]) \in Cost
      /\ Fits(balance[h], Spendable(root[h]))
  BY <1>3, CreditForm
<1>5. balance[h] \in Cost /\ total[root[h]] \in Cost
  BY <1>1 DEF LedgerTypeOK
<1> QED
  BY <1>1, <1>2, <1>4, <1>5 DEF Plus, Fits, Cost

-----------------------------------------------------------------------------
(* Types *)

LEMMA ConstantFacts ==
  ASSUME ReservationAssumption
  PROVE  /\ \A cost \in Costs : cost \in Cost /\ cost.bytes \in Nat
         /\ \A n \in Batches : n \in Nat
         /\ Target.meta \in Nat /\ Target.bytes \in Nat
BY DEF ReservationAssumption, Cost

LEMMA TypeOKSteps ==
  ASSUME ReservationAssumption, LedgerInv, LedgerNext
  PROVE  LedgerTypeOK'
<1>0. /\ LedgerTypeOK /\ Rooted /\ Leased /\ CreditsConserved
      /\ \A k \in Kinds : Balanced(k)
  BY LedgerForm DEF LedgerInv, LedgerBounded
<1>u. \A k \in Kinds : usage[k] \in Cost
  BY <1>0 DEF LedgerTypeOK
<1>c. ASSUME NEW k \in Kinds, NEW cost \in Cost, Charge(k, cost) PROVE usage' \in [Kinds -> Cost]
  <2>1. Plus(usage[k], cost) \in Cost
    BY <1>u, CostFacts
  <2> QED
    BY <2>1, <1>0, <1>c DEF Charge, LedgerTypeOK
<1>d. ASSUME NEW k \in Kinds, NEW cost \in Cost, Fits(cost, usage[k]), Discharge(k, cost)
      PROVE  usage' \in [Kinds -> Cost]
  <2>1. Minus(usage[k], cost) \in Cost
    BY <1>u, <1>d, CostFacts
  <2> QED
    BY <2>1, <1>0, <1>d DEF Discharge, LedgerTypeOK
<1>f. ASSUME NEW x \in Handles \cup Leases, NEW at \in Handles \cup {NoHandle}, NEW cost \in Cost,
             Refunding(x, at, cost)
      PROVE  refund' \in [Handles \cup Leases -> [at : Handles \cup {NoHandle}, cost : Cost]]
  <2>1. [at |-> at, cost |-> IF at = NoHandle THEN Zero ELSE cost]
          \in [at : Handles \cup {NoHandle}, cost : Cost]
    BY CostFacts
  <2> QED
    BY <2>1, <1>0, <1>f DEF Refunding, LedgerTypeOK
<1>1. ASSUME NEW n \in Batches, ChargeOwned(n) PROVE LedgerTypeOK'
  <2>1. usage["Ordinary"].meta \in Nat /\ n \in Nat /\ Target.meta \in Nat /\ owned \in Nat
    BY <1>u, <1>0, ConstantFacts DEF Kinds, Cost, LedgerTypeOK
  <2>2. Accepted(n) \in Nat
    BY <2>1, <1>1 DEF Accepted, ChargeOwned
  <2>3. [meta |-> Accepted(n), bytes |-> 0] \in Cost
    BY <2>2 DEF Cost
  <2>4. usage' \in [Kinds -> Cost]
    BY <2>3, <1>1, <1>c DEF ChargeOwned, Kinds
  <2>5. owned' \in Nat
    BY <2>1, <2>2, <1>1 DEF ChargeOwned
  <2> QED
    BY <2>4, <2>5, <1>0, <1>1 DEF ChargeOwned, LedgerTypeOK, pipeVars, treeVars, leaseVars
<1>2. ASSUME DropOwned PROVE LedgerTypeOK'
  <2>1. owned \in Nat /\ owned > 0 /\ OwnedCharges("Ordinary") = owned
    BY <1>0, <1>2 DEF DropOwned, LedgerTypeOK, OwnedCharges
  <2>2. "Ordinary" \in Kinds /\ owned <= usage["Ordinary"].meta
    BY <2>1, <1>0, Covered DEF Kinds
  <2>3. usage["Ordinary"].meta \in Nat /\ usage["Ordinary"].bytes \in Nat
    BY <2>2, <1>u, CostFacts
  <2>4. /\ [meta |-> 1, bytes |-> 0] \in Cost
        /\ Fits([meta |-> 1, bytes |-> 0], usage["Ordinary"])
    BY <2>1, <2>2, <2>3 DEF Fits, Cost
  <2>5. usage' \in [Kinds -> Cost]
    BY <2>2, <2>4, <1>2, <1>d DEF DropOwned
  <2>6. owned' \in Nat
    BY <2>1, <1>2 DEF DropOwned
  <2> QED
    BY <2>5, <2>6, <1>0, <1>2 DEF DropOwned, LedgerTypeOK, pipeVars, treeVars, leaseVars
<1>3. ASSUME NEW h \in Handles, NEW k \in Kinds, NEW cost \in Costs, Reserve(h, k, cost)
      PROVE  LedgerTypeOK'
  <2>1. cost \in Cost
    BY ConstantFacts
  <2>2. usage' \in [Kinds -> Cost]
    BY <2>1, <1>3, <1>c DEF Reserve
  <2>3. pipelines' \in Nat
    BY <1>0, <1>3 DEF Reserve, LedgerTypeOK
  <2> QED
    BY <2>1, <2>2, <2>3, <1>0, <1>3 DEF Reserve, LedgerTypeOK, leaseVars
<1>4. ASSUME NEW h \in Handles, NEW child \in Handles, NEW cost \in Costs, Stage(h, child, cost)
      PROVE  LedgerTypeOK'
  <2>1. cost \in Cost /\ balance[h] \in Cost /\ Fits(cost, balance[h])
    BY <1>0, <1>4, ConstantFacts DEF Stage, LedgerTypeOK
  <2>2. Minus(balance[h], cost) \in Cost
    BY <2>1, CostFacts
  <2>3. balance' \in [Handles -> Cost]
    BY <2>1, <2>2, <1>0, <1>4 DEF Stage, LedgerTypeOK
  <2>4. /\ handle' \in [Handles -> {"free", "live", "retired", "gone"}]
        /\ root' \in [Handles -> Handles \cup {NoHandle}] /\ parent' \in [Handles -> Handles \cup {NoHandle}]
    BY <1>0, <1>4 DEF Stage, LedgerTypeOK
  <2> QED
    BY <2>3, <2>4, <1>0, <1>4 DEF Stage, LedgerTypeOK, ledgerVars, pipeVars, leaseVars
<1>5. ASSUME NEW h \in Handles, NEW cost \in Costs, Grow(h, cost) PROVE LedgerTypeOK'
  <2>1. cost \in Cost
    BY ConstantFacts
  <2>2. kind[root[h]] \in Kinds
    BY <1>0, <1>5, Funded DEF Grow, Usable, LedgerTypeOK
  <2>3. usage' \in [Kinds -> Cost]
    BY <2>1, <2>2, <1>5, <1>c DEF Grow
  <2> QED
    BY <2>1, <2>3, <1>0, <1>5 DEF Grow, LedgerTypeOK, pipeVars, treeVars, leaseVars
<1>6. ASSUME NEW h \in Handles, FinishGrow(h) PROVE LedgerTypeOK'
  <2>1. root[h] \in Handles
    BY <1>0, <1>6, Funded DEF FinishGrow, Rooted
  <2>2. growth[h] \in Cost /\ total[root[h]] \in Cost /\ balance[h] \in Cost
    BY <2>1, <1>0 DEF LedgerTypeOK
  <2>3. Plus(total[root[h]], growth[h]) \in Cost /\ Plus(balance[h], growth[h]) \in Cost
        /\ Zero \in Cost
    BY <2>2, CostFacts
  <2> QED
    BY <2>3, <1>0, <1>6 DEF FinishGrow, LedgerTypeOK, ledgerVars, treeVars, leaseVars
<1>7. ASSUME Close PROVE LedgerTypeOK'
  BY <1>0, <1>7 DEF Close, LedgerTypeOK, pipeVars, treeVars, leaseVars
<1>8. ASSUME NEW h \in Handles, RetireHandle(h) PROVE LedgerTypeOK'
  <2>1. Zero \in Cost /\ balance[h] \in Cost /\ parent[h] \in Handles \cup {NoHandle}
    BY <1>0, CostFacts DEF LedgerTypeOK
  <2>2. refund' \in [Handles \cup Leases -> [at : Handles \cup {NoHandle}, cost : Cost]]
    BY <2>1, <1>8, <1>f DEF RetireHandle
  <2> QED
    BY <2>1, <2>2, <1>0, <1>8 DEF RetireHandle, LedgerTypeOK, ledgerVars, pipeVars, treeVars, leaseVars
<1>9. ASSUME NEW x \in Handles \cup Leases, RefundStep(x) PROVE LedgerTypeOK'
  <2> DEFINE at == refund[x].at
  <2>1. at \in Handles /\ refund[x].cost \in Cost
    BY <1>0, <1>9 DEF RefundStep, LedgerTypeOK
  <2>2. balance[at] \in Cost /\ Zero \in Cost /\ parent[at] \in Handles \cup {NoHandle}
    BY <2>1, <1>0, CostFacts DEF LedgerTypeOK
  <2>3. Plus(balance[at], refund[x].cost) \in Cost
    BY <2>1, <2>2, CostFacts
  <2>4. balance' \in [Handles -> Cost]
    <3>1. \/ balance' = [balance EXCEPT ![at] = Plus(balance[at], refund[x].cost)]
          \/ balance' = balance
      BY <1>9 DEF RefundStep
    <3>2. balance \in [Handles -> Cost]
      BY <1>0 DEF LedgerTypeOK
    <3> HIDE DEF at
    <3> QED
      BY <3>1, <3>2, <2>3
  <2>5. refund' \in [Handles \cup Leases -> [at : Handles \cup {NoHandle}, cost : Cost]]
    <3>1. Refunding(x, NoHandle, Zero) \/ Refunding(x, parent[at], refund[x].cost)
      BY <1>9 DEF RefundStep
    <3> QED
      BY <3>1, <2>1, <2>2, <1>f
  <2> QED
    BY <2>4, <2>5, <1>0, <1>9 DEF RefundStep, LedgerTypeOK, ledgerVars, pipeVars, treeVars, leaseVars
<1>10. ASSUME NEW h \in Handles, Release(h) PROVE LedgerTypeOK'
  BY <1>0, <1>10 DEF Release, LedgerTypeOK, ledgerVars, pipeVars, treeVars, leaseVars
<1>11. ASSUME NEW r \in Handles, ReleasePipeline(r) PROVE LedgerTypeOK'
  <2>1. kind[r] \in Kinds /\ r \in Charged(kind[r]) /\ total[r] \in Cost
    BY <1>0, <1>11 DEF ReleasePipeline, LedgerTypeOK, Charged
  <2>2. Fits(total[r], usage[kind[r]])
    BY <2>1, <1>0, Covered
  <2>3. usage' \in [Kinds -> Cost]
    BY <2>1, <2>2, <1>11, <1>d DEF ReleasePipeline
  <2>4. pipelines' \in Nat
    <3>1. CASE kind[r] = "Required"
      <4>1. r \in Charged("Required") /\ "Required" \in Kinds
        BY <2>1, <3>1
      <4>2. IsFiniteSet(Charged("Required")) /\ Charged("Required") # {}
        BY <4>1, <1>0, ChargesTyped
      <4>3. pipelines = Cardinality(Charged("Required"))
        BY DEF LedgerInv, LedgerBounded, LedgerExact
      <4>4. pipelines \in Nat /\ pipelines # 0
        BY <4>2, <4>3, <1>0, FS_EmptySet DEF LedgerTypeOK
      <4> QED
        BY <4>4, <3>1, <1>11 DEF ReleasePipeline
    <3>2. CASE kind[r] # "Required"
      BY <3>2, <1>0, <1>11 DEF ReleasePipeline, LedgerTypeOK
    <3> QED
      BY <3>1, <3>2
  <2> QED
    BY <2>3, <2>4, <1>0, <1>11 DEF ReleasePipeline, LedgerTypeOK, treeVars, leaseVars
<1>12. ASSUME NEW h \in Handles, NEW l \in Leases, NEW cost \in Costs, Retain(h, l, cost.bytes)
       PROVE  LedgerTypeOK'
  <2> DEFINE n == cost.bytes
  <2>1. n \in Nat /\ Bytes(n) \in Cost
    BY ConstantFacts, CostFacts
  <2>2. Alive(h) /\ root[h] \in Handles /\ Fits(balance[h], total[root[h]])
    BY <1>0, <1>12, Funded DEF Retain, Usable
  <2>3. balance[h] \in Cost /\ total[root[h]] \in Cost /\ Fits(Bytes(n), balance[h])
    <3>1. balance[h] \in Cost /\ total[root[h]] \in Cost /\ n \in 1 .. balance[h].bytes
      BY <2>2, <1>0, <1>12 DEF LedgerTypeOK, Retain
    <3> QED
      BY <3>1, <2>1 DEF Fits, Bytes, Cost
  <2>4. Fits(Bytes(n), total[root[h]])
    BY <2>1, <2>2, <2>3 DEF Fits, Bytes, Cost
  <2>5. Minus(balance[h], Bytes(n)) \in Cost /\ Minus(total[root[h]], Bytes(n)) \in Cost
    BY <2>1, <2>3, <2>4, CostFacts
  <2> QED
    BY <2>1, <2>5, <1>0, <1>12 DEF Retain, LedgerTypeOK, ledgerVars, treeVars
<1>13. ASSUME NEW l \in Leases, DropLease(l) PROVE LedgerTypeOK'
  <2>1. root[bank[l]] \in Handles /\ bytes[l] \in Nat /\ bank[l] \in Handles
    BY <1>0, <1>13, RootFacts DEF DropLease, Leased, LedgerTypeOK
  <2>2. kind[root[bank[l]]] \in Kinds /\ l \in Detached(kind[root[bank[l]]])
    BY <2>1, <1>0, <1>13 DEF DropLease, LedgerTypeOK, Detached
  <2>3. Fits(Bytes(bytes[l]), usage[kind[root[bank[l]]]]) /\ Bytes(bytes[l]) \in Cost
    BY <2>1, <2>2, <1>0, Covered, CostFacts
  <2>4. usage' \in [Kinds -> Cost]
    BY <2>2, <2>3, <1>0, <1>13, <1>d DEF DropLease, LedgerTypeOK
  <2> QED
    BY <2>4, <1>0, <1>13 DEF DropLease, LedgerTypeOK, pipeVars, treeVars
<1>14. ASSUME NEW l \in Leases, ReturnBytes(l) PROVE LedgerTypeOK'
  <2>1. root[bank[l]] \in Handles /\ bytes[l] \in Nat /\ bank[l] \in Handles
    BY <1>0, <1>14, RootFacts DEF ReturnBytes, Leased, LedgerTypeOK
  <2>2. Bytes(bytes[l]) \in Cost /\ total[root[bank[l]]] \in Cost
    BY <2>1, <1>0, CostFacts DEF LedgerTypeOK
  <2>3. Plus(total[root[bank[l]]], Bytes(bytes[l])) \in Cost
    BY <2>2, CostFacts
  <2>4. refund' \in [Handles \cup Leases -> [at : Handles \cup {NoHandle}, cost : Cost]]
    BY <2>1, <2>2, <1>14, <1>f DEF ReturnBytes
  <2> QED
    BY <2>3, <2>4, <1>0, <1>14 DEF ReturnBytes, LedgerTypeOK, ledgerVars, treeVars
<1>15. ASSUME NEW l \in Leases, ForgetPipeline(l) PROVE LedgerTypeOK'
  BY <1>0, <1>15 DEF ForgetPipeline, LedgerTypeOK, ledgerVars, pipeVars, treeVars
<1> QED
  BY <1>1, <1>2, <1>3, <1>4, <1>5, <1>6, <1>7, <1>8, <1>9, <1>10, <1>11, <1>12, <1>13,
     <1>14, <1>15 DEF LedgerNext, LedgerStep, HandleStep, LeaseStep

-----------------------------------------------------------------------------
(* The trees *)

\* Steps that make no handle and end no pipeline keep the shape of the trees.
LEMMA ShapeKept ==
  ASSUME Rooted, UNCHANGED <<pipe, handle, root, parent>>,
         \A h \in Handles : growth'[h] # Zero => Alive(h),
         \A h \in Handles : ~Alive(h) => balance'[h] = Zero,
         \A h \in Handles :
           refund'[h].at # NoHandle => handle[h] = "retired" /\ root[refund'[h].at] = root[h]
  PROVE  Rooted'
BY DEF Rooted, Alive

LEMMA LeasesKept ==
  ASSUME Leased, UNCHANGED <<pipe, root, lease, bank>>,
         \A l \in Leases : refund'[l].at # NoHandle =>
           lease[l] = "refunding" /\ root[refund'[l].at] = root[bank[l]]
  PROVE  Leased'
BY DEF Leased

LEMMA ShapeSteps ==
  ASSUME ReservationAssumption, LedgerTypeOK, Rooted, Leased, LedgerNext
  PROVE  Rooted' /\ Leased'
<1>h. /\ Handles \cap Leases = {} /\ NoHandle \notin Handles
      /\ \A h \in Handles : h \notin Leases
      /\ \A h \in Handles : h \in Handles \cup Leases
      /\ \A l \in Leases : l \in Handles \cup Leases
      /\ \A l \in Leases : l \notin Handles
  BY DEF ReservationAssumption
<1>t. /\ handle \in [Handles -> {"free", "live", "retired", "gone"}]
      /\ root \in [Handles -> Handles \cup {NoHandle}] /\ parent \in [Handles -> Handles \cup {NoHandle}]
      /\ pipe \in [Handles -> {"none", "charged", "released"}]
      /\ balance \in [Handles -> Cost] /\ growth \in [Handles -> Cost]
      /\ lease \in [Leases -> {"free", "held", "upgraded", "refunding", "gone"}]
      /\ bank \in [Leases -> Handles \cup {NoHandle}]
      /\ refund \in [Handles \cup Leases -> [at : Handles \cup {NoHandle}, cost : Cost]]
  BY DEF LedgerTypeOK
<1>r. \A h \in Handles : growth[h] # Zero => Alive(h)
  BY DEF Rooted
<1>b. \A h \in Handles : ~Alive(h) => balance[h] = Zero
  BY DEF Rooted
<1>f. \A h \in Handles : refund[h].at # NoHandle => handle[h] = "retired" /\ root[refund[h].at] = root[h]
  BY DEF Rooted
<1>g. \A l \in Leases : refund[l].at # NoHandle =>
        lease[l] = "refunding" /\ root[refund[l].at] = root[bank[l]]
  BY DEF Leased
<1>x. /\ \A h \in Handles : handle[h] # "free" => root[h] \in Handles /\ handle[root[h]] # "free"
      /\ \A h \in Handles : parent[h] # NoHandle => parent[h] \in Handles
      /\ \A h \in Handles : root[h] # NoHandle => root[h] \in Handles
      /\ \A y \in Handles \cup Leases : refund[y].at # NoHandle => refund[y].at \in Handles
      /\ \A l \in Leases : bank[l] # NoHandle => bank[l] \in Handles
      /\ \A h, y \in Handles : handle[h] = "free" => (y # h => root[y] # h)
  BY RootFacts
<1>e. ASSUME UNCHANGED <<pipe, handle, root, parent, balance, growth, lease, bank, refund>>
      PROVE  Rooted' /\ Leased'
  BY <1>e DEF Rooted, Leased, Alive
<1>1. ASSUME NEW n \in Batches, ChargeOwned(n) PROVE Rooted' /\ Leased'
  BY <1>1, <1>e DEF ChargeOwned, pipeVars, treeVars, leaseVars
<1>2. ASSUME DropOwned PROVE Rooted' /\ Leased'
  BY <1>2, <1>e DEF DropOwned, pipeVars, treeVars, leaseVars
<1>3. ASSUME NEW h \in Handles, NEW k \in Kinds, NEW cost \in Costs, Reserve(h, k, cost)
      PROVE  Rooted' /\ Leased'
  <2>1. /\ handle[h] = "free" /\ handle' = [handle EXCEPT ![h] = "live"]
        /\ root' = [root EXCEPT ![h] = h] /\ pipe' = [pipe EXCEPT ![h] = "charged"]
        /\ balance' = [balance EXCEPT ![h] = cost]
        /\ UNCHANGED <<parent, growth, lease, bank, refund>>
    BY <1>3 DEF Reserve, leaseVars
  <2>2. root[h] = NoHandle /\ parent[h] = NoHandle
    BY <2>1 DEF Rooted
  <2>3. \A y \in Handles : y # h => /\ root'[y] = root[y] /\ root[y] # h /\ pipe'[y] = pipe[y]
                                    /\ handle'[y] = handle[y] /\ balance'[y] = balance[y]
    BY <2>1, <1>x, <1>t
  <2>4. /\ root'[h] = h /\ pipe'[h] = "charged" /\ handle'[h] = "live" /\ parent'[h] = NoHandle
    BY <2>1, <2>2, <1>t
  <2>5. refund[h].at = NoHandle
    BY <2>1, <1>f
  <2>6. Rooted'
    <3> SUFFICES ASSUME NEW y \in Handles
                 PROVE  /\ handle'[y] = "free" <=> root'[y] = NoHandle
                        /\ handle'[y] = "free" => parent'[y] = NoHandle
                        /\ handle'[y] # "free" => root'[root'[y]] = root'[y]
                        /\ pipe'[y] # "none" <=> root'[y] = y
                        /\ handle'[y] \in {"live", "retired"} => pipe'[root'[y]] = "charged"
                        /\ parent'[y] # NoHandle => root'[parent'[y]] = root'[y]
                        /\ handle'[y] # "free" /\ parent'[y] = NoHandle => root'[y] = y
                        /\ growth'[y] # Zero => handle'[y] = "live"
                        /\ handle'[y] # "live" => balance'[y] = Zero
                        /\ refund'[y].at # NoHandle =>
                             handle'[y] = "retired" /\ root'[refund'[y].at] = root'[y]
      BY DEF Rooted, Alive
    <3>1. CASE y = h
      BY <3>1, <2>1, <2>2, <2>4, <2>5, <1>h
    <3>2. CASE y # h
      <4>1. /\ handle[y] = "free" <=> root[y] = NoHandle
            /\ handle[y] = "free" => parent[y] = NoHandle
            /\ handle[y] # "free" => root[root[y]] = root[y]
            /\ pipe[y] # "none" <=> root[y] = y
            /\ handle[y] \in {"live", "retired"} => pipe[root[y]] = "charged"
            /\ parent[y] # NoHandle => root[parent[y]] = root[y]
            /\ handle[y] # "free" /\ parent[y] = NoHandle => root[y] = y
            /\ growth[y] # Zero => handle[y] = "live"
            /\ handle[y] # "live" => balance[y] = Zero
            /\ refund[y].at # NoHandle => handle[y] = "retired" /\ root[refund[y].at] = root[y]
        BY DEF Rooted, Alive
      <4>2. parent[y] # NoHandle => parent[y] # h
        <5>1. root[y] # NoHandle => root[y] # h
          BY <3>2, <2>3
        <5>2. ASSUME parent[y] = h PROVE FALSE
          <6>1. root[h] = root[y]
            BY <5>2, <4>1, <1>h
          <6> QED
            BY <6>1, <5>2, <2>2, <4>1, <1>h
        <5> QED
          BY <5>2
      <4>3. refund[y].at # NoHandle => refund[y].at \in Handles /\ refund[y].at # h
        <5>1. handle[y] = "retired" => root[y] # NoHandle
          BY <4>1
        <5> QED
          BY <5>1, <4>1, <2>2, <1>x, <1>h
      <4> QED
        BY <4>1, <4>2, <4>3, <3>2, <2>1, <2>3, <1>x
    <3> QED
      BY <3>1, <3>2
  <2>7. Leased'
    <3> SUFFICES ASSUME NEW l \in Leases
                 PROVE  /\ lease[l] # "free" => bank[l] # NoHandle /\ root'[bank[l]] # NoHandle
                        /\ lease[l] \in {"upgraded", "refunding"} => pipe'[root'[bank[l]]] = "charged"
                        /\ refund[l].at # NoHandle =>
                             lease[l] = "refunding" /\ root'[refund[l].at] = root'[bank[l]]
      BY <2>1 DEF Leased
    <3>1. /\ lease[l] # "free" => bank[l] # NoHandle /\ root[bank[l]] # NoHandle
          /\ lease[l] \in {"upgraded", "refunding"} => pipe[root[bank[l]]] = "charged"
          /\ refund[l].at # NoHandle => lease[l] = "refunding" /\ root[refund[l].at] = root[bank[l]]
      BY DEF Leased
    <3>2. lease[l] # "free" => /\ bank[l] \in Handles /\ bank[l] # h
                               /\ root'[bank[l]] = root[bank[l]] /\ root[bank[l]] # h
                               /\ pipe'[root[bank[l]]] = pipe[root[bank[l]]]
      BY <3>1, <2>2, <2>3, <1>x
    <3>3. refund[l].at # NoHandle => refund[l].at \in Handles /\ root[refund[l].at] # NoHandle
      BY <3>1, <1>x, <1>h
    <3> QED
      BY <3>1, <3>2, <3>3, <2>2, <2>3
  <2> QED
    BY <2>6, <2>7
<1>4. ASSUME NEW h \in Handles, NEW child \in Handles, NEW cost \in Costs, Stage(h, child, cost)
      PROVE  Rooted' /\ Leased'
  <2>1. /\ handle[h] = "live" /\ handle[child] = "free" /\ h # child
        /\ handle' = [handle EXCEPT ![child] = "live"]
        /\ root' = [root EXCEPT ![child] = root[h]] /\ parent' = [parent EXCEPT ![child] = h]
        /\ balance' = [balance EXCEPT ![h] = Minus(@, cost), ![child] = cost]
        /\ UNCHANGED <<pipe, growth, lease, bank, refund>>
    BY <1>4 DEF Stage, Usable, Alive, pipeVars, leaseVars
  <2>0. UNCHANGED <<pipe, growth, refund>>
    BY <2>1
  <2>2. /\ root[child] = NoHandle /\ parent[child] = NoHandle /\ pipe[child] = "none"
        /\ root[h] \in Handles /\ root[h] # child /\ root[root[h]] = root[h]
        /\ pipe[root[h]] = "charged"
    BY <2>1, <1>x, <1>h DEF Rooted
  <2>3. \A y \in Handles : y # child => /\ root'[y] = root[y] /\ root[y] # child
                                        /\ parent'[y] = parent[y] /\ handle'[y] = handle[y]
                                        /\ (y # h => balance'[y] = balance[y])
    BY <2>1, <1>x, <1>t
  <2>4. root'[child] = root[h] /\ handle'[child] = "live" /\ parent'[child] = h
    BY <2>1, <1>t
  <2>5. refund[child].at = NoHandle
    BY <2>1, <1>f
  <2>6. Rooted'
    <3> SUFFICES ASSUME NEW y \in Handles
                 PROVE  /\ handle'[y] = "free" <=> root'[y] = NoHandle
                        /\ handle'[y] = "free" => parent'[y] = NoHandle
                        /\ handle'[y] # "free" => root'[root'[y]] = root'[y]
                        /\ pipe[y] # "none" <=> root'[y] = y
                        /\ handle'[y] \in {"live", "retired"} => pipe[root'[y]] = "charged"
                        /\ parent'[y] # NoHandle => root'[parent'[y]] = root'[y]
                        /\ handle'[y] # "free" /\ parent'[y] = NoHandle => root'[y] = y
                        /\ growth[y] # Zero => handle'[y] = "live"
                        /\ handle'[y] # "live" => balance'[y] = Zero
                        /\ refund[y].at # NoHandle =>
                             handle'[y] = "retired" /\ root'[refund[y].at] = root'[y]
      BY <2>0 DEF Rooted, Alive
    <3>1. CASE y = child
      BY <3>1, <2>1, <2>2, <2>3, <2>4, <2>5, <1>h
    <3>2. CASE y # child
      <4>1. /\ handle[y] = "free" <=> root[y] = NoHandle
            /\ handle[y] = "free" => parent[y] = NoHandle
            /\ handle[y] # "free" => root[root[y]] = root[y]
            /\ pipe[y] # "none" <=> root[y] = y
            /\ handle[y] \in {"live", "retired"} => pipe[root[y]] = "charged"
            /\ parent[y] # NoHandle => root[parent[y]] = root[y]
            /\ handle[y] # "free" /\ parent[y] = NoHandle => root[y] = y
            /\ growth[y] # Zero => handle[y] = "live"
            /\ handle[y] # "live" => balance[y] = Zero
            /\ refund[y].at # NoHandle => handle[y] = "retired" /\ root[refund[y].at] = root[y]
        BY DEF Rooted, Alive
      <4>2. parent[y] # child
        BY <4>1, <2>2, <1>h
      <4>3. refund[y].at # NoHandle => refund[y].at \in Handles /\ refund[y].at # child
        <5>1. handle[y] = "retired" => root[y] # NoHandle
          BY <4>1
        <5> QED
          BY <5>1, <4>1, <2>2, <1>x, <1>h
      <4>4. root[y] # NoHandle => root[y] \in Handles /\ root[y] # child
        BY <3>2, <2>3, <1>x
      <4>5. /\ root'[y] = root[y] /\ parent'[y] = parent[y] /\ handle'[y] = handle[y]
            /\ (parent[y] # NoHandle => root'[parent[y]] = root[parent[y]])
            /\ (root[y] # NoHandle => root'[root[y]] = root[root[y]])
            /\ (refund[y].at # NoHandle => root'[refund[y].at] = root[refund[y].at])
        BY <4>2, <4>3, <4>4, <3>2, <2>3, <1>x
      <4>6. handle'[y] # "live" => balance'[y] = Zero
        BY <4>1, <4>5, <3>2, <2>1, <2>3
      <4> QED
        BY <4>1, <4>5, <4>6
    <3> QED
      BY <3>1, <3>2
  <2>7. Leased'
    <3> SUFFICES ASSUME NEW l \in Leases
                 PROVE  /\ lease[l] # "free" => bank[l] # NoHandle /\ root'[bank[l]] # NoHandle
                        /\ lease[l] \in {"upgraded", "refunding"} => pipe[root'[bank[l]]] = "charged"
                        /\ refund[l].at # NoHandle =>
                             lease[l] = "refunding" /\ root'[refund[l].at] = root'[bank[l]]
      BY <2>1 DEF Leased
    <3>1. /\ lease[l] # "free" => bank[l] # NoHandle /\ root[bank[l]] # NoHandle
          /\ lease[l] \in {"upgraded", "refunding"} => pipe[root[bank[l]]] = "charged"
          /\ refund[l].at # NoHandle => lease[l] = "refunding" /\ root[refund[l].at] = root[bank[l]]
      BY DEF Leased
    <3>2. lease[l] # "free" => bank[l] \in Handles /\ bank[l] # child /\ root'[bank[l]] = root[bank[l]]
      BY <3>1, <2>2, <2>3, <1>x
    <3>3. refund[l].at # NoHandle => refund[l].at \in Handles /\ root[refund[l].at] # NoHandle
      BY <3>1, <1>x, <1>h
    <3> QED
      BY <3>1, <3>2, <3>3, <2>2, <2>3
  <2> QED
    BY <2>6, <2>7
<1>5. ASSUME NEW h \in Handles, NEW cost \in Costs, Grow(h, cost) PROVE Rooted' /\ Leased'
  <2>1. /\ Alive(h) /\ growth' = [growth EXCEPT ![h] = cost]
        /\ UNCHANGED <<pipe, handle, root, parent, balance, lease, bank, refund>>
    BY <1>5 DEF Grow, Usable, pipeVars, treeVars, leaseVars
  <2>2. \A y \in Handles : growth'[y] # Zero => Alive(y)
    BY <2>1, <1>r, <1>t
  <2> QED
    BY <2>1, <2>2, <1>b, <1>f, <1>g, ShapeKept, LeasesKept
<1>6. ASSUME NEW h \in Handles, FinishGrow(h) PROVE Rooted' /\ Leased'
  <2>1. /\ growth[h] # Zero /\ growth' = [growth EXCEPT ![h] = Zero]
        /\ balance' = [balance EXCEPT ![h] = Plus(@, growth[h])]
        /\ UNCHANGED <<pipe, handle, root, parent, lease, bank, refund>>
    BY <1>6 DEF FinishGrow, treeVars, leaseVars
  <2>2. \A y \in Handles : growth'[y] # Zero => Alive(y)
    BY <2>1, <1>r, <1>t
  <2>3. \A y \in Handles : ~Alive(y) => balance'[y] = Zero
    BY <2>1, <1>r, <1>b, <1>t
  <2> QED
    BY <2>1, <2>2, <2>3, <1>f, <1>g, ShapeKept, LeasesKept
<1>7. ASSUME Close PROVE Rooted' /\ Leased'
  BY <1>7, <1>e DEF Close, pipeVars, treeVars, leaseVars
<1>8. ASSUME NEW h \in Handles, RetireHandle(h) PROVE Rooted' /\ Leased'
  <2>1. /\ handle[h] = "live" /\ growth[h] = Zero /\ handle' = [handle EXCEPT ![h] = "retired"]
        /\ balance' = [balance EXCEPT ![h] = Zero]
        /\ \E cost : refund' = [refund EXCEPT ![h] = [at |-> parent[h], cost |-> cost]]
        /\ UNCHANGED <<pipe, root, parent, growth, lease, bank>>
    BY <1>8 DEF RetireHandle, Usable, Alive, Refunding, pipeVars, treeVars, leaseVars
  <2>2. refund'[h].at = parent[h] /\ \A y \in Handles \cup Leases : y # h => refund'[y] = refund[y]
    BY <2>1, <1>t, <1>h
  <2>3. Rooted'
    <3> SUFFICES ASSUME NEW y \in Handles
                 PROVE  /\ handle'[y] = "free" <=> root[y] = NoHandle
                        /\ handle'[y] = "free" => parent[y] = NoHandle
                        /\ handle'[y] # "free" => root[root[y]] = root[y]
                        /\ pipe[y] # "none" <=> root[y] = y
                        /\ handle'[y] \in {"live", "retired"} => pipe[root[y]] = "charged"
                        /\ parent[y] # NoHandle => root[parent[y]] = root[y]
                        /\ handle'[y] # "free" /\ parent[y] = NoHandle => root[y] = y
                        /\ growth[y] # Zero => handle'[y] = "live"
                        /\ handle'[y] # "live" => balance'[y] = Zero
                        /\ refund'[y].at # NoHandle =>
                             handle'[y] = "retired" /\ root[refund'[y].at] = root[y]
      BY <2>1 DEF Rooted, Alive
    <3>1. /\ handle[y] = "free" <=> root[y] = NoHandle
          /\ handle[y] = "free" => parent[y] = NoHandle
          /\ handle[y] # "free" => root[root[y]] = root[y]
          /\ pipe[y] # "none" <=> root[y] = y
          /\ handle[y] \in {"live", "retired"} => pipe[root[y]] = "charged"
          /\ parent[y] # NoHandle => root[parent[y]] = root[y]
          /\ handle[y] # "free" /\ parent[y] = NoHandle => root[y] = y
          /\ growth[y] # Zero => handle[y] = "live"
          /\ handle[y] # "live" => balance[y] = Zero
          /\ refund[y].at # NoHandle => handle[y] = "retired" /\ root[refund[y].at] = root[y]
      BY DEF Rooted, Alive
    <3>2. CASE y = h
      <4>1. handle'[h] = "retired" /\ balance'[h] = Zero
        BY <2>1, <1>t
      <4> QED
        BY <4>1, <3>1, <3>2, <2>1, <2>2
    <3>3. CASE y # h
      <4>1. handle'[y] = handle[y] /\ balance'[y] = balance[y] /\ refund'[y] = refund[y]
        BY <3>3, <2>1, <2>2, <1>t, <1>h
      <4> QED
        BY <4>1, <3>1
    <3> QED
      BY <3>2, <3>3
  <2>4. Leased'
    BY <2>1, <2>2, <1>h, <1>g, LeasesKept
  <2> QED
    BY <2>3, <2>4
<1>9. ASSUME NEW x \in Handles \cup Leases, RefundStep(x) PROVE Rooted' /\ Leased'
  <2> DEFINE at == refund[x].at
  <2>1. /\ at # NoHandle /\ at \in Handles
        /\ UNCHANGED <<pipe, handle, root, parent, growth, lease, bank>>
    BY <1>9, <1>x DEF RefundStep, pipeVars, treeVars, leaseVars
  <2>2. \E to \in {NoHandle, parent[at]} : \E cost :
          refund' = [refund EXCEPT ![x] = [at |-> to, cost |-> cost]]
    BY <1>9 DEF RefundStep, Refunding
  <2>3. /\ \A y \in Handles \cup Leases : y # x => refund'[y] = refund[y]
        /\ refund'[x].at # NoHandle => refund'[x].at = parent[at] /\ root[parent[at]] = root[at]
    BY <2>1, <2>2, <1>t DEF Rooted
  <2>4. \A y \in Handles : ~Alive(y) => balance'[y] = Zero
    <3>1. balance' = balance \/ (Alive(at) /\ \E cost : balance' = [balance EXCEPT ![at] = cost])
      BY <1>9 DEF RefundStep
    <3> QED
      BY <3>1, <2>1, <1>b, <1>t
  <2>5. \A y \in Handles : refund'[y].at # NoHandle =>
          handle[y] = "retired" /\ root[refund'[y].at] = root[y]
    BY <2>1, <2>3, <1>f, <1>h
  <2>6. \A l \in Leases : refund'[l].at # NoHandle =>
          lease[l] = "refunding" /\ root[refund'[l].at] = root[bank[l]]
    BY <2>1, <2>3, <1>g, <1>h
  <2> QED
    BY <2>1, <2>4, <2>5, <2>6, <1>r, ShapeKept, LeasesKept
<1>10. ASSUME NEW h \in Handles, Release(h) PROVE Rooted' /\ Leased'
  <2>1. /\ handle[h] = "retired" /\ refund[h].at = NoHandle /\ handle' = [handle EXCEPT ![h] = "gone"]
        /\ UNCHANGED <<pipe, root, parent, balance, growth, lease, bank, refund>>
    BY <1>10 DEF Release, pipeVars, treeVars, leaseVars
  <2>2. Rooted'
    BY <2>1, <1>t DEF Rooted, Alive
  <2> QED
    BY <2>1, <2>2 DEF Leased
<1>11. ASSUME NEW r \in Handles, ReleasePipeline(r) PROVE Rooted' /\ Leased'
  <2>1. /\ pipe[r] = "charged" /\ pipe' = [pipe EXCEPT ![r] = "released"] /\ Refs(r) = {}
        /\ UNCHANGED <<handle, root, parent, balance, growth, lease, bank, refund>>
    BY <1>11 DEF ReleasePipeline, treeVars, leaseVars
  <2>2. /\ \A h \in Handles : handle[h] \in {"live", "retired"} => root[h] # r
        /\ \A l \in Leases : lease[l] \in {"upgraded", "refunding"} => root[bank[l]] # r
    BY <2>1 DEF Refs
  <2>3. /\ \A h \in Handles : h # r => pipe'[h] = pipe[h]
        /\ pipe'[r] = "released"
    BY <2>1, <1>t
  <2>4. \A h \in Handles : handle[h] \in {"live", "retired"} => pipe'[root[h]] = "charged"
    BY <2>2, <2>3, <1>x DEF Rooted
  <2>5. \A h \in Handles : pipe'[h] # "none" <=> root[h] = h
    BY <2>1, <2>3 DEF Rooted
  <2>6. Rooted'
    BY <2>1, <2>4, <2>5 DEF Rooted, Alive
  <2>7. \A l \in Leases : lease[l] \in {"upgraded", "refunding"} => pipe'[root[bank[l]]] = "charged"
    BY <2>2, <2>3, <1>x DEF Leased
  <2> QED
    BY <2>1, <2>6, <2>7 DEF Leased
<1>12. ASSUME NEW h \in Handles, NEW l \in Leases, NEW cost \in Costs, Retain(h, l, cost.bytes)
       PROVE  Rooted' /\ Leased'
  <2>1. /\ Alive(h) /\ lease[l] = "free" /\ lease' = [lease EXCEPT ![l] = "held"]
        /\ bank' = [bank EXCEPT ![l] = h]
        /\ \E c : balance' = [balance EXCEPT ![h] = c]
        /\ UNCHANGED <<pipe, handle, root, parent, growth, refund>>
    BY <1>12 DEF Retain, Usable, treeVars
  <2>2. \A y \in Handles : ~Alive(y) => balance'[y] = Zero
    BY <2>1, <1>b, <1>t
  <2>3. root[h] # NoHandle /\ h # NoHandle
    BY <2>1, <1>h DEF Rooted, Alive
  <2>4. Leased'
    BY <2>1, <2>3, <1>g, <1>t DEF Leased
  <2> QED
    BY <2>1, <2>2, <2>4, <1>r, <1>f, ShapeKept
<1>13. ASSUME NEW l \in Leases, DropLease(l) PROVE Rooted' /\ Leased'
  <2>1. /\ lease[l] = "held" /\ UNCHANGED <<pipe, handle, root, parent, balance, growth, bank, refund>>
        /\ \/ Refs(root[bank[l]]) # {} /\ lease' = [lease EXCEPT ![l] = "upgraded"]
           \/ lease' = [lease EXCEPT ![l] = "gone"]
    BY <1>13 DEF DropLease, pipeVars, treeVars
  <2>2. Refs(root[bank[l]]) # {} => pipe[root[bank[l]]] = "charged"
    BY DEF Refs, Rooted, Leased
  <2>3. Leased'
    BY <2>1, <2>2, <1>t DEF Leased
  <2> QED
    BY <2>1, <2>3, <1>r, <1>b, <1>f, ShapeKept
<1>14. ASSUME NEW l \in Leases, ReturnBytes(l) PROVE Rooted' /\ Leased'
  <2>1. /\ lease[l] = "upgraded" /\ lease' = [lease EXCEPT ![l] = "refunding"]
        /\ UNCHANGED <<pipe, handle, root, parent, balance, growth, bank>>
        /\ \E cost : refund' = [refund EXCEPT ![l] = [at |-> bank[l], cost |-> cost]]
    BY <1>14 DEF ReturnBytes, Refunding, treeVars
  <2>2. refund'[l].at = bank[l] /\ \A y \in Handles \cup Leases : y # l => refund'[y] = refund[y]
    BY <2>1, <1>t, <1>h
  <2>3. Leased'
    BY <2>1, <2>2, <1>t, <1>h DEF Leased
  <2>4. \A y \in Handles : refund'[y] = refund[y]
    BY <2>2, <1>h
  <2> QED
    BY <2>1, <2>3, <2>4, <1>r, <1>b, <1>f, ShapeKept
<1>15. ASSUME NEW l \in Leases, ForgetPipeline(l) PROVE Rooted' /\ Leased'
  <2>1. /\ refund[l].at = NoHandle /\ lease' = [lease EXCEPT ![l] = "gone"] /\ lease[l] = "refunding"
        /\ UNCHANGED <<pipe, handle, root, parent, balance, growth, bank, refund>>
    BY <1>15 DEF ForgetPipeline, pipeVars, treeVars
  <2>2. Leased'
    BY <2>1, <1>t DEF Leased
  <2> QED
    BY <2>1, <2>2, <1>r, <1>b, <1>f, ShapeKept
<1> QED
  BY <1>1, <1>2, <1>3, <1>4, <1>5, <1>6, <1>7, <1>8, <1>9, <1>10, <1>11, <1>12, <1>13,
     <1>14, <1>15 DEF LedgerNext, LedgerStep, HandleStep, LeaseStep

-----------------------------------------------------------------------------
(* The ledger *)

Books == /\ \A k \in Kinds : Balanced(k)
         /\ pipelines = Cardinality(Charged("Required"))

\* A change of one pipeline leaves the other terms of the pipelines' charges.
LEMMA PipelinesShift ==
  ASSUME ReservationAssumption, LedgerTypeOK, LedgerTypeOK', NEW r \in Handles, NEW k \in Kinds,
         \A x \in Handles : x # r => total'[x] = total[x] /\ pipe'[x] = pipe[x] /\ kind'[x] = kind[x]
  PROVE  \E rest \in Cost :
           /\ PipelineCharges(k) = IF r \in Charged(k) THEN Plus(total[r], rest) ELSE rest
           /\ PipelineCharges(k)' = IF r \in Charged(k)' THEN Plus(total'[r], rest) ELSE rest
<1>1. IsFiniteSet(Charged(k))
  BY ChargesTyped
<1>2. Charged(k)' \in SUBSET Handles
  BY DEF Charged
<1>3. IsFiniteSet(Charged(k)')
  BY <1>2, FS_Subset DEF ReservationAssumption
<1>4. Charged(k) \ {r} = Charged(k)' \ {r}
  BY DEF Charged
<1>5. /\ \A x \in Charged(k) : total[x] \in Cost
      /\ \A x \in Charged(k)' : total'[x] \in Cost
      /\ \A x \in Charged(k) \ {r} : total[x] = total'[x]
  BY DEF Charged, LedgerTypeOK
<1> DEFINE T == Charged(k)'
           g == total'
<1>6. \E rest \in Cost :
        /\ SumOf(total, Charged(k)) = IF r \in Charged(k) THEN Plus(total[r], rest) ELSE rest
        /\ SumOf(g, T) = IF r \in T THEN Plus(g[r], rest) ELSE rest
  <2> HIDE DEF T, g
  <2>1. IsFiniteSet(T) /\ Charged(k) \ {r} = T \ {r} /\ \A x \in T : g[x] \in Cost
    BY <1>3, <1>4, <1>5 DEF T, g
  <2>2. \A x \in Charged(k) \ {r} : total[x] = g[x]
    BY <1>5 DEF g
  <2> QED
    BY <1>1, <1>5, <2>1, <2>2, CostSumShift
<1> QED
  BY <1>6 DEF PipelineCharges

LEMMA GrowthShift ==
  ASSUME ReservationAssumption, LedgerTypeOK, LedgerTypeOK', NEW h \in Handles, NEW k \in Kinds,
         \A x \in Handles : x # h => growth'[x] = growth[x],
         UNCHANGED <<kind, root>>
  PROVE  \E rest \in Cost :
           /\ GrowthCharges(k) = IF h \in Growing(k) THEN Plus(growth[h], rest) ELSE rest
           /\ GrowthCharges(k)' = IF h \in Growing(k)' THEN Plus(growth'[h], rest) ELSE rest
<1>1. IsFiniteSet(Growing(k))
  BY ChargesTyped
<1>2. Growing(k)' \in SUBSET Handles
  BY DEF Growing
<1>3. IsFiniteSet(Growing(k)')
  BY <1>2, FS_Subset DEF ReservationAssumption
<1>4. Growing(k) \ {h} = Growing(k)' \ {h}
  BY DEF Growing
<1>5. /\ \A x \in Growing(k) : growth[x] \in Cost
      /\ \A x \in Growing(k)' : growth'[x] \in Cost
      /\ \A x \in Growing(k) \ {h} : growth[x] = growth'[x]
  BY DEF Growing, LedgerTypeOK
<1> DEFINE T == Growing(k)'
           g == growth'
<1>6. \E rest \in Cost :
        /\ SumOf(growth, Growing(k)) = IF h \in Growing(k) THEN Plus(growth[h], rest) ELSE rest
        /\ SumOf(g, T) = IF h \in T THEN Plus(g[h], rest) ELSE rest
  <2> HIDE DEF T, g
  <2>1. IsFiniteSet(T) /\ Growing(k) \ {h} = T \ {h} /\ \A x \in T : g[x] \in Cost
    BY <1>3, <1>4, <1>5 DEF T, g
  <2>2. \A x \in Growing(k) \ {h} : growth[x] = g[x]
    BY <1>5 DEF g
  <2> QED
    BY <1>1, <1>5, <2>1, <2>2, CostSumShift
<1> QED
  BY <1>6 DEF GrowthCharges

LEMMA LeasesShift ==
  ASSUME ReservationAssumption, LedgerTypeOK, LedgerTypeOK', NEW l \in Leases, NEW k \in Kinds,
         \A x \in Leases : x # l => lease'[x] = lease[x] /\ bank'[x] = bank[x] /\ bytes'[x] = bytes[x],
         UNCHANGED <<kind, root>>
  PROVE  \E rest \in Cost :
           /\ LeaseCharges(k) = IF l \in Detached(k) THEN Plus(Bytes(bytes[l]), rest) ELSE rest
           /\ LeaseCharges(k)' = IF l \in Detached(k)' THEN Plus(Bytes(bytes'[l]), rest) ELSE rest
<1>1. IsFiniteSet(Detached(k)) /\ \A x \in Leases : LeaseCost[x] = Bytes(bytes[x]) /\ LeaseCost[x] \in Cost
  BY ChargesTyped
<1>2. Detached(k)' \in SUBSET Leases /\ Detached(k) \in SUBSET Leases
  BY DEF Detached
<1>3. IsFiniteSet(Detached(k)')
  BY <1>2, FS_Subset DEF ReservationAssumption
<1>4. Detached(k) \ {l} = Detached(k)' \ {l}
  BY DEF Detached
<1> DEFINE T == Detached(k)'
           g == LeaseCost'
<1>5. \A x \in Leases : g[x] = Bytes(bytes'[x]) /\ g[x] \in Cost
  BY CostFacts DEF LeaseCost, LedgerTypeOK
<1>6. \E rest \in Cost :
        /\ SumOf(LeaseCost, Detached(k)) = IF l \in Detached(k) THEN Plus(LeaseCost[l], rest) ELSE rest
        /\ SumOf(g, T) = IF l \in T THEN Plus(g[l], rest) ELSE rest
  <2>0. T = Detached(k)'
    OBVIOUS
  <2> HIDE DEF T, g
  <2>1. IsFiniteSet(T) /\ Detached(k) \ {l} = T \ {l} /\ \A x \in T : g[x] \in Cost
    BY <2>0, <1>2, <1>3, <1>4, <1>5
  <2>2. \A x \in Detached(k) : LeaseCost[x] \in Cost
    BY <1>1, <1>2
  <2>3. \A x \in Detached(k) \ {l} : LeaseCost[x] = g[x]
    BY <1>1, <1>2, <1>5
  <2> QED
    BY <1>1, <2>1, <2>2, <2>3, CostSumShift
<1>7. LeaseCost[l] = Bytes(bytes[l]) /\ g[l] = Bytes(bytes'[l])
  BY <1>1, <1>5
<1>8. LeaseCharges(k) = SumOf(LeaseCost, Detached(k)) /\ LeaseCharges(k)' = SumOf(g, T)
  BY DEF LeaseCharges
<1> QED
  BY <1>6, <1>7, <1>8

\* What the books say stays true when none of their terms changes.
LEMMA BooksKept ==
  ASSUME Books, UNCHANGED <<usage, pipelines, owned, total, growth, bytes>>,
         \A k \in Kinds : Charged(k)' = Charged(k) /\ Growing(k)' = Growing(k)
                            /\ Detached(k)' = Detached(k)
  PROVE  Books'
<1>1. ASSUME NEW k \in Kinds
      PROVE  /\ PipelineCharges(k)' = PipelineCharges(k) /\ GrowthCharges(k)' = GrowthCharges(k)
             /\ LeaseCharges(k)' = LeaseCharges(k) /\ OwnedCharges(k)' = OwnedCharges(k)
  BY DEF PipelineCharges, GrowthCharges, LeaseCharges, LeaseCost, OwnedCharges
<1>2. "Required" \in Kinds
  BY DEF Kinds
<1> QED
  BY <1>1, <1>2 DEF Books, Balanced

\* The terms a step leaves alone.
LEMMA PipelinesKept ==
  ASSUME UNCHANGED <<pipe, kind, total>>, NEW k
  PROVE  PipelineCharges(k)' = PipelineCharges(k) /\ Charged(k)' = Charged(k)
BY DEF PipelineCharges, Charged

LEMMA GrowthKept ==
  ASSUME UNCHANGED <<growth, kind, root>>, NEW k
  PROVE  GrowthCharges(k)' = GrowthCharges(k) /\ Growing(k)' = Growing(k)
BY DEF GrowthCharges, Growing

LEMMA LeaseChargesKept ==
  ASSUME UNCHANGED <<lease, bank, bytes, kind, root>>, NEW k
  PROVE  LeaseCharges(k)' = LeaseCharges(k) /\ Detached(k)' = Detached(k)
BY DEF LeaseCharges, LeaseCost, Detached

\* A new handle changes no kind that the terms of the books look up.
LEMMA NewHandle ==
  ASSUME ReservationAssumption, LedgerTypeOK, Rooted, Leased, NEW h \in Handles, handle[h] = "free",
         \A x \in Handles : x # h => root'[x] = root[x] /\ kind'[x] = kind[x],
         UNCHANGED <<growth, lease, bank, bytes>>, NEW k
  PROVE  /\ GrowthCharges(k)' = GrowthCharges(k) /\ Growing(k)' = Growing(k)
         /\ LeaseCharges(k)' = LeaseCharges(k) /\ Detached(k)' = Detached(k)
<1>1. ASSUME NEW x \in Handles, growth[x] # Zero PROVE kind'[root'[x]] = kind[root[x]]
  <2>1. handle[x] = "live" /\ x # h /\ root[x] \in Handles /\ root[x] # h
    BY <1>1, RootFacts DEF Rooted, Alive
  <2> QED
    BY <2>1
<1>2. ASSUME NEW l \in Leases, lease[l] # "free" PROVE kind'[root'[bank[l]]] = kind[root[bank[l]]]
  <2>1. bank[l] \in Handles /\ bank[l] # h /\ root[bank[l]] \in Handles /\ root[bank[l]] # h
    BY <1>2, RootFacts DEF Leased, Rooted
  <2> QED
    BY <2>1
<1>3. Growing(k)' = Growing(k)
  BY <1>1 DEF Growing
<1>4. Detached(k)' = Detached(k)
  BY <1>2 DEF Detached
<1> QED
  BY <1>3, <1>4 DEF GrowthCharges, LeaseCharges, LeaseCost

\* A charge and a discharge by dimension.
LEMMA ChargeForm ==
  ASSUME LedgerTypeOK, NEW k \in Kinds, NEW cost \in Cost, Charge(k, cost), NEW j \in Kinds
  PROVE  /\ usage'[j].meta = usage[j].meta + (IF j = k THEN cost.meta ELSE 0)
         /\ usage'[j].bytes = usage[j].bytes + (IF j = k THEN cost.bytes ELSE 0)
<1>1. usage[j].meta \in Nat /\ usage[j].bytes \in Nat
  BY DEF LedgerTypeOK, Cost
<1>2. usage'[j] = IF j = k THEN Plus(usage[j], cost) ELSE usage[j]
  BY DEF LedgerTypeOK, Charge
<1> QED
  BY <1>1, <1>2 DEF Plus

LEMMA DischargeForm ==
  ASSUME LedgerTypeOK, NEW k \in Kinds, NEW cost \in Cost, Discharge(k, cost), NEW j \in Kinds
  PROVE  /\ usage'[j].meta = usage[j].meta - (IF j = k THEN cost.meta ELSE 0)
         /\ usage'[j].bytes = usage[j].bytes - (IF j = k THEN cost.bytes ELSE 0)
<1>1. usage[j].meta \in Nat /\ usage[j].bytes \in Nat
  BY DEF LedgerTypeOK, Cost
<1>2. usage'[j] = IF j = k THEN Minus(usage[j], cost) ELSE usage[j]
  BY DEF LedgerTypeOK, Discharge
<1> QED
  BY <1>1, <1>2 DEF Minus

LEMMA BooksSteps ==
  ASSUME ReservationAssumption, LedgerInv, LedgerTypeOK', LedgerNext
  PROVE  Books'
<1>0. LedgerTypeOK /\ Rooted /\ Leased /\ CreditsConserved /\ Books
  BY LedgerForm DEF LedgerInv, LedgerBounded, Books
<1>t. /\ \A k \in Kinds : usage[k] \in Cost /\ Balanced(k)
      /\ pipelines \in Nat /\ owned \in Nat
      /\ pipelines = Cardinality(Charged("Required")) /\ "Required" \in Kinds
  BY <1>0 DEF LedgerTypeOK, Books, Kinds
<1>p. \A k \in Kinds : /\ PipelineCharges(k).meta \in Nat /\ PipelineCharges(k).bytes \in Nat
                       /\ GrowthCharges(k).meta \in Nat /\ GrowthCharges(k).bytes \in Nat
                       /\ LeaseCharges(k).meta \in Nat /\ LeaseCharges(k).bytes \in Nat
  BY <1>0, ChargesTyped, CostFacts
<1>o. \A k \in Kinds : OwnedCharges(k) = (IF k = "Ordinary" THEN owned ELSE 0)
                       /\ OwnedCharges(k)' = (IF k = "Ordinary" THEN owned' ELSE 0)
  BY DEF OwnedCharges
<1>1. ASSUME NEW n \in Batches, ChargeOwned(n) PROVE Books'
  <2> DEFINE cost == [meta |-> Accepted(n), bytes |-> 0]
  <2>1. Accepted(n) \in Nat
    <3>1. usage["Ordinary"].meta \in Nat /\ n \in Nat /\ Target.meta \in Nat
      BY <1>t, ConstantFacts DEF Kinds, Cost
    <3> QED
      BY <3>1, <1>1 DEF Accepted, ChargeOwned
  <2>2. /\ cost \in Cost /\ cost.meta = Accepted(n) /\ cost.bytes = 0
        /\ Charge("Ordinary", cost) /\ owned' = owned + Accepted(n)
        /\ UNCHANGED <<pipelines, pipe, kind, total, growth, root, lease, bank, bytes>>
    BY <2>1, <1>1 DEF ChargeOwned, pipeVars, treeVars, leaseVars, Cost
  <2>3. ASSUME NEW k \in Kinds PROVE Balanced(k)'
    <3>1. /\ PipelineCharges(k)' = PipelineCharges(k) /\ GrowthCharges(k)' = GrowthCharges(k)
          /\ LeaseCharges(k)' = LeaseCharges(k)
      BY <2>2, PipelinesKept, GrowthKept, LeaseChargesKept
    <3>2. /\ usage'[k].meta = usage[k].meta + (IF k = "Ordinary" THEN Accepted(n) ELSE 0)
          /\ usage'[k].bytes = usage[k].bytes
      <4> HIDE DEF cost
      <4>1. "Ordinary" \in Kinds /\ usage[k].bytes \in Nat
        BY <1>t, CostFacts DEF Kinds
      <4> QED
        BY <4>1, <2>2, <1>0, ChargeForm
    <3> QED
      BY <3>1, <3>2, <2>1, <2>2, <1>t, <1>p, <1>o DEF Balanced
  <2>4. Charged("Required")' = Charged("Required")
    BY <2>2, PipelinesKept
  <2> QED
    BY <2>2, <2>3, <2>4, <1>t DEF Books
<1>2. ASSUME DropOwned PROVE Books'
  <2> DEFINE cost == [meta |-> 1, bytes |-> 0]
  <2>2. /\ cost \in Cost /\ cost.meta = 1 /\ cost.bytes = 0 /\ owned > 0
        /\ Discharge("Ordinary", cost) /\ owned' = owned - 1
        /\ UNCHANGED <<pipelines, pipe, kind, total, growth, root, lease, bank, bytes>>
    BY <1>2 DEF DropOwned, pipeVars, treeVars, leaseVars, Cost
  <2>3. ASSUME NEW k \in Kinds PROVE Balanced(k)'
    <3>1. /\ PipelineCharges(k)' = PipelineCharges(k) /\ GrowthCharges(k)' = GrowthCharges(k)
          /\ LeaseCharges(k)' = LeaseCharges(k)
      BY <2>2, PipelinesKept, GrowthKept, LeaseChargesKept
    <3>2. /\ usage'[k].meta = usage[k].meta - (IF k = "Ordinary" THEN 1 ELSE 0)
          /\ usage'[k].bytes = usage[k].bytes
      <4> HIDE DEF cost
      <4>1. "Ordinary" \in Kinds /\ usage[k].bytes \in Nat
        BY <1>t, CostFacts DEF Kinds
      <4> QED
        BY <4>1, <2>2, <1>0, DischargeForm
    <3>3. usage[k].meta \in Nat
      BY <1>t, CostFacts
    <3> QED
      BY <3>1, <3>2, <3>3, <2>2, <1>t, <1>p, <1>o DEF Balanced
  <2>4. Charged("Required")' = Charged("Required")
    BY <2>2, PipelinesKept
  <2> QED
    BY <2>2, <2>3, <2>4, <1>t DEF Books
<1>3. ASSUME NEW h \in Handles, NEW k \in Kinds, NEW cost \in Costs, Reserve(h, k, cost)
      PROVE  Books'
  <2>1. /\ cost \in Cost /\ cost.meta \in Nat /\ cost.bytes \in Nat
        /\ Charge(k, cost) /\ handle[h] = "free"
        /\ pipelines' = pipelines + (IF k = "Required" THEN 1 ELSE 0)
        /\ pipe' = [pipe EXCEPT ![h] = "charged"] /\ kind' = [kind EXCEPT ![h] = k]
        /\ total' = [total EXCEPT ![h] = cost] /\ root' = [root EXCEPT ![h] = h]
        /\ UNCHANGED <<owned, growth, lease, bank, bytes>>
    BY <1>3, ConstantFacts, CostFacts DEF Reserve, leaseVars
  <2>2. /\ \A x \in Handles : x # h => /\ total'[x] = total[x] /\ pipe'[x] = pipe[x]
                                       /\ kind'[x] = kind[x] /\ root'[x] = root[x]
        /\ pipe'[h] = "charged" /\ kind'[h] = k /\ total'[h] = cost
    BY <2>1, <1>0 DEF LedgerTypeOK
  <2>3. pipe[h] = "none"
    BY <2>1, <1>0 DEF Rooted, ReservationAssumption
  <2>4. \A j \in Kinds : h \notin Charged(j) /\ (h \in Charged(j)' <=> j = k)
    BY <2>2, <2>3 DEF Charged
  <2>5. ASSUME NEW j \in Kinds PROVE Balanced(j)'
    <3>1. GrowthCharges(j)' = GrowthCharges(j) /\ LeaseCharges(j)' = LeaseCharges(j)
      BY <2>1, <2>2, <1>0, NewHandle
    <3>2. PICK rest \in Cost :
            /\ PipelineCharges(j) = IF h \in Charged(j) THEN Plus(total[h], rest) ELSE rest
            /\ PipelineCharges(j)' = IF h \in Charged(j)' THEN Plus(total'[h], rest) ELSE rest
      BY <2>2, <1>0, PipelinesShift
    <3>3. /\ rest.meta \in Nat /\ rest.bytes \in Nat
          /\ PipelineCharges(j) = rest
          /\ PipelineCharges(j)' = IF j = k THEN Plus(cost, rest) ELSE rest
      BY <3>2, <2>2, <2>4, CostFacts
    <3>4. /\ PipelineCharges(j)'.meta = PipelineCharges(j).meta + (IF j = k THEN cost.meta ELSE 0)
          /\ PipelineCharges(j)'.bytes = PipelineCharges(j).bytes + (IF j = k THEN cost.bytes ELSE 0)
      BY <3>3, <2>1 DEF Plus
    <3>5. /\ usage'[j].meta = usage[j].meta + (IF j = k THEN cost.meta ELSE 0)
          /\ usage'[j].bytes = usage[j].bytes + (IF j = k THEN cost.bytes ELSE 0)
      BY <2>1, <1>0, ChargeForm
    <3>6. OwnedCharges(j)' = OwnedCharges(j)
      BY <2>1, <1>o
    <3>7. OwnedCharges(j) \in Nat
      BY <1>o, <1>t
    <3> QED
      BY <3>1, <3>4, <3>5, <3>6, <3>7, <2>1, <1>t, <1>p DEF Balanced
  <2>6. pipelines' = Cardinality(Charged("Required")')
    <3>1. CASE k = "Required"
      <4>1. Charged("Required")' = Charged("Required") \cup {h} /\ h \notin Charged("Required")
        BY <3>1, <2>2, <2>3 DEF Charged
      <4>2. IsFiniteSet(Charged("Required"))
        BY <1>0, <1>t, ChargesTyped
      <4> QED
        BY <4>1, <4>2, <3>1, <2>1, <1>t, FS_AddElement
    <3>2. CASE k # "Required"
      <4>1. Charged("Required")' = Charged("Required")
        BY <3>2, <2>2, <2>3 DEF Charged
      <4> QED
        BY <4>1, <3>2, <2>1, <1>t
    <3> QED
      BY <3>1, <3>2
  <2> QED
    BY <2>5, <2>6 DEF Books
<1>4. ASSUME NEW h \in Handles, NEW child \in Handles, NEW cost \in Costs, Stage(h, child, cost)
      PROVE  Books'
  <2>1. /\ handle[child] = "free" /\ root' = [root EXCEPT ![child] = root[h]]
        /\ UNCHANGED <<usage, pipelines, owned, pipe, kind, total, growth, lease, bank, bytes>>
    BY <1>4 DEF Stage, ledgerVars, pipeVars, leaseVars
  <2>2. \A x \in Handles : x # child => root'[x] = root[x] /\ kind'[x] = kind[x]
    BY <2>1, <1>0 DEF LedgerTypeOK
  <2>3. \A k \in Kinds : Charged(k)' = Charged(k) /\ Growing(k)' = Growing(k)
                           /\ Detached(k)' = Detached(k)
    BY <2>1, <2>2, <1>0, NewHandle, PipelinesKept
  <2> QED
    BY <2>1, <2>3, <1>0, BooksKept
<1>5. ASSUME NEW h \in Handles, NEW cost \in Costs, Grow(h, cost) PROVE Books'
  <2> DEFINE k == kind[root[h]]
  <2>1. /\ cost \in Cost /\ cost.meta \in Nat /\ cost.bytes \in Nat /\ cost # Zero
        /\ Charge(k, cost) /\ growth[h] = Zero /\ growth' = [growth EXCEPT ![h] = cost]
        /\ UNCHANGED <<pipelines, owned, pipe, kind, total, root, lease, bank, bytes>>
    BY <1>5, ConstantFacts, CostFacts DEF Grow, Usable, pipeVars, treeVars, leaseVars
  <2>2. k \in Kinds
    BY <1>0, <1>5, Funded DEF Grow, Usable, LedgerTypeOK
  <2>3. growth'[h] = cost /\ \A x \in Handles : x # h => growth'[x] = growth[x]
    BY <2>1, <1>0 DEF LedgerTypeOK
  <2>4. \A j \in Kinds : h \notin Growing(j) /\ (h \in Growing(j)' <=> j = k)
    BY <2>1, <2>3 DEF Growing
  <2> HIDE DEF k
  <2>5. ASSUME NEW j \in Kinds PROVE Balanced(j)'
    <3>1. PipelineCharges(j)' = PipelineCharges(j) /\ LeaseCharges(j)' = LeaseCharges(j)
      BY <2>1, PipelinesKept, LeaseChargesKept
    <3>2. PICK rest \in Cost :
            /\ GrowthCharges(j) = IF h \in Growing(j) THEN Plus(growth[h], rest) ELSE rest
            /\ GrowthCharges(j)' = IF h \in Growing(j)' THEN Plus(growth'[h], rest) ELSE rest
      BY <2>1, <2>3, <1>0, GrowthShift
    <3>3. /\ rest.meta \in Nat /\ rest.bytes \in Nat
          /\ GrowthCharges(j) = rest
          /\ GrowthCharges(j)' = IF j = k THEN Plus(cost, rest) ELSE rest
      BY <3>2, <2>3, <2>4, CostFacts
    <3>4. /\ GrowthCharges(j)'.meta = GrowthCharges(j).meta + (IF j = k THEN cost.meta ELSE 0)
          /\ GrowthCharges(j)'.bytes = GrowthCharges(j).bytes + (IF j = k THEN cost.bytes ELSE 0)
      BY <3>3, <2>1 DEF Plus
    <3>5. /\ usage'[j].meta = usage[j].meta + (IF j = k THEN cost.meta ELSE 0)
          /\ usage'[j].bytes = usage[j].bytes + (IF j = k THEN cost.bytes ELSE 0)
      BY <2>1, <2>2, <1>0, ChargeForm
    <3>6. OwnedCharges(j)' = OwnedCharges(j) /\ OwnedCharges(j) \in Nat
      BY <2>1, <1>o, <1>t
    <3> QED
      BY <3>1, <3>4, <3>5, <3>6, <2>1, <1>t, <1>p DEF Balanced
  <2>6. Charged("Required")' = Charged("Required")
    BY <2>1, PipelinesKept
  <2> QED
    BY <2>1, <2>5, <2>6, <1>t DEF Books
<1>6. ASSUME NEW h \in Handles, FinishGrow(h) PROVE Books'
  <2> DEFINE r == root[h]
             cost == growth[h]
  <2>1. /\ cost # Zero /\ total' = [total EXCEPT ![r] = Plus(@, cost)]
        /\ growth' = [growth EXCEPT ![h] = Zero]
        /\ UNCHANGED <<usage, pipelines, owned, pipe, kind, root, lease, bank, bytes>>
    BY <1>6 DEF FinishGrow, ledgerVars, treeVars, leaseVars
  <2>2. r \in Handles /\ pipe[r] = "charged"
    BY <2>1, <1>0, Funded DEF Rooted
  <2>3. /\ cost \in Cost /\ cost.meta \in Nat /\ cost.bytes \in Nat
        /\ total[r] \in Cost /\ total[r].meta \in Nat /\ total[r].bytes \in Nat
        /\ growth'[h] = Zero /\ \A x \in Handles : x # h => growth'[x] = growth[x]
        /\ total'[r] = Plus(total[r], cost) /\ \A x \in Handles : x # r => total'[x] = total[x]
    <3>1. cost \in Cost /\ total[r] \in Cost
      BY <2>2, <1>0 DEF LedgerTypeOK
    <3> QED
      BY <3>1, <2>1, <2>2, <1>0, CostFacts DEF LedgerTypeOK
  <2>4. \A j \in Kinds : /\ h \notin Growing(j)' /\ (h \in Growing(j) <=> j = kind[r])
                         /\ r \in Charged(j)' <=> j = kind[r]
                         /\ r \in Charged(j) <=> j = kind[r]
    BY <2>1, <2>2, <2>3 DEF Growing, Charged
  <2>k. Charged("Required")' = Charged("Required")
    BY <2>1 DEF Charged
  <2> HIDE DEF r, cost
  <2>5. ASSUME NEW j \in Kinds PROVE Balanced(j)'
    <3>1. LeaseCharges(j)' = LeaseCharges(j)
      BY <2>1, LeaseChargesKept
    <3>2. PICK rest \in Cost :
            /\ GrowthCharges(j) = IF h \in Growing(j) THEN Plus(growth[h], rest) ELSE rest
            /\ GrowthCharges(j)' = IF h \in Growing(j)' THEN Plus(growth'[h], rest) ELSE rest
      BY <2>1, <2>3, <1>0, GrowthShift
    <3>3. PICK more \in Cost :
            /\ PipelineCharges(j) = IF r \in Charged(j) THEN Plus(total[r], more) ELSE more
            /\ PipelineCharges(j)' = IF r \in Charged(j)' THEN Plus(total'[r], more) ELSE more
      BY <2>1, <2>2, <2>3, <1>0, PipelinesShift
    <3>4. /\ rest.meta \in Nat /\ rest.bytes \in Nat /\ more.meta \in Nat /\ more.bytes \in Nat
          /\ GrowthCharges(j)' = rest
          /\ GrowthCharges(j) = IF j = kind[r] THEN Plus(cost, rest) ELSE rest
          /\ PipelineCharges(j) = IF j = kind[r] THEN Plus(total[r], more) ELSE more
          /\ PipelineCharges(j)' = IF j = kind[r] THEN Plus(Plus(total[r], cost), more) ELSE more
      BY <3>2, <3>3, <2>3, <2>4, CostFacts DEF cost
    <3>5. /\ GrowthCharges(j)'.meta + PipelineCharges(j)'.meta
               = GrowthCharges(j).meta + PipelineCharges(j).meta
          /\ GrowthCharges(j)'.bytes + PipelineCharges(j)'.bytes
               = GrowthCharges(j).bytes + PipelineCharges(j).bytes
      BY <3>4, <2>3 DEF Plus
    <3>6. OwnedCharges(j)' = OwnedCharges(j) /\ OwnedCharges(j) \in Nat
      BY <2>1, <1>o, <1>t
    <3>7. /\ PipelineCharges(j)'.meta \in Nat /\ PipelineCharges(j)'.bytes \in Nat
          /\ GrowthCharges(j)'.meta \in Nat /\ GrowthCharges(j)'.bytes \in Nat
      BY <3>4, <2>3 DEF Plus
    <3> QED
      BY <3>1, <3>5, <3>6, <3>7, <2>1, <1>t, <1>p DEF Balanced
  <2> QED
    BY <2>1, <2>5, <2>k, <1>t DEF Books
<1>7. ASSUME Close PROVE Books'
  <2>1. UNCHANGED <<usage, pipelines, owned, pipe, kind, total, growth, root, lease, bank, bytes>>
    BY <1>7 DEF Close, pipeVars, treeVars, leaseVars
  <2> QED
    BY <2>1, <1>0, BooksKept, PipelinesKept, GrowthKept, LeaseChargesKept
<1>8. ASSUME NEW h \in Handles, RetireHandle(h) \/ Release(h) PROVE Books'
  <2>1. UNCHANGED <<usage, pipelines, owned, pipe, kind, total, growth, root, lease, bank, bytes>>
    BY <1>8 DEF RetireHandle, Release, ledgerVars, pipeVars, treeVars, leaseVars
  <2> QED
    BY <2>1, <1>0, BooksKept, PipelinesKept, GrowthKept, LeaseChargesKept
<1>9. ASSUME NEW x \in Handles \cup Leases, RefundStep(x) PROVE Books'
  <2>1. UNCHANGED <<usage, pipelines, owned, pipe, kind, total, growth, root, lease, bank, bytes>>
    BY <1>9 DEF RefundStep, ledgerVars, pipeVars, treeVars, leaseVars
  <2> QED
    BY <2>1, <1>0, BooksKept, PipelinesKept, GrowthKept, LeaseChargesKept
<1>11. ASSUME NEW r \in Handles, ReleasePipeline(r) PROVE Books'
  <2> DEFINE k == kind[r]
             cost == total[r]
  <2>1. /\ pipe[r] = "charged" /\ pipe' = [pipe EXCEPT ![r] = "released"]
        /\ Discharge(k, cost) /\ pipelines' = pipelines - (IF k = "Required" THEN 1 ELSE 0)
        /\ UNCHANGED <<owned, kind, total, growth, root, lease, bank, bytes>>
    BY <1>11 DEF ReleasePipeline, treeVars, leaseVars
  <2>2. k \in Kinds /\ cost \in Cost /\ cost.meta \in Nat /\ cost.bytes \in Nat
    BY <1>0, CostFacts DEF LedgerTypeOK
  <2>3. pipe'[r] = "released" /\ \A x \in Handles : x # r => pipe'[x] = pipe[x]
    BY <2>1, <1>0 DEF LedgerTypeOK
  <2>4. \A j \in Kinds : r \notin Charged(j)' /\ (r \in Charged(j) <=> j = k)
    BY <2>1, <2>3 DEF Charged
  <2>5. ASSUME k = "Required"
        PROVE  Charged("Required")' = Charged("Required") \ {r} /\ r \in Charged("Required")
    BY <2>1, <2>3, <2>5 DEF Charged
  <2>6. ASSUME k # "Required" PROVE Charged("Required")' = Charged("Required")
    BY <2>1, <2>3, <2>6 DEF Charged
  <2>7. total'[r] = total[r] /\ \A x \in Handles : total'[x] = total[x] /\ kind'[x] = kind[x]
    BY <2>1
  <2>c. cost = total[r]
    OBVIOUS
  <2> HIDE DEF k, cost
  <2>8. ASSUME NEW j \in Kinds PROVE Balanced(j)'
    <3>1. GrowthCharges(j)' = GrowthCharges(j) /\ LeaseCharges(j)' = LeaseCharges(j)
      BY <2>1, GrowthKept, LeaseChargesKept
    <3>2. PICK rest \in Cost :
            /\ PipelineCharges(j) = IF r \in Charged(j) THEN Plus(total[r], rest) ELSE rest
            /\ PipelineCharges(j)' = IF r \in Charged(j)' THEN Plus(total'[r], rest) ELSE rest
      BY <2>3, <2>7, <1>0, PipelinesShift
    <3>3. /\ rest.meta \in Nat /\ rest.bytes \in Nat
          /\ PipelineCharges(j)' = rest
          /\ PipelineCharges(j) = IF j = k THEN Plus(cost, rest) ELSE rest
      BY <3>2, <2>c, <2>4, CostFacts
    <3>4. /\ PipelineCharges(j).meta = PipelineCharges(j)'.meta + (IF j = k THEN cost.meta ELSE 0)
          /\ PipelineCharges(j).bytes = PipelineCharges(j)'.bytes + (IF j = k THEN cost.bytes ELSE 0)
          /\ PipelineCharges(j)'.meta \in Nat /\ PipelineCharges(j)'.bytes \in Nat
      BY <3>3, <2>2 DEF Plus
    <3>5. /\ usage'[j].meta = usage[j].meta - (IF j = k THEN cost.meta ELSE 0)
          /\ usage'[j].bytes = usage[j].bytes - (IF j = k THEN cost.bytes ELSE 0)
      BY <2>1, <2>2, <1>0, DischargeForm
    <3>6. OwnedCharges(j)' = OwnedCharges(j) /\ OwnedCharges(j) \in Nat
      BY <2>1, <1>o, <1>t
    <3>7. usage[j].meta \in Nat /\ usage[j].bytes \in Nat
      BY <1>t, CostFacts
    <3> QED
      BY <3>1, <3>4, <3>5, <3>6, <3>7, <2>2, <1>t, <1>p DEF Balanced
  <2>9. pipelines' = Cardinality(Charged("Required")')
    <3>1. CASE k = "Required"
      <4>1. IsFiniteSet(Charged("Required"))
        BY <1>0, <1>t, ChargesTyped
      <4> QED
        <5>1. Cardinality(Charged("Required")') = Cardinality(Charged("Required")) - 1
          BY <4>1, <2>5, <3>1, FS_RemoveElement
        <5> QED
          BY <5>1, <3>1, <2>1, <1>t
    <3>2. CASE k # "Required"
      BY <2>6, <3>2, <2>1, <1>t
    <3> QED
      BY <3>1, <3>2
  <2> QED
    BY <2>8, <2>9 DEF Books
<1>12. ASSUME NEW h \in Handles, NEW l \in Leases, NEW c \in Costs, Retain(h, l, c.bytes)
       PROVE  Books'
  <2> DEFINE r == root[h]
             n == c.bytes
  <2>1. /\ n \in Nat /\ Alive(h) /\ lease[l] = "free"
        /\ total' = [total EXCEPT ![r] = Minus(@, Bytes(n))]
        /\ lease' = [lease EXCEPT ![l] = "held"] /\ bank' = [bank EXCEPT ![l] = h]
        /\ bytes' = [bytes EXCEPT ![l] = n]
        /\ UNCHANGED <<usage, pipelines, owned, pipe, kind, growth, root>>
    BY <1>12, ConstantFacts DEF Retain, Usable, ledgerVars, treeVars
  <2>2. r \in Handles /\ pipe[r] = "charged"
    BY <2>1, <1>0, Funded
  <2>3. /\ total[r] \in Cost /\ total[r].meta \in Nat /\ total[r].bytes \in Nat
        /\ total'[r] = Minus(total[r], Bytes(n)) /\ \A x \in Handles : x # r => total'[x] = total[x]
        /\ lease'[l] = "held" /\ bank'[l] = h /\ bytes'[l] = n
        /\ \A x \in Leases : x # l => lease'[x] = lease[x] /\ bank'[x] = bank[x] /\ bytes'[x] = bytes[x]
    <3>1. total[r] \in Cost
      BY <2>2, <1>0 DEF LedgerTypeOK
    <3> QED
      BY <3>1, <2>1, <2>2, <1>0, CostFacts DEF LedgerTypeOK
  <2>4. \A j \in Kinds : /\ l \notin Detached(j) /\ (l \in Detached(j)' <=> j = kind[r])
                         /\ r \in Charged(j)' <=> j = kind[r]
                         /\ r \in Charged(j) <=> j = kind[r]
    BY <2>1, <2>2, <2>3 DEF Detached, Charged
  <2>k. Charged("Required")' = Charged("Required")
    BY <2>1 DEF Charged
  <2> HIDE DEF r, n
  <2>5. ASSUME NEW j \in Kinds PROVE Balanced(j)'
    <3>1. GrowthCharges(j)' = GrowthCharges(j)
      BY <2>1, GrowthKept
    <3>2. PICK rest \in Cost :
            /\ LeaseCharges(j) = IF l \in Detached(j) THEN Plus(Bytes(bytes[l]), rest) ELSE rest
            /\ LeaseCharges(j)' = IF l \in Detached(j)' THEN Plus(Bytes(bytes'[l]), rest) ELSE rest
      BY <2>1, <2>3, <1>0, LeasesShift
    <3>3. PICK more \in Cost :
            /\ PipelineCharges(j) = IF r \in Charged(j) THEN Plus(total[r], more) ELSE more
            /\ PipelineCharges(j)' = IF r \in Charged(j)' THEN Plus(total'[r], more) ELSE more
      BY <2>1, <2>2, <2>3, <1>0, PipelinesShift
    <3>4. /\ rest.meta \in Nat /\ rest.bytes \in Nat /\ more.meta \in Nat /\ more.bytes \in Nat
          /\ LeaseCharges(j) = rest
          /\ LeaseCharges(j)' = IF j = kind[r] THEN Plus(Bytes(n), rest) ELSE rest
          /\ PipelineCharges(j) = IF j = kind[r] THEN Plus(total[r], more) ELSE more
          /\ PipelineCharges(j)' = IF j = kind[r] THEN Plus(Minus(total[r], Bytes(n)), more) ELSE more
      BY <3>2, <3>3, <2>3, <2>4, CostFacts
    <3>5. /\ LeaseCharges(j)'.meta + PipelineCharges(j)'.meta
               = LeaseCharges(j).meta + PipelineCharges(j).meta
          /\ LeaseCharges(j)'.bytes + PipelineCharges(j)'.bytes
               = LeaseCharges(j).bytes + PipelineCharges(j).bytes
          /\ LeaseCharges(j)'.meta \in Nat /\ LeaseCharges(j)'.bytes \in Nat
          /\ PipelineCharges(j)'.meta \in Int /\ PipelineCharges(j)'.bytes \in Int
      BY <3>4, <2>1, <2>3 DEF Plus, Minus, Bytes
    <3>6. OwnedCharges(j)' = OwnedCharges(j) /\ OwnedCharges(j) \in Nat
      BY <2>1, <1>o, <1>t
    <3> QED
      BY <3>1, <3>5, <3>6, <2>1, <1>t, <1>p DEF Balanced
  <2> QED
    BY <2>1, <2>5, <2>k, <1>t DEF Books
<1>13. ASSUME NEW l \in Leases, DropLease(l) PROVE Books'
  <2> DEFINE k == kind[root[bank[l]]]
             n == bytes[l]
  <2>1. /\ lease[l] = "held"
        /\ UNCHANGED <<pipelines, owned, pipe, kind, total, growth, root, bank, bytes>>
    BY <1>13 DEF DropLease, pipeVars, treeVars
  <2>2. root[bank[l]] \in Handles /\ k \in Kinds /\ n \in Nat /\ Bytes(n) \in Cost
        /\ Bytes(n).meta = 0 /\ Bytes(n).bytes = n
    <3>1. root[bank[l]] \in Handles
      BY <2>1, <1>0, RootFacts DEF Leased
    <3>2. k \in Kinds /\ n \in Nat
      BY <3>1, <1>0 DEF LedgerTypeOK
    <3> QED
      BY <3>1, <3>2, CostFacts DEF Bytes
  <2>3. CASE lease' = [lease EXCEPT ![l] = "upgraded"] /\ UNCHANGED usage
    <3>1. \A j \in Kinds : Charged(j)' = Charged(j) /\ Growing(j)' = Growing(j)
      BY <2>1, PipelinesKept, GrowthKept
    <3>2. \A j \in Kinds : Detached(j)' = Detached(j)
      BY <2>1, <2>3, <1>0 DEF Detached, LedgerTypeOK
    <3> QED
      BY <3>1, <3>2, <2>1, <2>3, <1>0, BooksKept
  <2>4. CASE lease' = [lease EXCEPT ![l] = "gone"] /\ Discharge(k, Bytes(n))
    <3>1. lease'[l] = "gone" /\ \A x \in Leases : x # l => lease'[x] = lease[x]
      BY <2>4, <1>0 DEF LedgerTypeOK
    <3>2. \A j \in Kinds : l \notin Detached(j)' /\ (l \in Detached(j) <=> j = k)
      BY <2>1, <3>1 DEF Detached
    <3>k. Charged("Required")' = Charged("Required")
      BY <2>1 DEF Charged
    <3>n. n = bytes[l]
      OBVIOUS
    <3> HIDE DEF k, n
    <3>3. ASSUME NEW j \in Kinds PROVE Balanced(j)'
      <4>1. GrowthCharges(j)' = GrowthCharges(j) /\ PipelineCharges(j)' = PipelineCharges(j)
        BY <2>1, GrowthKept, PipelinesKept
      <4>2. PICK rest \in Cost :
              /\ LeaseCharges(j) = IF l \in Detached(j) THEN Plus(Bytes(bytes[l]), rest) ELSE rest
              /\ LeaseCharges(j)' = IF l \in Detached(j)' THEN Plus(Bytes(bytes'[l]), rest) ELSE rest
        BY <2>1, <3>1, <1>0, LeasesShift
      <4>3. /\ rest.meta \in Nat /\ rest.bytes \in Nat
            /\ LeaseCharges(j)' = rest
            /\ LeaseCharges(j) = IF j = k THEN Plus(Bytes(n), rest) ELSE rest
        BY <4>2, <3>2, <3>n, CostFacts
      <4>4. /\ LeaseCharges(j).meta = LeaseCharges(j)'.meta
            /\ LeaseCharges(j).bytes = LeaseCharges(j)'.bytes + (IF j = k THEN n ELSE 0)
            /\ LeaseCharges(j)'.meta \in Nat /\ LeaseCharges(j)'.bytes \in Nat
        BY <4>3, <2>2 DEF Plus
      <4>5. /\ usage'[j].meta = usage[j].meta
            /\ usage'[j].bytes = usage[j].bytes - (IF j = k THEN n ELSE 0)
        <5>1. usage[j].meta \in Nat
          BY <1>t, CostFacts
        <5> QED
          BY <5>1, <2>2, <2>4, <1>0, DischargeForm
      <4>6. OwnedCharges(j)' = OwnedCharges(j) /\ OwnedCharges(j) \in Nat
        BY <2>1, <1>o, <1>t
      <4> QED
        BY <4>1, <4>4, <4>5, <4>6, <2>2, <1>t, <1>p DEF Balanced
    <3> QED
      BY <3>3, <3>k, <2>1, <1>t DEF Books
  <2> QED
    BY <1>13, <2>3, <2>4 DEF DropLease
<1>14. ASSUME NEW l \in Leases, ReturnBytes(l) PROVE Books'
  <2> DEFINE r == root[bank[l]]
             n == bytes[l]
  <2>1. /\ lease[l] = "upgraded"
        /\ total' = [total EXCEPT ![r] = Plus(@, Bytes(n))]
        /\ lease' = [lease EXCEPT ![l] = "refunding"]
        /\ UNCHANGED <<usage, pipelines, owned, pipe, kind, growth, root, bank, bytes>>
    BY <1>14 DEF ReturnBytes, ledgerVars, treeVars
  <2>2. r \in Handles /\ pipe[r] = "charged" /\ n \in Nat
    BY <2>1, <1>0, RootFacts DEF Leased, LedgerTypeOK
  <2>3. /\ total[r] \in Cost /\ total[r].meta \in Nat /\ total[r].bytes \in Nat
        /\ total'[r] = Plus(total[r], Bytes(n)) /\ \A x \in Handles : x # r => total'[x] = total[x]
        /\ lease'[l] = "refunding" /\ \A x \in Leases : x # l => lease'[x] = lease[x]
    <3>1. total[r] \in Cost
      BY <2>2, <1>0 DEF LedgerTypeOK
    <3> QED
      BY <3>1, <2>1, <2>2, <1>0, CostFacts DEF LedgerTypeOK
  <2>4. \A j \in Kinds : /\ l \notin Detached(j)' /\ (l \in Detached(j) <=> j = kind[r])
                         /\ r \in Charged(j)' <=> j = kind[r]
                         /\ r \in Charged(j) <=> j = kind[r]
    BY <2>1, <2>2, <2>3 DEF Detached, Charged
  <2>k. Charged("Required")' = Charged("Required")
    BY <2>1 DEF Charged
  <2>n. n = bytes[l]
    OBVIOUS
  <2> HIDE DEF r, n
  <2>5. ASSUME NEW j \in Kinds PROVE Balanced(j)'
    <3>1. GrowthCharges(j)' = GrowthCharges(j)
      BY <2>1, GrowthKept
    <3>2. PICK rest \in Cost :
            /\ LeaseCharges(j) = IF l \in Detached(j) THEN Plus(Bytes(bytes[l]), rest) ELSE rest
            /\ LeaseCharges(j)' = IF l \in Detached(j)' THEN Plus(Bytes(bytes'[l]), rest) ELSE rest
      BY <2>1, <2>3, <1>0, LeasesShift
    <3>3. PICK more \in Cost :
            /\ PipelineCharges(j) = IF r \in Charged(j) THEN Plus(total[r], more) ELSE more
            /\ PipelineCharges(j)' = IF r \in Charged(j)' THEN Plus(total'[r], more) ELSE more
      BY <2>1, <2>2, <2>3, <1>0, PipelinesShift
    <3>4. /\ rest.meta \in Nat /\ rest.bytes \in Nat /\ more.meta \in Nat /\ more.bytes \in Nat
          /\ LeaseCharges(j)' = rest
          /\ LeaseCharges(j) = IF j = kind[r] THEN Plus(Bytes(n), rest) ELSE rest
          /\ PipelineCharges(j) = IF j = kind[r] THEN Plus(total[r], more) ELSE more
          /\ PipelineCharges(j)' = IF j = kind[r] THEN Plus(Plus(total[r], Bytes(n)), more) ELSE more
      BY <3>2, <3>3, <2>3, <2>4, <2>n, CostFacts
    <3>5. /\ LeaseCharges(j)'.meta + PipelineCharges(j)'.meta
               = LeaseCharges(j).meta + PipelineCharges(j).meta
          /\ LeaseCharges(j)'.bytes + PipelineCharges(j)'.bytes
               = LeaseCharges(j).bytes + PipelineCharges(j).bytes
          /\ LeaseCharges(j)'.meta \in Nat /\ LeaseCharges(j)'.bytes \in Nat
          /\ PipelineCharges(j)'.meta \in Nat /\ PipelineCharges(j)'.bytes \in Nat
      BY <3>4, <2>2, <2>3 DEF Plus, Bytes
    <3>6. OwnedCharges(j)' = OwnedCharges(j) /\ OwnedCharges(j) \in Nat
      BY <2>1, <1>o, <1>t
    <3> QED
      BY <3>1, <3>5, <3>6, <2>1, <1>t, <1>p DEF Balanced
  <2> QED
    BY <2>1, <2>5, <2>k, <1>t DEF Books
<1>15. ASSUME NEW l \in Leases, ForgetPipeline(l) PROVE Books'
  <2>1. /\ lease[l] = "refunding" /\ lease' = [lease EXCEPT ![l] = "gone"]
        /\ UNCHANGED <<usage, pipelines, owned, pipe, kind, total, growth, root, bank, bytes>>
    BY <1>15 DEF ForgetPipeline, ledgerVars, pipeVars, treeVars
  <2>2. \A j \in Kinds : Charged(j)' = Charged(j) /\ Growing(j)' = Growing(j)
    BY <2>1, PipelinesKept, GrowthKept
  <2>3. \A j \in Kinds : Detached(j)' = Detached(j)
    BY <2>1, <1>0 DEF Detached, LedgerTypeOK
  <2> QED
    BY <2>1, <2>2, <2>3, <1>0, BooksKept
<1> QED
  BY <1>1, <1>2, <1>3, <1>4, <1>5, <1>6, <1>7, <1>8, <1>9, <1>11, <1>12, <1>13,
     <1>14, <1>15 DEF LedgerNext, LedgerStep, HandleStep, LeaseStep

-----------------------------------------------------------------------------
(* Credits *)

\* A refund under way belongs to the pipeline of the bank it looks at.
LEMMA ReturningForm ==
  ASSUME ReservationAssumption, LedgerTypeOK, Rooted, Leased, NEW r \in Handles
  PROVE  Returning(r) = {x \in Handles \cup Leases : refund[x].at # NoHandle /\ root[refund[x].at] = r}
<1>1. \A h \in Handles : refund[h].at # NoHandle => root[refund[h].at] = root[h]
  BY DEF Rooted
<1>2. \A l \in Leases : refund[l].at # NoHandle =>
        lease[l] = "refunding" /\ root[refund[l].at] = root[bank[l]]
  BY DEF Leased
<1> QED
  BY <1>1, <1>2 DEF Returning, Branch

LEMMA BranchShift ==
  ASSUME ReservationAssumption, LedgerTypeOK, LedgerTypeOK', NEW h \in Handles, NEW r \in Handles,
         \A x \in Handles : x # h => balance'[x] = balance[x],
         UNCHANGED root
  PROVE  \E rest \in Cost :
           /\ Spendable(r) = IF root[h] = r THEN Plus(balance[h], rest) ELSE rest
           /\ Spendable(r)' = IF root[h] = r THEN Plus(balance'[h], rest) ELSE rest
<1>1. /\ IsFiniteSet(Branch(r)) /\ Branch(r)' = Branch(r) /\ (h \in Branch(r) <=> root[h] = r)
      /\ \A x \in Branch(r) : balance[x] \in Cost
  BY CreditsTyped DEF Branch
<1> DEFINE g == balance'
<1>2. \A x \in Branch(r) : g[x] \in Cost
  BY DEF Branch, LedgerTypeOK
<1>3. \A x \in Branch(r) \ {h} : balance[x] = g[x]
  BY DEF Branch
<1>4. \E rest \in Cost :
        /\ SumOf(balance, Branch(r)) = IF h \in Branch(r) THEN Plus(balance[h], rest) ELSE rest
        /\ SumOf(g, Branch(r)) = IF h \in Branch(r) THEN Plus(g[h], rest) ELSE rest
  <2> HIDE DEF g
  <2> QED
    BY <1>1, <1>2, <1>3, CostSumShift
<1> QED
  BY <1>1, <1>4 DEF Spendable

LEMMA ReturningShift ==
  ASSUME ReservationAssumption, LedgerTypeOK, LedgerTypeOK', Rooted, Rooted', Leased, Leased',
         NEW x \in Handles \cup Leases, NEW r \in Handles,
         \A y \in Handles \cup Leases : y # x => refund'[y] = refund[y],
         UNCHANGED root
  PROVE  \E rest \in Cost :
           /\ Owed(r) = IF refund[x].at # NoHandle /\ root[refund[x].at] = r
                        THEN Plus(refund[x].cost, rest) ELSE rest
           /\ Owed(r)' = IF refund'[x].at # NoHandle /\ root[refund'[x].at] = r
                         THEN Plus(refund'[x].cost, rest) ELSE rest
<1>1. /\ Returning(r) = {y \in Handles \cup Leases : refund[y].at # NoHandle /\ root[refund[y].at] = r}
      /\ IsFiniteSet(Returning(r)) /\ IsFiniteSet(Handles \cup Leases)
  BY ReturningForm, CreditsTyped, FS_Union DEF ReservationAssumption
<1>2. Returning(r)' = {y \in Handles \cup Leases : refund'[y].at # NoHandle /\ root[refund'[y].at] = r}
  <2>1. \A h \in Handles : refund'[h].at # NoHandle => root[refund'[h].at] = root[h]
    BY DEF Rooted
  <2>2. \A l \in Leases : refund'[l].at # NoHandle =>
          lease'[l] = "refunding" /\ root[refund'[l].at] = root[bank'[l]]
    BY DEF Leased
  <2> QED
    BY <2>1, <2>2 DEF Returning, Branch
<1> DEFINE T == Returning(r)'
           f == RefundCost
           g == RefundCost'
<1>3. /\ \A y \in Handles \cup Leases : f[y] = refund[y].cost /\ f[y] \in Cost
      /\ \A y \in Handles \cup Leases : g[y] = refund'[y].cost /\ g[y] \in Cost
  BY DEF RefundCost, LedgerTypeOK
<1>4. /\ Returning(r) \in SUBSET (Handles \cup Leases) /\ T \in SUBSET (Handles \cup Leases)
      /\ Returning(r) \ {x} = T \ {x}
      /\ x \in Returning(r) <=> (refund[x].at # NoHandle /\ root[refund[x].at] = r)
      /\ x \in T <=> (refund'[x].at # NoHandle /\ root[refund'[x].at] = r)
  BY <1>1, <1>2
<1>5. \A y \in Returning(r) \ {x} : f[y] = g[y]
  BY <1>3, <1>4
<1>6. Owed(r) = SumOf(f, Returning(r)) /\ Owed(r)' = SumOf(g, T)
  BY DEF Owed
<1> HIDE DEF T, f, g
<1>7. IsFiniteSet(T)
  BY <1>1, <1>4, FS_Subset
<1>8. \E rest \in Cost :
        /\ SumOf(f, Returning(r)) = IF x \in Returning(r) THEN Plus(f[x], rest) ELSE rest
        /\ SumOf(g, T) = IF x \in T THEN Plus(g[x], rest) ELSE rest
  <2>1. \A y \in Returning(r) : f[y] \in Cost
    BY <1>3, <1>4
  <2>2. \A y \in T : g[y] \in Cost
    BY <1>3, <1>4
  <2>3. IsFiniteSet(Returning(r)) /\ Returning(r) \ {x} = T \ {x}
    BY <1>1, <1>4
  <2> QED
    BY <1>5, <1>7, <2>1, <2>2, <2>3, CostSumShift
<1> QED
  BY <1>3, <1>4, <1>6, <1>8

LEMMA SpendableKept ==
  ASSUME UNCHANGED <<balance, root>>, NEW r
  PROVE  Spendable(r)' = Spendable(r)
BY DEF Spendable, Branch

LEMMA OwedKept ==
  ASSUME ReservationAssumption, LedgerTypeOK, Rooted, Rooted', Leased, Leased',
         UNCHANGED <<refund, root>>, NEW r \in Handles
  PROVE  Owed(r)' = Owed(r)
<1>1. Returning(r) = {y \in Handles \cup Leases : refund[y].at # NoHandle /\ root[refund[y].at] = r}
  BY ReturningForm
<1>2. Returning(r)' = {y \in Handles \cup Leases : refund[y].at # NoHandle /\ root[refund[y].at] = r}
  <2>1. \A h \in Handles : refund[h].at # NoHandle => root[refund[h].at] = root[h]
    BY DEF Rooted
  <2>2. \A l \in Leases : refund[l].at # NoHandle =>
          lease'[l] = "refunding" /\ root[refund[l].at] = root[bank'[l]]
    BY DEF Leased
  <2> QED
    BY <2>1, <2>2 DEF Returning, Branch
<1> QED
  BY <1>1, <1>2 DEF Owed, RefundCost

\* The credits of a charged pipeline.
Conserved(r) ==
  /\ Fits(Plus(Spendable(r), Owed(r)), total[r])
  /\ Alive(r) => Plus(Spendable(r), Owed(r)) = total[r]

LEMMA ConservedForm ==
  ASSUME ReservationAssumption, LedgerTypeOK, Rooted
  PROVE  CreditsConserved <=> \A r \in Handles : pipe[r] = "charged" => Conserved(r)
<1>1. ASSUME NEW r \in Handles PROVE Credits(r) = Plus(Spendable(r), Owed(r))
  BY CreditForm
<1>2. \A r \in Handles : \A h \in Branch(r) : ~Alive(h) => balance[h] = Zero
  BY DEF Branch, Rooted
<1> QED
  BY <1>1, <1>2 DEF CreditsConserved, Conserved

\* Steps that move no credit.
LEMMA CreditsKept ==
  ASSUME ReservationAssumption, LedgerTypeOK, Rooted, Rooted', Leased, Leased',
         NEW r \in Handles, Conserved(r),
         UNCHANGED <<balance, refund, root, total>>, Alive(r)' => Alive(r)
  PROVE  Conserved(r)'
<1>1. Spendable(r)' = Spendable(r) /\ Owed(r)' = Owed(r)
  BY SpendableKept, OwedKept
<1> QED
  BY <1>1 DEF Conserved

LEMMA CreditsSteps ==
  ASSUME ReservationAssumption, LedgerInv, LedgerTypeOK', Rooted', Leased', LedgerNext
  PROVE  CreditsConserved'
<1>0. /\ LedgerTypeOK /\ Rooted /\ Leased
      /\ \A r \in Handles : pipe[r] = "charged" => Conserved(r)
  BY ConservedForm DEF LedgerInv, LedgerBounded
<1>c. CreditsConserved
  BY DEF LedgerInv
<1>h. /\ Handles \cap Leases = {} /\ NoHandle \notin Handles
      /\ \A h \in Handles : h \notin Leases /\ h \in Handles \cup Leases
      /\ \A l \in Leases : l \notin Handles /\ l \in Handles \cup Leases
  BY DEF ReservationAssumption
<1>t. /\ \A r \in Handles : /\ total[r] \in Cost /\ total[r].meta \in Nat /\ total[r].bytes \in Nat
                            /\ balance[r] \in Cost /\ balance[r].meta \in Nat /\ balance[r].bytes \in Nat
      /\ \A r \in Handles : /\ Spendable(r) \in Cost /\ Owed(r) \in Cost
                            /\ Spendable(r).meta \in Nat /\ Spendable(r).bytes \in Nat
                            /\ Owed(r).meta \in Nat /\ Owed(r).bytes \in Nat
      /\ handle \in [Handles -> {"free", "live", "retired", "gone"}]
      /\ refund \in [Handles \cup Leases -> [at : Handles \cup {NoHandle}, cost : Cost]]
      /\ balance \in [Handles -> Cost] /\ total \in [Handles -> Cost]
  <2>1. \A r \in Handles : total[r] \in Cost /\ balance[r] \in Cost
    BY <1>0 DEF LedgerTypeOK
  <2>2. \A r \in Handles : Spendable(r) \in Cost /\ Owed(r) \in Cost
    BY <1>0, CreditForm
  <2> QED
    BY <2>1, <2>2, <1>0, CostFacts DEF LedgerTypeOK
<1>x. /\ \A h \in Handles : handle[h] # "free" => root[h] \in Handles /\ handle[root[h]] # "free"
      /\ \A h \in Handles : parent[h] # NoHandle => parent[h] \in Handles
      /\ \A h \in Handles : root[h] # NoHandle => root[h] \in Handles
      /\ \A y \in Handles \cup Leases : refund[y].at # NoHandle => refund[y].at \in Handles
      /\ \A l \in Leases : bank[l] # NoHandle => bank[l] \in Handles
      /\ \A h, y \in Handles : handle[h] = "free" => (y # h => root[y] # h)
  BY <1>0, RootFacts
<1> DEFINE Goal == \A r \in Handles : pipe'[r] = "charged" => Conserved(r)'
<1>k. ASSUME UNCHANGED <<balance, refund, root, total>>,
             \A r \in Handles : pipe'[r] = "charged" => pipe[r] = "charged",
             \A r \in Handles : Alive(r)' => Alive(r)
      PROVE  Goal
  <2>1. ASSUME NEW r \in Handles, pipe'[r] = "charged" PROVE Conserved(r)'
    BY <2>1, <1>k, <1>0, CreditsKept
  <2> QED
    BY <2>1
<1>1. ASSUME NEW n \in Batches, ChargeOwned(n) PROVE Goal
  <2>1. UNCHANGED <<balance, refund, root, total, pipe, handle>>
    BY <1>1 DEF ChargeOwned, pipeVars, treeVars
  <2> QED
    BY <2>1, <1>k DEF Alive
<1>2. ASSUME DropOwned \/ Close PROVE Goal
  <2>1. UNCHANGED <<balance, refund, root, total, pipe, handle>>
    BY <1>2 DEF DropOwned, Close, pipeVars, treeVars
  <2> QED
    BY <2>1, <1>k DEF Alive
<1>3. ASSUME NEW h \in Handles, NEW k \in Kinds, NEW cost \in Costs, Reserve(h, k, cost)
      PROVE  Goal
  <2>1. /\ cost \in Cost /\ cost.meta \in Nat /\ cost.bytes \in Nat /\ handle[h] = "free"
        /\ total' = [total EXCEPT ![h] = cost] /\ balance' = [balance EXCEPT ![h] = cost]
        /\ root' = [root EXCEPT ![h] = h] /\ pipe' = [pipe EXCEPT ![h] = "charged"]
        /\ handle' = [handle EXCEPT ![h] = "live"] /\ UNCHANGED <<refund, lease, bank>>
    BY <1>3, ConstantFacts, CostFacts DEF Reserve, leaseVars
  <2>2. /\ root[h] = NoHandle /\ root'[h] = h /\ balance'[h] = cost /\ total'[h] = cost
        /\ \A y \in Handles : y # h => /\ root'[y] = root[y] /\ root[y] # h
                                       /\ balance'[y] = balance[y] /\ total'[y] = total[y]
                                       /\ pipe'[y] = pipe[y] /\ handle'[y] = handle[y]
    BY <2>1, <1>0, <1>x DEF Rooted, LedgerTypeOK
  <2>3. \A y \in Handles \cup Leases : refund[y].at # NoHandle =>
          refund[y].at # h /\ root'[refund[y].at] = root[refund[y].at] /\ root[refund[y].at] # h
    <3>1. \A y \in Handles \cup Leases : refund[y].at # NoHandle => root[refund[y].at] # NoHandle
      <4>1. \A y \in Handles : refund[y].at # NoHandle => root[refund[y].at] # NoHandle
        BY <1>0 DEF Rooted
      <4>2. \A y \in Leases : refund[y].at # NoHandle => root[refund[y].at] # NoHandle
        BY <1>0 DEF Leased
      <4> QED
        BY <4>1, <4>2
    <3> QED
      BY <3>1, <2>2, <1>x
  <2>4. ASSUME NEW r \in Handles
        PROVE  Returning(r)' = IF r = h THEN {} ELSE Returning(r)
    <3>1. Returning(r) = {x \in Handles \cup Leases : refund[x].at # NoHandle /\ root[refund[x].at] = r}
      BY <1>0, ReturningForm
    <3>2. Returning(r)' = {x \in Handles \cup Leases : refund'[x].at # NoHandle /\ root'[refund'[x].at] = r}
      <4>1. \A y \in Handles : refund'[y].at # NoHandle => root'[refund'[y].at] = root'[y]
        BY DEF Rooted
      <4>2. \A l \in Leases : refund'[l].at # NoHandle =>
              lease'[l] = "refunding" /\ root'[refund'[l].at] = root'[bank'[l]]
        BY DEF Leased
      <4> QED
        BY <4>1, <4>2 DEF Returning, Branch
    <3> QED
      BY <3>1, <3>2, <2>1, <2>3
  <2>5. ASSUME NEW r \in Handles, r # h, pipe'[r] = "charged" PROVE Conserved(r)'
    <3>1. Branch(r)' = Branch(r)
      <4>1. root'[h] # r /\ root[h] # r
        BY <2>2, <2>5, <1>h
      <4> QED
        BY <4>1, <2>2 DEF Branch
    <3>2. Spendable(r)' = Spendable(r)
      <4> DEFINE g == balance'
      <4>1. \A y \in Branch(r) : balance[y] = g[y]
        BY <2>2, <2>5, <1>h DEF Branch
      <4>2. IsFiniteSet(Branch(r))
        BY <1>0, CreditsTyped
      <4> HIDE DEF g
      <4>3. SumOf(balance, Branch(r)) = SumOf(g, Branch(r))
        BY <4>1, <4>2, CostSumAgree
      <4> QED
        BY <4>3, <3>1 DEF Spendable, g
    <3>3. Owed(r)' = Owed(r)
      BY <2>1, <2>4, <2>5 DEF Owed, RefundCost
    <3>4. pipe[r] = "charged" /\ total'[r] = total[r] /\ (Alive(r)' <=> Alive(r))
      BY <2>2, <2>5 DEF Alive
    <3> QED
      BY <3>2, <3>3, <3>4, <1>0 DEF Conserved
  <2>6. Conserved(h)'
    <3>1. Branch(h)' = {h}
      BY <2>2 DEF Branch
    <3>2. Spendable(h)' = cost
      <4> DEFINE g == balance'
      <4>1. g[h] = cost
        BY <2>2
      <4> HIDE DEF g
      <4>2. IsFiniteSet({h}) /\ \A y \in {h} : g[y] \in Cost
        BY <4>1, <2>1, FS_Singleton
      <4>3. {h} \ {h} = {}
        OBVIOUS
      <4>4. SumOf(g, {h}) = Plus(g[h], SumOf(g, {h} \ {h}))
        BY <4>2, CostSumRemove
      <4>5. SumOf(g, {h}) = Plus(cost, Zero)
        BY <4>1, <4>3, <4>4, CostSumEmpty
      <4>6. Plus(cost, Zero) = cost
        BY <2>1 DEF Plus, Zero, Cost
      <4> QED
        BY <3>1, <4>5, <4>6 DEF Spendable, g
    <3>3. Owed(h)' = Zero
      <4>1. Returning(h)' = {}
        BY <2>4
      <4> QED
        BY <4>1, CostSumEmpty DEF Owed
    <3>4. Plus(cost, Zero) = cost /\ Fits(cost, cost)
      BY <2>1 DEF Plus, Zero, Cost, Fits
    <3> QED
      BY <3>2, <3>3, <3>4, <2>2 DEF Conserved
  <2> QED
    BY <2>5, <2>6
<1>4. ASSUME NEW h \in Handles, NEW child \in Handles, NEW cost \in Costs, Stage(h, child, cost)
      PROVE  Goal
  <2>1. /\ cost \in Cost /\ cost.meta \in Nat /\ cost.bytes \in Nat
        /\ handle[h] = "live" /\ handle[child] = "free" /\ h # child /\ Fits(cost, balance[h])
        /\ root' = [root EXCEPT ![child] = root[h]] /\ handle' = [handle EXCEPT ![child] = "live"]
        /\ balance' = [balance EXCEPT ![h] = Minus(@, cost), ![child] = cost]
        /\ UNCHANGED <<pipe, total, refund, lease, bank>>
    BY <1>4, ConstantFacts, CostFacts DEF Stage, Usable, Alive, pipeVars, leaseVars
  <2>2. /\ root[child] = NoHandle /\ root'[child] = root[h] /\ root[h] # child /\ root[h] \in Handles
        /\ \A y \in Handles : y # child => root'[y] = root[y] /\ root[y] # child
        /\ balance'[child] = cost /\ balance'[h] = Minus(balance[h], cost)
        /\ \A y \in Handles : y # child /\ y # h => balance'[y] = balance[y]
        /\ \A y \in Handles : y # child => handle'[y] = handle[y]
    BY <2>1, <1>0, <1>x DEF Rooted, LedgerTypeOK
  <2>3. \A y \in Handles \cup Leases : refund[y].at # NoHandle =>
          root'[refund[y].at] = root[refund[y].at]
    <3>1. \A y \in Handles \cup Leases : refund[y].at # NoHandle => root[refund[y].at] # NoHandle
      <4>1. \A y \in Handles : refund[y].at # NoHandle => root[refund[y].at] # NoHandle
        BY <1>0 DEF Rooted
      <4>2. \A y \in Leases : refund[y].at # NoHandle => root[refund[y].at] # NoHandle
        BY <1>0 DEF Leased
      <4> QED
        BY <4>1, <4>2
    <3> QED
      BY <3>1, <2>2, <1>x
  <2>4. ASSUME NEW r \in Handles PROVE Owed(r)' = Owed(r)
    <3>1. Returning(r) = {x \in Handles \cup Leases : refund[x].at # NoHandle /\ root[refund[x].at] = r}
      BY <1>0, ReturningForm
    <3>2. Returning(r)' = {x \in Handles \cup Leases : refund'[x].at # NoHandle /\ root'[refund'[x].at] = r}
      <4>1. \A y \in Handles : refund'[y].at # NoHandle => root'[refund'[y].at] = root'[y]
        BY DEF Rooted
      <4>2. \A l \in Leases : refund'[l].at # NoHandle =>
              lease'[l] = "refunding" /\ root'[refund'[l].at] = root'[bank'[l]]
        BY DEF Leased
      <4> QED
        BY <4>1, <4>2 DEF Returning, Branch
    <3>3. Returning(r)' = Returning(r)
      BY <3>1, <3>2, <2>1, <2>3
    <3> QED
      BY <3>3, <2>1 DEF Owed, RefundCost
  <2>5. ASSUME NEW r \in Handles PROVE Spendable(r)' = Spendable(r)
    <3> DEFINE f == [balance EXCEPT ![h] = Minus(@, cost)]
               g == balance'
               S == Branch(r)
               T == Branch(r)'
    <3>1. /\ IsFiniteSet(S) /\ S \in SUBSET Handles /\ T \in SUBSET Handles
          /\ \A y \in Handles : balance[y] \in Cost
      BY <1>0, <1>t, CreditsTyped DEF Branch
    <3>2. Minus(balance[h], cost) \in Cost
      BY <2>1, <1>t, CostFacts
    <3>3. /\ f[h] = Minus(balance[h], cost) /\ \A y \in Handles : y # h => f[y] = balance[y]
          /\ \A y \in Handles : f[y] \in Cost
      BY <3>2, <1>t
    <3>4. /\ g[child] = cost /\ g[h] = f[h] /\ \A y \in Handles : y # child => g[y] = f[y]
      BY <3>3, <2>2, <2>1
    <3>5. \A y \in Handles : g[y] \in Cost
      BY <3>3, <3>4, <2>1
    <3>6. /\ h \in S <=> root[h] = r
          /\ child \in T <=> root[h] = r
          /\ child \notin S /\ S \ {child} = T \ {child}
      BY <2>2, <1>h DEF Branch
    <3>7. Spendable(r) = SumOf(balance, S) /\ Spendable(r)' = SumOf(g, T)
      BY DEF Spendable
    <3>8. IsFiniteSet(T)
      <4>1. IsFiniteSet(Handles)
        BY DEF ReservationAssumption
      <4> HIDE DEF T
      <4> QED
        BY <4>1, <3>1, FS_Subset
    <3> HIDE DEF f, g, S, T
    <3>9. PICK rest \in Cost :
            /\ SumOf(balance, S) = IF h \in S THEN Plus(balance[h], rest) ELSE rest
            /\ SumOf(f, S) = IF h \in S THEN Plus(f[h], rest) ELSE rest
      <4>1. /\ \A y \in S : balance[y] \in Cost
            /\ \A y \in S : f[y] \in Cost
            /\ \A y \in S \ {h} : balance[y] = f[y]
        BY <3>1, <3>3
      <4> QED
        BY <4>1, <3>1, CostSumShift
    <3>10. PICK more \in Cost :
             /\ SumOf(f, S) = IF child \in S THEN Plus(f[child], more) ELSE more
             /\ SumOf(g, T) = IF child \in T THEN Plus(g[child], more) ELSE more
      <4>1. /\ \A y \in T : g[y] \in Cost
            /\ \A y \in S : f[y] \in Cost
            /\ \A y \in S \ {child} : f[y] = g[y]
        BY <3>1, <3>3, <3>4, <3>5
      <4>2. S \ {child} = T \ {child}
        BY <3>6
      <4> QED
        BY <4>1, <4>2, <3>1, <3>8, CostSumShift
    <3>11. CASE root[h] = r
      <4>1. /\ SumOf(balance, S) = Plus(balance[h], rest)
            /\ more = Plus(Minus(balance[h], cost), rest) /\ SumOf(g, T) = Plus(cost, more)
        <5>1. h \in S /\ child \in T /\ child \notin S
          BY <3>6, <3>11
        <5>2. SumOf(balance, S) = Plus(balance[h], rest) /\ SumOf(f, S) = Plus(f[h], rest)
          BY <5>1, <3>9
        <5>3. SumOf(f, S) = more /\ SumOf(g, T) = Plus(g[child], more)
          BY <5>1, <3>10
        <5> QED
          BY <5>2, <5>3, <3>3, <3>4
      <4>2. Plus(cost, Plus(Minus(balance[h], cost), rest)) = Plus(balance[h], rest)
        <5>1. /\ balance[h].meta \in Nat /\ balance[h].bytes \in Nat
              /\ rest.meta \in Nat /\ rest.bytes \in Nat
          BY <1>t, CostFacts
        <5> QED
          BY <5>1, <2>1 DEF Plus, Minus
      <4> QED
        BY <4>1, <4>2, <3>7
    <3>12. CASE root[h] # r
      BY <3>6, <3>7, <3>9, <3>10, <3>12
    <3> QED
      BY <3>11, <3>12
  <2>6. ASSUME NEW r \in Handles, pipe'[r] = "charged" PROVE Conserved(r)'
    <3>1. r # child
      BY <2>1, <2>6, <2>2, <1>0, <1>h DEF Rooted
    <3>2. Alive(r)' <=> Alive(r)
      BY <3>1, <2>2 DEF Alive
    <3>3. total'[r] = total[r] /\ pipe[r] = "charged"
      BY <2>1, <2>6
    <3> QED
      BY <3>2, <3>3, <2>4, <2>5, <1>0 DEF Conserved
  <2> QED
    BY <2>6
<1>5. ASSUME NEW h \in Handles, NEW cost \in Costs, Grow(h, cost) PROVE Goal
  <2>1. UNCHANGED <<balance, refund, root, total, pipe, handle>>
    BY <1>5 DEF Grow, pipeVars, treeVars
  <2> QED
    BY <2>1, <1>k DEF Alive
<1>6. ASSUME NEW h \in Handles, FinishGrow(h) PROVE Goal
  <2> DEFINE p == root[h]
             cost == growth[h]
  <2>1. /\ cost # Zero /\ total' = [total EXCEPT ![p] = Plus(@, cost)]
        /\ balance' = [balance EXCEPT ![h] = Plus(@, cost)]
        /\ UNCHANGED <<pipe, handle, root, refund>>
    BY <1>6 DEF FinishGrow, treeVars
  <2>2. p \in Handles
    BY <2>1, <1>0, <1>c, Funded DEF Rooted
  <2>3. /\ cost \in Cost /\ cost.meta \in Nat /\ cost.bytes \in Nat
        /\ total'[p] = Plus(total[p], cost) /\ \A x \in Handles : x # p => total'[x] = total[x]
        /\ balance'[h] = Plus(balance[h], cost) /\ \A x \in Handles : x # h => balance'[x] = balance[x]
    BY <2>1, <2>2, <1>0, CostFacts DEF LedgerTypeOK
  <2>4. ASSUME NEW r \in Handles, pipe'[r] = "charged" PROVE Conserved(r)'
    <3>1. Owed(r)' = Owed(r)
      BY <2>1, <1>0, OwedKept
    <3>2. PICK rest \in Cost :
            /\ Spendable(r) = IF p = r THEN Plus(balance[h], rest) ELSE rest
            /\ Spendable(r)' = IF p = r THEN Plus(balance'[h], rest) ELSE rest
      BY <2>1, <2>3, <1>0, BranchShift
    <3>3. Conserved(r) /\ (Alive(r)' <=> Alive(r)) /\ rest.meta \in Nat /\ rest.bytes \in Nat
      BY <2>1, <2>4, <1>0, CostFacts DEF Alive
    <3>4. total[r].meta \in Nat /\ total[r].bytes \in Nat /\ balance[h].meta \in Nat
          /\ balance[h].bytes \in Nat /\ Owed(r).meta \in Nat /\ Owed(r).bytes \in Nat
          /\ total[r] = [meta |-> total[r].meta, bytes |-> total[r].bytes]
      BY <1>t, CostFacts
    <3> HIDE DEF cost
    <3>5. CASE p = r
      <4>1. /\ Spendable(r) = Plus(balance[h], rest)
            /\ Spendable(r)' = Plus(Plus(balance[h], cost), rest)
            /\ total'[r] = Plus(total[r], cost)
        BY <3>2, <3>5, <2>3
      <4>2. Fits(Plus(Spendable(r), Owed(r)), total[r]) =>
              Fits(Plus(Spendable(r)', Owed(r)), total'[r])
        BY <4>1, <3>3, <3>4, <2>3 DEF Plus, Fits
      <4>3. Plus(Spendable(r), Owed(r)) = total[r] => Plus(Spendable(r)', Owed(r)) = total'[r]
        BY <4>1, <3>3, <3>4, <2>3 DEF Plus
      <4> QED
        BY <4>2, <4>3, <3>1, <3>3 DEF Conserved
    <3>6. CASE p # r
      <4>1. Spendable(r)' = Spendable(r) /\ total'[r] = total[r]
        BY <3>2, <3>6, <2>3
      <4> QED
        BY <4>1, <3>1, <3>3 DEF Conserved
    <3> QED
      BY <3>5, <3>6
  <2> QED
    BY <2>4
<1>8. ASSUME NEW h \in Handles, RetireHandle(h) PROVE Goal
  <2> DEFINE p == root[h]
             up == parent[h]
  <2>1. /\ handle[h] = "live" /\ handle' = [handle EXCEPT ![h] = "retired"]
        /\ balance' = [balance EXCEPT ![h] = Zero]
        /\ refund' = [refund EXCEPT ![h] = [at |-> up, cost |-> IF up = NoHandle THEN Zero ELSE balance[h]]]
        /\ UNCHANGED <<pipe, root, total>>
    BY <1>8 DEF RetireHandle, Usable, Alive, Refunding, pipeVars, treeVars
  <2>2. /\ p \in Handles /\ (up = NoHandle => p = h) /\ (up # NoHandle => up \in Handles /\ root[up] = p)
        /\ refund[h].at = NoHandle
    BY <2>1, <1>0, <1>x DEF Rooted
  <2>3. /\ refund'[h].at = up /\ (up # NoHandle => refund'[h].cost = balance[h])
        /\ \A y \in Handles \cup Leases : y # h => refund'[y] = refund[y]
        /\ balance'[h] = Zero /\ \A y \in Handles : y # h => balance'[y] = balance[y]
        /\ handle'[h] = "retired" /\ \A y \in Handles : y # h => handle'[y] = handle[y]
    BY <2>1, <1>t, <1>h
  <2>4. ASSUME NEW r \in Handles, pipe'[r] = "charged" PROVE Conserved(r)'
    <3>1. PICK rest \in Cost :
            /\ Spendable(r) = IF p = r THEN Plus(balance[h], rest) ELSE rest
            /\ Spendable(r)' = IF p = r THEN Plus(balance'[h], rest) ELSE rest
      BY <2>1, <2>3, <1>0, BranchShift
    <3>2. PICK more \in Cost :
            /\ Owed(r) = IF refund[h].at # NoHandle /\ root[refund[h].at] = r
                         THEN Plus(refund[h].cost, more) ELSE more
            /\ Owed(r)' = IF refund'[h].at # NoHandle /\ root[refund'[h].at] = r
                          THEN Plus(refund'[h].cost, more) ELSE more
      BY <2>1, <2>3, <1>0, <1>h, ReturningShift
    <3>3. Conserved(r) /\ total'[r] = total[r] /\ (r # h => (Alive(r)' <=> Alive(r))) /\ ~Alive(h)'
      BY <2>1, <2>3, <2>4, <1>0 DEF Alive
    <3>4. /\ rest.meta \in Nat /\ rest.bytes \in Nat /\ more.meta \in Nat /\ more.bytes \in Nat
          /\ balance[h].meta \in Nat /\ balance[h].bytes \in Nat
          /\ total[r].meta \in Nat /\ total[r].bytes \in Nat
      BY <1>t, CostFacts
    <3>5. CASE p = r /\ up # NoHandle
      <4>1. /\ Spendable(r) = Plus(balance[h], rest) /\ Owed(r) = more
            /\ Spendable(r)' = Plus(Zero, rest) /\ Owed(r)' = Plus(balance[h], more)
        BY <3>1, <3>2, <3>5, <2>2, <2>3
      <4>2. Plus(Spendable(r)', Owed(r)') = Plus(Spendable(r), Owed(r))
        BY <4>1, <3>4 DEF Plus, Zero
      <4>3. Alive(r)' => Alive(r)
        BY <3>3
      <4> QED
        BY <4>2, <4>3, <3>3 DEF Conserved
    <3>6. CASE p = r /\ up = NoHandle
      <4>1. /\ Spendable(r) = Plus(balance[h], rest) /\ Owed(r) = more
            /\ Spendable(r)' = Plus(Zero, rest) /\ Owed(r)' = more /\ r = h
        BY <3>1, <3>2, <3>6, <2>2, <2>3
      <4>2. Fits(Plus(Spendable(r), Owed(r)), total[r]) =>
              Fits(Plus(Spendable(r)', Owed(r)'), total[r])
        BY <4>1, <3>4 DEF Plus, Fits, Zero
      <4> QED
        BY <4>1, <4>2, <3>3 DEF Conserved
    <3>7. CASE p # r
      <4>1. Spendable(r)' = Spendable(r) /\ Owed(r)' = Owed(r)
        BY <3>1, <3>2, <3>7, <2>2, <2>3
      <4>2. Alive(r)' => Alive(r)
        BY <3>3
      <4> QED
        BY <4>1, <4>2, <3>3 DEF Conserved
    <3> QED
      BY <3>5, <3>6, <3>7
  <2> QED
    BY <2>4
<1>9. ASSUME NEW x \in Handles \cup Leases, RefundStep(x) PROVE Goal
  <2> DEFINE at == refund[x].at
             cost == refund[x].cost
             up == parent[at]
             p == root[at]
  <2>1. /\ at # NoHandle /\ UNCHANGED <<pipe, handle, root, total>>
        /\ IF Alive(at)
           THEN /\ balance' = [balance EXCEPT ![at] = Plus(@, cost)]
                /\ refund' = [refund EXCEPT ![x] = [at |-> NoHandle, cost |-> Zero]]
           ELSE /\ refund' = [refund EXCEPT ![x] = [at |-> up, cost |-> IF up = NoHandle THEN Zero ELSE cost]]
                /\ UNCHANGED balance
    BY <1>9 DEF RefundStep, Refunding, pipeVars, treeVars
  <2>2. /\ at \in Handles /\ cost \in Cost /\ cost.meta \in Nat /\ cost.bytes \in Nat
        /\ root[at] # NoHandle
    <3>1. at \in Handles /\ cost \in Cost
      BY <2>1, <1>x, <1>t
    <3>2. root[at] # NoHandle
      <4>1. \A y \in Handles : refund[y].at # NoHandle => root[refund[y].at] # NoHandle
        BY <1>0 DEF Rooted
      <4>2. \A y \in Leases : refund[y].at # NoHandle => root[refund[y].at] # NoHandle
        BY <1>0 DEF Leased
      <4> QED
        BY <4>1, <4>2, <2>1
    <3> QED
      BY <3>1, <3>2, CostFacts
  <2>3. (up = NoHandle => p = at) /\ (up # NoHandle => up \in Handles /\ root[up] = p)
    BY <2>2, <1>0, <1>x DEF Rooted
  <2>4. \A y \in Handles \cup Leases : y # x => refund'[y] = refund[y]
    BY <2>1, <1>t
  <2>5. \A y \in Handles : y # at => balance'[y] = balance[y]
    BY <2>1, <1>t
  <2>6. /\ Alive(at) => balance'[at] = Plus(balance[at], cost) /\ refund'[x].at = NoHandle
        /\ ~Alive(at) => balance'[at] = balance[at] /\ refund'[x].at = up
                           /\ (up # NoHandle => refund'[x].cost = cost)
    BY <2>1, <2>2, <1>t
  <2>7. ASSUME NEW r \in Handles, pipe'[r] = "charged" PROVE Conserved(r)'
    <3>1. PICK rest \in Cost :
            /\ Spendable(r) = IF p = r THEN Plus(balance[at], rest) ELSE rest
            /\ Spendable(r)' = IF p = r THEN Plus(balance'[at], rest) ELSE rest
      BY <2>1, <2>2, <2>5, <1>0, BranchShift
    <3>2. PICK more \in Cost :
            /\ Owed(r) = IF refund[x].at # NoHandle /\ root[refund[x].at] = r
                         THEN Plus(refund[x].cost, more) ELSE more
            /\ Owed(r)' = IF refund'[x].at # NoHandle /\ root[refund'[x].at] = r
                          THEN Plus(refund'[x].cost, more) ELSE more
      BY <2>1, <2>4, <1>0, ReturningShift
    <3>3. Conserved(r) /\ total'[r] = total[r] /\ (Alive(r)' <=> Alive(r))
      BY <2>1, <2>7, <1>0 DEF Alive
    <3>4. /\ rest.meta \in Nat /\ rest.bytes \in Nat /\ more.meta \in Nat /\ more.bytes \in Nat
          /\ balance[at].meta \in Nat /\ balance[at].bytes \in Nat
          /\ total[r].meta \in Nat /\ total[r].bytes \in Nat
      BY <2>2, <1>t, CostFacts
    <3>5. Owed(r) = IF p = r THEN Plus(cost, more) ELSE more
      BY <3>2, <2>1
    <3>6. CASE p # r
      <4>1. Owed(r)' = more
        BY <3>2, <3>6, <2>3, <2>6
      <4> QED
        BY <4>1, <3>1, <3>3, <3>5, <3>6 DEF Conserved
    <3>7. CASE p = r /\ Alive(at)
      <4>1. /\ Spendable(r) = Plus(balance[at], rest) /\ Owed(r) = Plus(cost, more)
            /\ Spendable(r)' = Plus(Plus(balance[at], cost), rest) /\ Owed(r)' = more
        BY <3>1, <3>2, <3>5, <3>7, <2>6
      <4>2. Plus(Spendable(r)', Owed(r)') = Plus(Spendable(r), Owed(r))
        <5> HIDE DEF cost
        <5> QED
          BY <4>1, <3>4, <2>2 DEF Plus
      <4> QED
        BY <4>2, <3>3 DEF Conserved
    <3>8. CASE p = r /\ ~Alive(at) /\ up # NoHandle
      <4>1. Spendable(r)' = Spendable(r) /\ Owed(r)' = Owed(r)
        BY <3>1, <3>2, <3>5, <3>8, <2>3, <2>6
      <4> QED
        BY <4>1, <3>3 DEF Conserved
    <3>9. CASE p = r /\ ~Alive(at) /\ up = NoHandle
      <4>1. /\ Spendable(r)' = Spendable(r) /\ Owed(r)' = more /\ Owed(r) = Plus(cost, more)
            /\ Spendable(r) = Plus(balance[at], rest) /\ r = at
        BY <3>1, <3>2, <3>5, <3>9, <2>3, <2>6
      <4>2. Fits(Plus(Spendable(r), Owed(r)), total[r]) =>
              Fits(Plus(Spendable(r)', Owed(r)'), total[r])
        <5> HIDE DEF cost
        <5> QED
          BY <4>1, <3>4, <2>2 DEF Plus, Fits
      <4> QED
        BY <4>1, <4>2, <3>3, <3>9 DEF Conserved
    <3> QED
      BY <3>6, <3>7, <3>8, <3>9
  <2> QED
    BY <2>7
<1>10. ASSUME NEW h \in Handles, Release(h) PROVE Goal
  <2>1. UNCHANGED <<balance, refund, root, total, pipe>> /\ handle' = [handle EXCEPT ![h] = "gone"]
    BY <1>10 DEF Release, pipeVars, treeVars
  <2>2. \A r \in Handles : Alive(r)' => Alive(r)
    BY <2>1, <1>t DEF Alive
  <2> QED
    BY <2>1, <2>2, <1>k
<1>11. ASSUME NEW p \in Handles, ReleasePipeline(p) PROVE Goal
  <2>1. UNCHANGED <<balance, refund, root, total, handle>> /\ pipe' = [pipe EXCEPT ![p] = "released"]
    BY <1>11 DEF ReleasePipeline, treeVars
  <2>2. \A r \in Handles : pipe'[r] = "charged" => pipe[r] = "charged"
    BY <2>1, <1>0 DEF LedgerTypeOK
  <2> QED
    BY <2>1, <2>2, <1>k DEF Alive
<1>12. ASSUME NEW h \in Handles, NEW l \in Leases, NEW c \in Costs, Retain(h, l, c.bytes)
       PROVE  Goal
  <2> DEFINE p == root[h]
             n == c.bytes
  <2>1. /\ n \in Nat /\ Alive(h)
        /\ total' = [total EXCEPT ![p] = Minus(@, Bytes(n))]
        /\ balance' = [balance EXCEPT ![h] = Minus(@, Bytes(n))]
        /\ UNCHANGED <<pipe, handle, root, refund>>
    BY <1>12, ConstantFacts DEF Retain, Usable, treeVars
  <2>2. p \in Handles
    BY <2>1, <1>0, <1>c, Funded
  <2>3. /\ total'[p] = Minus(total[p], Bytes(n)) /\ \A x \in Handles : x # p => total'[x] = total[x]
        /\ balance'[h] = Minus(balance[h], Bytes(n))
        /\ \A x \in Handles : x # h => balance'[x] = balance[x]
    BY <2>1, <2>2, <1>t
  <2> HIDE DEF n
  <2>4. ASSUME NEW r \in Handles, pipe'[r] = "charged" PROVE Conserved(r)'
    <3>1. Owed(r)' = Owed(r)
      BY <2>1, <1>0, OwedKept
    <3>2. PICK rest \in Cost :
            /\ Spendable(r) = IF p = r THEN Plus(balance[h], rest) ELSE rest
            /\ Spendable(r)' = IF p = r THEN Plus(balance'[h], rest) ELSE rest
      BY <2>1, <2>3, <1>0, BranchShift
    <3>3. Conserved(r) /\ (Alive(r)' <=> Alive(r)) /\ rest.meta \in Nat /\ rest.bytes \in Nat
      BY <2>1, <2>4, <1>0, CostFacts DEF Alive
    <3>4. total[r].meta \in Nat /\ total[r].bytes \in Nat /\ balance[h].meta \in Nat
          /\ balance[h].bytes \in Nat /\ Owed(r).meta \in Nat /\ Owed(r).bytes \in Nat
      BY <1>t
    <3>5. CASE p = r
      <4>1. /\ Spendable(r) = Plus(balance[h], rest)
            /\ Spendable(r)' = Plus(Minus(balance[h], Bytes(n)), rest)
            /\ total'[r] = Minus(total[r], Bytes(n))
        BY <3>2, <3>5, <2>3
      <4>2. Fits(Plus(Spendable(r), Owed(r)), total[r]) =>
              Fits(Plus(Spendable(r)', Owed(r)), total'[r])
        BY <4>1, <3>3, <3>4, <2>1 DEF Plus, Minus, Bytes, Fits
      <4>3. Plus(Spendable(r), Owed(r)) = total[r] => Plus(Spendable(r)', Owed(r)) = total'[r]
        <5> SUFFICES ASSUME Plus(Spendable(r), Owed(r)) = total[r]
                     PROVE  Plus(Spendable(r)', Owed(r)) = total'[r]
          OBVIOUS
        <5>1. /\ total[r].meta = balance[h].meta + rest.meta + Owed(r).meta
              /\ total[r].bytes = balance[h].bytes + rest.bytes + Owed(r).bytes
          BY <4>1, <3>3, <3>4 DEF Plus
        <5> QED
          BY <5>1, <4>1, <3>3, <3>4, <2>1 DEF Plus, Minus, Bytes
      <4> QED
        BY <4>2, <4>3, <3>1, <3>3 DEF Conserved
    <3>6. CASE p # r
      <4>1. Spendable(r)' = Spendable(r) /\ total'[r] = total[r]
        BY <3>2, <3>6, <2>3
      <4> QED
        BY <4>1, <3>1, <3>3 DEF Conserved
    <3> QED
      BY <3>5, <3>6
  <2> QED
    BY <2>4
<1>13. ASSUME NEW l \in Leases, DropLease(l) \/ ForgetPipeline(l) PROVE Goal
  <2>1. UNCHANGED <<balance, refund, root, total, pipe, handle>>
    BY <1>13 DEF DropLease, ForgetPipeline, pipeVars, treeVars
  <2> QED
    BY <2>1, <1>k DEF Alive
<1>14. ASSUME NEW l \in Leases, ReturnBytes(l) PROVE Goal
  <2> DEFINE p == root[bank[l]]
             n == bytes[l]
  <2>1. /\ lease[l] = "upgraded" /\ total' = [total EXCEPT ![p] = Plus(@, Bytes(n))]
        /\ refund' = [refund EXCEPT ![l] = [at |-> bank[l], cost |-> IF bank[l] = NoHandle THEN Zero ELSE Bytes(n)]]
        /\ UNCHANGED <<pipe, handle, root, balance>>
    BY <1>14 DEF ReturnBytes, Refunding, treeVars
  <2>2. p \in Handles /\ bank[l] # NoHandle /\ n \in Nat /\ refund[l].at = NoHandle
    BY <2>1, <1>0, <1>x DEF Leased, LedgerTypeOK
  <2>3. /\ total'[p] = Plus(total[p], Bytes(n)) /\ \A x \in Handles : x # p => total'[x] = total[x]
        /\ refund'[l].at = bank[l] /\ refund'[l].cost = Bytes(n)
        /\ \A y \in Handles \cup Leases : y # l => refund'[y] = refund[y]
    BY <2>1, <2>2, <1>t, <1>h
  <2> HIDE DEF n
  <2>4. ASSUME NEW r \in Handles, pipe'[r] = "charged" PROVE Conserved(r)'
    <3>1. Spendable(r)' = Spendable(r)
      BY <2>1, SpendableKept
    <3>2. PICK more \in Cost :
            /\ Owed(r) = IF refund[l].at # NoHandle /\ root[refund[l].at] = r
                         THEN Plus(refund[l].cost, more) ELSE more
            /\ Owed(r)' = IF refund'[l].at # NoHandle /\ root[refund'[l].at] = r
                          THEN Plus(refund'[l].cost, more) ELSE more
      BY <2>1, <2>3, <1>0, <1>h, ReturningShift
    <3>3. Conserved(r) /\ (Alive(r)' <=> Alive(r)) /\ more.meta \in Nat /\ more.bytes \in Nat
      BY <2>1, <2>4, <1>0, CostFacts DEF Alive
    <3>4. total[r].meta \in Nat /\ total[r].bytes \in Nat
          /\ Spendable(r).meta \in Nat /\ Spendable(r).bytes \in Nat
      BY <1>t
    <3>5. CASE p = r
      <4>1. Owed(r) = more /\ Owed(r)' = Plus(Bytes(n), more) /\ total'[r] = Plus(total[r], Bytes(n))
        BY <3>2, <3>5, <2>2, <2>3
      <4>2. Fits(Plus(Spendable(r), Owed(r)), total[r]) =>
              Fits(Plus(Spendable(r), Owed(r)'), total'[r])
        BY <4>1, <3>3, <3>4, <2>2 DEF Plus, Bytes, Fits
      <4>3. Plus(Spendable(r), Owed(r)) = total[r] => Plus(Spendable(r), Owed(r)') = total'[r]
        BY <4>1, <3>3, <3>4, <2>2 DEF Plus, Bytes
      <4> QED
        BY <4>2, <4>3, <3>1, <3>3 DEF Conserved
    <3>6. CASE p # r
      <4>1. Owed(r)' = Owed(r) /\ total'[r] = total[r]
        BY <3>2, <3>6, <2>2, <2>3
      <4> QED
        BY <4>1, <3>1, <3>3 DEF Conserved
    <3> QED
      BY <3>5, <3>6
  <2> QED
    BY <2>4
<1>15. Goal
  BY <1>1, <1>2, <1>3, <1>4, <1>5, <1>6, <1>8, <1>9, <1>10, <1>11, <1>12, <1>13, <1>14
     DEF LedgerNext, LedgerStep, HandleStep, LeaseStep
<1>16. CreditsConserved' <=> Goal
  <2>1. ASSUME NEW r \in Handles PROVE Credits(r)' = Plus(Spendable(r)', Owed(r)')
    BY DEF Credits, Spendable, Owed, RefundCost
  <2>2. \A r \in Handles : \A h \in Branch(r)' : ~Alive(h)' => balance'[h] = Zero
    BY DEF Branch, Rooted
  <2> QED
    BY <2>1, <2>2 DEF CreditsConserved, Conserved
<1> QED
  BY <1>15, <1>16

-----------------------------------------------------------------------------
(* The limits *)

LEMMA LimitsSteps ==
  ASSUME ReservationAssumption, LedgerInv, LedgerTypeOK', LedgerNext
  PROVE  LimitsHeld'
<1>0. LedgerTypeOK /\ Rooted /\ Leased /\ CreditsConserved /\ LimitsHeld
  BY DEF LedgerInv, LedgerBounded
<1>t. /\ "Ordinary" \in Kinds /\ "Required" \in Kinds
      /\ \A k \in Kinds : k = "Ordinary" \/ k = "Required"
      /\ \A k \in Kinds : usage[k].meta \in Nat /\ usage[k].bytes \in Nat
      /\ \A k \in Kinds : usage'[k].meta \in Nat /\ usage'[k].bytes \in Nat
      /\ pipelines \in Nat /\ PipelineLimit \in Nat /\ Ceiling \in Nat /\ Allowance \in Nat
      /\ Target.meta \in Nat /\ Target.bytes \in Nat
  BY <1>0, ConstantFacts DEF LedgerTypeOK, Kinds, Cost, ReservationAssumption
<1>l. /\ usage["Ordinary"].meta <= Target.meta /\ usage["Ordinary"].bytes <= Target.bytes
      /\ usage["Required"].meta <= Allowance /\ pipelines <= PipelineLimit
      /\ usage["Ordinary"].bytes + usage["Required"].bytes <= Ceiling
  BY <1>0 DEF LimitsHeld, Fits, AllBytes
<1>g. ASSUME usage'["Ordinary"].meta <= Target.meta, usage'["Ordinary"].bytes <= Target.bytes,
             usage'["Required"].meta <= Allowance, pipelines' <= PipelineLimit,
             usage'["Ordinary"].bytes + usage'["Required"].bytes <= Ceiling
      PROVE  LimitsHeld'
  BY <1>g DEF LimitsHeld, Fits, AllBytes
<1>u. ASSUME UNCHANGED <<usage, pipelines>> PROVE LimitsHeld'
  BY <1>u, <1>l, <1>g
<1>c. ASSUME NEW k \in Kinds, NEW cost \in Cost, Available(k, cost), Charge(k, cost),
             pipelines' <= PipelineLimit
      PROVE  LimitsHeld'
  <2>1. /\ cost.meta \in Nat /\ cost.bytes \in Nat
        /\ usage[k].bytes + cost.bytes \in Nat
        /\ usage["Ordinary"].bytes + usage["Required"].bytes + cost.bytes <= Ceiling
        /\ k = "Ordinary" => usage[k].meta + cost.meta <= Target.meta
                               /\ usage[k].bytes + cost.bytes <= Target.bytes
        /\ k # "Ordinary" => usage[k].meta + cost.meta <= Allowance
    <3>1. cost.meta \in Nat /\ cost.bytes \in Nat /\ usage[k].bytes \in Nat
      BY <1>t, CostFacts
    <3>2. /\ IF k = "Ordinary" THEN Fits(Plus(usage[k], cost), Target)
             ELSE Plus(usage[k], cost).meta <= Allowance
          /\ usage["Ordinary"].bytes + usage["Required"].bytes + cost.bytes <= Ceiling
      BY <1>c DEF Available, AllBytes
    <3> QED
      BY <3>1, <3>2 DEF Plus, Fits
  <2>2. \A j \in Kinds :
          /\ usage'[j].meta = usage[j].meta + (IF j = k THEN cost.meta ELSE 0)
          /\ usage'[j].bytes = usage[j].bytes + (IF j = k THEN cost.bytes ELSE 0)
    BY <1>c, <1>0, ChargeForm
  <2>3. CASE k = "Ordinary"
    <3>1. /\ usage'["Ordinary"].meta = usage["Ordinary"].meta + cost.meta
          /\ usage'["Ordinary"].bytes = usage["Ordinary"].bytes + cost.bytes
          /\ usage'["Required"].meta = usage["Required"].meta
          /\ usage'["Required"].bytes = usage["Required"].bytes
      BY <2>2, <2>3, <1>t
    <3> QED
      BY <3>1, <2>1, <2>3, <1>c, <1>t, <1>l, <1>g
  <2>4. CASE k = "Required"
    <3>1. /\ usage'["Required"].meta = usage["Required"].meta + cost.meta
          /\ usage'["Required"].bytes = usage["Required"].bytes + cost.bytes
          /\ usage'["Ordinary"].meta = usage["Ordinary"].meta
          /\ usage'["Ordinary"].bytes = usage["Ordinary"].bytes
      BY <2>2, <2>4, <1>t
    <3> QED
      BY <3>1, <2>1, <2>4, <1>c, <1>t, <1>l, <1>g
  <2> QED
    BY <2>3, <2>4, <1>t
<1>d. ASSUME NEW k \in Kinds, NEW cost \in Cost, Discharge(k, cost), pipelines' <= PipelineLimit
      PROVE  LimitsHeld'
  <2>1. \A j \in Kinds : usage'[j].meta <= usage[j].meta /\ usage'[j].bytes <= usage[j].bytes
    <3>1. \A j \in Kinds :
            /\ usage'[j].meta = usage[j].meta - (IF j = k THEN cost.meta ELSE 0)
            /\ usage'[j].bytes = usage[j].bytes - (IF j = k THEN cost.bytes ELSE 0)
      BY <1>d, <1>0, DischargeForm
    <3>2. cost.meta \in Nat /\ cost.bytes \in Nat
      BY CostFacts
    <3> QED
      BY <3>1, <3>2, <1>t
  <2>2. /\ usage'["Ordinary"].meta <= usage["Ordinary"].meta
        /\ usage'["Ordinary"].bytes <= usage["Ordinary"].bytes
        /\ usage'["Required"].meta <= usage["Required"].meta
        /\ usage'["Required"].bytes <= usage["Required"].bytes
    BY <2>1, <1>t
  <2> QED
    BY <2>2, <1>d, <1>t, <1>l, <1>g
<1>1. ASSUME NEW n \in Batches, ChargeOwned(n) PROVE LimitsHeld'
  <2> DEFINE cost == [meta |-> Accepted(n), bytes |-> 0]
  <2>1. /\ n \in Nat /\ Accepted(n) \in Nat /\ usage["Ordinary"].meta + Accepted(n) <= Target.meta
    <3>1. /\ n \in Nat /\ Target.meta \in Nat /\ usage["Ordinary"].meta \in Nat
      BY <1>t, ConstantFacts
    <3>2. Accepted(n) > 0
      BY <1>1 DEF ChargeOwned
    <3>3. \/ Accepted(n) = n /\ n <= Target.meta - usage["Ordinary"].meta
          \/ Accepted(n) = Target.meta - usage["Ordinary"].meta
      BY DEF Accepted
    <3> QED
      BY <3>1, <3>2, <3>3
  <2>2. /\ cost \in Cost /\ cost.meta = Accepted(n) /\ cost.bytes = 0
        /\ Charge("Ordinary", cost) /\ pipelines' = pipelines
    BY <2>1, <1>1 DEF ChargeOwned, Cost
  <2> HIDE DEF cost
  <2>3. \A j \in Kinds :
          /\ usage'[j].meta = usage[j].meta + (IF j = "Ordinary" THEN cost.meta ELSE 0)
          /\ usage'[j].bytes = usage[j].bytes + (IF j = "Ordinary" THEN cost.bytes ELSE 0)
    BY <2>2, <1>0, <1>t, ChargeForm
  <2>4. /\ usage'["Ordinary"].meta = usage["Ordinary"].meta + Accepted(n)
        /\ usage'["Ordinary"].bytes = usage["Ordinary"].bytes
        /\ usage'["Required"].meta = usage["Required"].meta
        /\ usage'["Required"].bytes = usage["Required"].bytes
    BY <2>2, <2>3, <1>t
  <2> QED
    BY <2>1, <2>2, <2>4, <1>t, <1>l, <1>g
<1>2. ASSUME DropOwned PROVE LimitsHeld'
  <2>1. [meta |-> 1, bytes |-> 0] \in Cost
    BY DEF Cost
  <2> QED
    BY <2>1, <1>2, <1>t, <1>l, <1>d DEF DropOwned
<1>3. ASSUME NEW h \in Handles, NEW k \in Kinds, NEW cost \in Costs, Reserve(h, k, cost)
      PROVE  LimitsHeld'
  <2>1. pipelines' <= PipelineLimit
    BY <1>3, <1>t, <1>l DEF Reserve
  <2> QED
    BY <2>1, <1>3, <1>c, ConstantFacts DEF Reserve
<1>4. ASSUME NEW h \in Handles, NEW cost \in Costs, Grow(h, cost) PROVE LimitsHeld'
  <2>1. kind[root[h]] \in Kinds
    BY <1>0, <1>4, Funded DEF Grow, Usable, LedgerTypeOK
  <2> QED
    BY <2>1, <1>4, <1>l, <1>c, ConstantFacts DEF Grow
<1>5. ASSUME NEW r \in Handles, ReleasePipeline(r) PROVE LimitsHeld'
  <2>1. kind[r] \in Kinds /\ total[r] \in Cost
    BY <1>0 DEF LedgerTypeOK
  <2>2. pipelines' <= PipelineLimit
    BY <1>5, <1>t, <1>l DEF ReleasePipeline
  <2> QED
    BY <2>1, <2>2, <1>5, <1>d DEF ReleasePipeline
<1>6. ASSUME NEW l \in Leases, DropLease(l) PROVE LimitsHeld'
  <2>1. root[bank[l]] \in Handles /\ bytes[l] \in Nat
    BY <1>0, <1>6, RootFacts DEF DropLease, Leased, LedgerTypeOK
  <2>2. kind[root[bank[l]]] \in Kinds /\ Bytes(bytes[l]) \in Cost
    BY <2>1, <1>0, CostFacts DEF LedgerTypeOK
  <2> QED
    BY <2>2, <1>6, <1>l, <1>u, <1>d DEF DropLease
<1>7. ASSUME NEW h \in Handles,
             \/ \E child \in Handles, cost \in Costs : Stage(h, child, cost)
             \/ FinishGrow(h) \/ RetireHandle(h) \/ Release(h)
             \/ \E l \in Leases, cost \in Costs : Retain(h, l, cost.bytes)
      PROVE  LimitsHeld'
  BY <1>7, <1>u DEF Stage, FinishGrow, RetireHandle, Release, Retain, ledgerVars
<1>8. ASSUME NEW l \in Leases, ReturnBytes(l) \/ ForgetPipeline(l) PROVE LimitsHeld'
  BY <1>8, <1>u DEF ReturnBytes, ForgetPipeline, ledgerVars
<1>9. ASSUME NEW x \in Handles \cup Leases, RefundStep(x) PROVE LimitsHeld'
  BY <1>9, <1>u DEF RefundStep, ledgerVars
<1>10. ASSUME Close PROVE LimitsHeld'
  BY <1>10, <1>u DEF Close
<1> QED
  BY <1>1, <1>2, <1>3, <1>4, <1>5, <1>6, <1>7, <1>8, <1>9, <1>10
     DEF LedgerNext, LedgerStep, HandleStep, LeaseStep

-----------------------------------------------------------------------------
(* The theorems *)

LEMMA IInvInit ==
  ASSUME ReservationAssumption, LedgerInit
  PROVE  LedgerInv
<1>1. LedgerTypeOK
  BY CostFacts DEF LedgerInit, LedgerTypeOK, Kinds
<1>2. Rooted /\ Leased
  BY DEF LedgerInit, Rooted, Leased, Alive, ReservationAssumption
<1>3. LimitsHeld
  <2>1. /\ Target.meta \in Nat /\ Target.bytes \in Nat
        /\ Allowance \in Nat /\ Ceiling \in Nat /\ PipelineLimit \in Nat
    BY ConstantFacts DEF ReservationAssumption
  <2>2. /\ usage["Ordinary"].meta = 0 /\ usage["Ordinary"].bytes = 0
        /\ usage["Required"].meta = 0 /\ usage["Required"].bytes = 0 /\ pipelines = 0
    BY DEF LedgerInit, Kinds, Zero
  <2> QED
    BY <2>1, <2>2 DEF LimitsHeld, Fits, AllBytes
<1>4. LedgerExact
  <2>1. ASSUME NEW k \in Kinds PROVE Balanced(k)
    <3>1. Charged(k) = {} /\ Growing(k) = {} /\ Detached(k) = {} /\ owned = 0
      BY DEF LedgerInit, Charged, Growing, Detached
    <3>2. /\ PipelineCharges(k) = Zero /\ GrowthCharges(k) = Zero /\ LeaseCharges(k) = Zero
          /\ OwnedCharges(k) = 0
      BY <3>1, CostSumEmpty DEF PipelineCharges, GrowthCharges, LeaseCharges, OwnedCharges
    <3>3. usage[k] = Zero
      BY DEF LedgerInit
    <3> QED
      BY <3>2, <3>3 DEF Balanced, Zero
  <2>2. Charged("Required") = {} /\ pipelines = 0
    BY DEF LedgerInit, Charged
  <2> QED
    BY <1>1, <2>1, <2>2, LedgerForm, FS_EmptySet
<1>5. CreditsConserved
  BY DEF LedgerInit, CreditsConserved
<1> QED
  BY <1>1, <1>2, <1>3, <1>4, <1>5 DEF LedgerInv, LedgerBounded

LEMMA BooksAreLedger == LedgerTypeOK /\ Books => LedgerExact
BY ReservationAssumption, LedgerForm DEF Books

LEMMA BooksMeanLedger == LedgerTypeOK' /\ Books' => LedgerExact'
BY BooksAreLedger, PTL

LEMMA IInvStep ==
  ASSUME ReservationAssumption, LedgerInv, [LedgerNext]_allVars
  PROVE  LedgerInv'
<1>1. CASE LedgerNext
  <2>1. LedgerTypeOK'
    BY <1>1, TypeOKSteps
  <2>2. Rooted' /\ Leased'
    BY <1>1, ShapeSteps DEF LedgerInv, LedgerBounded
  <2>3. Books'
    BY <1>1, <2>1, BooksSteps
  <2>4. LedgerExact'
    BY <2>1, <2>3, BooksMeanLedger
  <2>5. CreditsConserved'
    BY <1>1, <2>1, <2>2, CreditsSteps
  <2>6. LimitsHeld'
    BY <1>1, <2>1, LimitsSteps
  <2> QED
    BY <2>1, <2>2, <2>4, <2>5, <2>6 DEF LedgerInv, LedgerBounded
<1>2. CASE UNCHANGED allVars
  <2>1. UNCHANGED <<usage, pipelines, closed, owned, pipe, kind, total, handle, root, parent,
                    balance, growth, lease, bank, bytes, refund>>
    BY <1>2 DEF allVars
  <2>2. LedgerTypeOK' /\ LimitsHeld' /\ Rooted' /\ Leased'
    BY <2>1 DEF LedgerInv, LedgerBounded, LedgerTypeOK, LimitsHeld, Fits, AllBytes, Rooted, Leased, Alive
  <2>3. LedgerExact'
    BY <2>1 DEF LedgerInv, LedgerBounded, LedgerExact, Charged, Growing, Detached
  <2>4. CreditsConserved'
    BY <2>1 DEF LedgerInv, CreditsConserved, Credits, Branch, Returning, Alive
  <2> QED
    BY <2>2, <2>3, <2>4 DEF LedgerInv, LedgerBounded
<1> QED
  BY <1>1, <1>2

\* Every reachable state satisfies the inductive invariant.
THEOREM Invariance == LedgerSpec => []LedgerInv
<1>1. LedgerInit => LedgerInv
  BY ReservationAssumption, IInvInit
<1>2. LedgerInv /\ [LedgerNext]_allVars => LedgerInv'
  BY ReservationAssumption, IInvStep
<1> QED
  BY <1>1, <1>2, PTL DEF LedgerSpec

\* The ledger holds exactly what pipelines, growth under way, detached bytes and
\* plain records charge, and never passes a limit: "reservation release exceeds
\* charge" (reservation.rs:525) cannot fire, whatever the interleaving of drops.
THEOREM LedgerStaysExact == LedgerSpec => []LedgerBounded
<1>1. LedgerInv => LedgerBounded
  BY DEF LedgerInv
<1> QED
  BY <1>1, Invariance, PTL

\* No interleaving of stages, leases, retirements and refunds mints a credit, and
\* while a pipeline's first handle lives none is lost (reservation.rs:563).
THEOREM CreditsStayConserved == LedgerSpec => []CreditsConserved
<1>1. LedgerInv => CreditsConserved
  BY DEF LedgerInv
<1> QED
  BY <1>1, Invariance, PTL
=============================================================================
