---------------------------- MODULE TrainsProofs ----------------------------
(***************************************************************************)
(* For any number of trains, tracks and signals: the rail section never    *)
(* holds more trains than it has room for, no unit of the semaphore is     *)
(* lost, and the program implements TrackSection.                          *)
(***************************************************************************)
EXTENDS Trains, FiniteSetTheorems, TLAPS

\* Who holds a unit is in the section or about to learn whether it may enter.
\* Until the flag is set everybody about to enter holds one; afterwards an
\* interrupted train may get there without a unit, but then nobody enters.
Holding ==
  /\ SectionHolds
  /\ holders \subseteq {t \in Trains : pc[t] = "check"} \cup Section
  /\ thread_shutdown_flag = 0 => WaitGivesUnit

IInv == TypeOK /\ Holding /\ UnitsKept /\ SectionCapacity

LEMMA FiniteHolders ==
  ASSUME TypeOK
  PROVE  /\ IsFiniteSet(holders) /\ Cardinality(holders) \in Nat
         /\ IsFiniteSet(Section) /\ Cardinality(Section) \in Nat
  BY FS_Subset, FS_CardinalityType, TrainsAssumption DEF TypeOK, Section

\* TrackSection counts as this module does.
LEMMA SameCardinality == track!Cardinality(Section) = Cardinality(Section)
  BY DEF track!Cardinality, Cardinality, track!IsFiniteSet, IsFiniteSet

LEMMA InitIInv == Init => IInv
<1> SUFFICES ASSUME Init PROVE IInv
  OBVIOUS
<1>1. TypeOK
  <2>1. joined \in BOOLEAN
    BY DEF Init
  <2> QED
    BY <2>1, TrainsAssumption DEF Init, TypeOK, Labels
<1>2. Section = {}
  BY DEF Init, Section
<1> QED
  BY <1>1, <1>2, FS_EmptySet, TrainsAssumption
  DEF Init, IInv, Holding, SectionHolds, UnitsKept, SectionCapacity, WaitGivesUnit

\* A step that leaves the section, the units and the trains at "check" alone.
LEMMA QuietStep ==
  ASSUME IInv, TypeOK',
         UNCHANGED <<semaphore, holders>>,
         Section' = Section,
         \A u \in Trains : (pc'[u] = "check") = (pc[u] = "check"),
         thread_shutdown_flag' = 0 => thread_shutdown_flag = 0
  PROVE  IInv' /\ UNCHANGED Section
  BY DEF IInv, Holding, SectionHolds, UnitsKept, SectionCapacity, WaitGivesUnit

\* A train that is not in the section takes a unit and comes to "check".
LEMMA TakeStep ==
  ASSUME IInv, TypeOK', NEW t \in Trains,
         pc[t] \in {"try", "wait"}, pc' = [pc EXCEPT ![t] = "check"],
         semaphore > 0, semaphore' = semaphore - 1,
         holders' = holders \cup {t},
         UNCHANGED thread_shutdown_flag
  PROVE  IInv' /\ UNCHANGED Section
<1>1. t \notin holders
  BY DEF IInv, Holding, TypeOK, Section
<1>2. Cardinality(holders') = Cardinality(holders) + 1 /\ Cardinality(holders) \in Nat
  BY <1>1, FiniteHolders, FS_AddElement DEF IInv
<1>3. Section' = Section
  BY DEF IInv, TypeOK, Section
<1>4. UnitsKept'
  BY <1>2, TrainsAssumption DEF IInv, TypeOK, UnitsKept
<1>5. Holding'
  BY <1>3 DEF IInv, TypeOK, Holding, SectionHolds, WaitGivesUnit
<1> QED
  BY <1>3, <1>4, <1>5 DEF IInv, SectionCapacity

\* A train that was told to enter does so: it holds a unit, which the others in
\* the section do not, so there was room for it.
LEMMA EnterStep ==
  ASSUME IInv, TypeOK', NEW t \in Trains,
         pc[t] = "check", pc' = [pc EXCEPT ![t] = "read"],
         thread_shutdown_flag = 0,
         UNCHANGED <<semaphore, holders, thread_shutdown_flag>>
  PROVE  IInv' /\ track!Enter(t)
<1>1. t \in holders /\ t \notin Section
  BY DEF IInv, Holding, WaitGivesUnit, Section
<1>2. Section' = Section \cup {t}
  BY DEF IInv, TypeOK, Section
<1>3. Section' \subseteq holders
  BY <1>1, <1>2 DEF IInv, Holding, SectionHolds
<1>4. Cardinality(Section') <= Cardinality(holders) /\ Cardinality(Section') \in Nat
  BY <1>3, FiniteHolders, FS_Subset, FS_CardinalityType DEF IInv
<1>5. Cardinality(Section') = Cardinality(Section) + 1
  BY <1>1, <1>2, FiniteHolders, FS_AddElement DEF IInv
<1>6. Cardinality(holders) <= STRECKE_COUNT
  BY FiniteHolders, TrainsAssumption DEF IInv, TypeOK, UnitsKept
<1>7. Cardinality(Section) < STRECKE_COUNT
  BY <1>4, <1>5, <1>6, FiniteHolders, TrainsAssumption DEF IInv
<1>8. SectionCapacity'
  BY <1>4, <1>6, FiniteHolders, TrainsAssumption DEF IInv, SectionCapacity
<1>9. Holding'
  BY <1>1, <1>2, <1>3 DEF IInv, TypeOK, Holding, SectionHolds, WaitGivesUnit
<1>10. IInv'
  BY <1>8, <1>9 DEF IInv, UnitsKept
<1> QED
  BY <1>1, <1>2, <1>7, <1>10, SameCardinality DEF track!Enter

\* A train posts and is out of befahreStrecke.
LEMMA PostStep ==
  ASSUME IInv, TypeOK', NEW t \in Trains,
         pc' = [pc EXCEPT ![t] = "looped"],
         pc[t] = "leave" \/ (pc[t] = "check" /\ thread_shutdown_flag # 0),
         semaphore' = semaphore + 1,
         holders' = holders \ {t},
         UNCHANGED thread_shutdown_flag
  PROVE  IInv' /\ (track!Leave(t) \/ UNCHANGED Section)
<1>1. Section' = Section \ {t}
  BY DEF IInv, TypeOK, Section
<1>2. Cardinality(holders') = IF t \in holders THEN Cardinality(holders) - 1 ELSE Cardinality(holders)
  BY FiniteHolders, FS_RemoveElement DEF IInv
<1>3. thread_shutdown_flag = 0 => t \in holders
  BY DEF IInv, Holding, SectionHolds, Section
<1>4. UnitsKept'
  BY <1>2, <1>3, FiniteHolders, TrainsAssumption DEF IInv, TypeOK, UnitsKept
<1>5. Cardinality(Section') <= Cardinality(Section) /\ Cardinality(Section') \in Nat
  BY <1>1, FiniteHolders, FS_Subset, FS_CardinalityType DEF IInv
<1>6. SectionCapacity'
  BY <1>5, FiniteHolders, TrainsAssumption DEF IInv, SectionCapacity
<1>7. Holding'
  BY <1>1 DEF IInv, TypeOK, Holding, SectionHolds, WaitGivesUnit
<1> QED
  BY <1>1, <1>4, <1>6, <1>7 DEF IInv, track!Leave

-----------------------------------------------------------------------------
LEMMA TypeStep ==
  ASSUME TypeOK, [Next]_vars
  PROVE  TypeOK'
<1> USE TrainsAssumption DEF TypeOK, Labels, Step
<1>1. CASE UNCHANGED vars
  BY <1>1 DEF vars
<1>2. ASSUME NEW t \in Trains, Train(t) PROVE TypeOK'
  <2>1. CASE Loop(t)
    BY <2>1 DEF Loop
  <2>2. CASE Try(t)
    BY <2>2 DEF Try
  <2>3. CASE Wait(t)
    BY <2>3 DEF Wait
  <2>4. CASE Check(t)
    BY <2>4 DEF Check
  <2>5. CASE CountRead(t)
    BY <2>5 DEF CountRead
  <2>6. CASE CountWrite(t)
    BY <2>6 DEF CountWrite
  <2>7. CASE CountTest(t)
    BY <2>7 DEF CountTest
  <2>8. CASE Leave(t)
    BY <2>8 DEF Leave
  <2>9. CASE Looped(t)
    BY <2>9 DEF Looped
  <2> QED
    BY <1>2, <2>1, <2>2, <2>3, <2>4, <2>5, <2>6, <2>7, <2>8, <2>9 DEF Train
<1>3. CASE SignalMain
  BY <1>3 DEF SignalMain
<1>5. CASE MainEnd
  BY <1>5 DEF MainEnd
<1>4. ASSUME NEW t \in Trains, SignalTrain(t) PROVE TypeOK'
  BY <1>4 DEF SignalTrain
<1> QED
  BY <1>1, <1>2, <1>3, <1>4, <1>5 DEF Next

\* Each step of a train is one of the four kinds above.
LEMMA TrainStep ==
  ASSUME IInv, TypeOK', NEW t \in Trains, Train(t)
  PROVE  IInv' /\ [track!Next]_Section
<1> USE DEF Step
<1> TypeOK
  BY DEF IInv
<1>1. CASE Loop(t) \/ Looped(t) \/ CountRead(t) \/ CountWrite(t)
  BY <1>1, QuietStep DEF Loop, Looped, CountRead, CountWrite, TypeOK, Section
<1>2. CASE CountTest(t)
  BY <1>2, QuietStep DEF CountTest, TypeOK, Section
<1>3. CASE Try(t)
  <2>1. CASE semaphore > 0
    BY <1>3, <2>1, TakeStep DEF Try
  <2>2. CASE ~(semaphore > 0)
    BY <1>3, <2>2, QuietStep DEF Try, TypeOK, Section
  <2> QED
    BY <2>1, <2>2
<1>4. CASE Wait(t)
  BY <1>4, TakeStep DEF Wait
<1>5. CASE Check(t)
  <2>1. CASE thread_shutdown_flag = 0
    BY <1>5, <2>1, EnterStep DEF Check, track!Next
  <2>2. CASE thread_shutdown_flag # 0
    BY <1>5, <2>2, PostStep DEF Check, track!Next
  <2> QED
    BY <2>1, <2>2
<1>6. CASE Leave(t)
  <2>1. IInv' /\ (track!Leave(t) \/ UNCHANGED Section)
    BY <1>6, PostStep DEF Leave
  <2> QED
    BY <2>1 DEF track!Next
<1> QED
  BY <1>1, <1>2, <1>3, <1>4, <1>5, <1>6 DEF Train

\* A signal sets the flag; the train it takes out of sem_wait brings no unit.
LEMMA SignalStep ==
  ASSUME IInv, TypeOK', SignalMain \/ \E t \in Trains : SignalTrain(t)
  PROVE  IInv' /\ UNCHANGED Section
<1>1. TypeOK /\ thread_shutdown_flag' # 0 /\ UNCHANGED <<semaphore, holders>>
  BY DEF IInv, SignalMain, SignalTrain
<1>2. \A u \in Trains : pc'[u] = pc[u] \/ (pc[u] = "wait" /\ pc'[u] = "check")
  <2>1. CASE SignalMain
    BY <2>1 DEF SignalMain
  <2>2. ASSUME NEW t \in Trains, SignalTrain(t)
        PROVE  \A u \in Trains : pc'[u] = pc[u] \/ (pc[u] = "wait" /\ pc'[u] = "check")
    BY <1>1, <2>2 DEF SignalTrain, TypeOK
  <2> QED
    BY <2>1, <2>2
<1>3. Section' = Section
  BY <1>2 DEF Section
<1>4. Holding'
  BY <1>1, <1>2, <1>3 DEF IInv, Holding, SectionHolds
<1> QED
  BY <1>1, <1>3, <1>4 DEF IInv, UnitsKept, SectionCapacity

LEMMA NextStep ==
  ASSUME IInv, [Next]_vars
  PROVE  IInv' /\ [track!Next]_Section
<1>1. TypeOK'
  BY TypeStep DEF IInv
<1>2. CASE UNCHANGED vars \/ MainEnd
  BY <1>1, <1>2, QuietStep DEF vars, MainEnd, Section
<1>3. CASE \E t \in Trains : Train(t)
  BY <1>1, <1>3, TrainStep
<1>4. CASE SignalMain \/ \E t \in Trains : SignalTrain(t)
  BY <1>1, <1>4, SignalStep
<1> QED
  BY <1>2, <1>3, <1>4 DEF Next

LEMMA Invariance == Spec => []IInv
  BY InitIInv, NextStep, PTL DEF Spec

-----------------------------------------------------------------------------
\* Every variable of the trains' program stays in its type.
THEOREM TypeCorrect == Spec => []TypeOK
<1>1. IInv => TypeOK
  BY DEF IInv
<1> QED
  BY Invariance, <1>1, PTL

\* Never more trains in the section than it has room for, although an
\* interrupted sem_wait leads to a sem_post without a unit.
THEOREM RoomForAll == Spec => []SectionCapacity
<1>1. IInv => SectionCapacity
  BY DEF IInv
<1> QED
  BY Invariance, <1>1, PTL

\* No unit of the semaphore is lost, whichever way the trains leave.
THEOREM NoUnitLost == Spec => []UnitsKept
<1>1. IInv => UnitsKept
  BY DEF IInv
<1> QED
  BY Invariance, <1>1, PTL

\* befahreStrecke is the rail section of TrackSection: a train is admitted only
\* while there is room, and one train at a time comes or goes.
THEOREM ImplementsTrack == Spec => TrackSpec
<1>1. Init => track!Init
  BY DEF Init, Section, track!Init
<1> QED
  BY Invariance, NextStep, <1>1, PTL DEF Spec, TrackSpec, track!Spec

=============================================================================
