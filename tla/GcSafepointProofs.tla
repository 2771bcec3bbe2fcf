-------------------------- MODULE GcSafepointProofs --------------------------
(***************************************************************************)
(* Machine-checked facts about GcSafepoint, for any set of mutators and    *)
(* any set of blocks, with or without known stacks.  Nothing is assumed:   *)
(* what collect_stw does not allow for may happen, and the theorems say    *)
(* what holds until it does.                                               *)
(*                                                                         *)
(* The inductive invariant is IInv of GcSafepoint.  Its control half says  *)
(* where everybody can be during a collection, its data half what the      *)
(* frames, tags and marks have to do with each other; the data half of a   *)
(* step needs the control half, never the other way round.                 *)
(***************************************************************************)
EXTENDS GcSafepoint, TLAPS

(***************************************************************************)
(* Types.                                                                  *)
(***************************************************************************)

LEMMA TypeInvInit == Init => TypeInv
<1> SUFFICES ASSUME Init
             PROVE  TypeInv
  OBVIOUS
<1>1. pc \in [Mutators -> Points]
  BY DEF Init, Points
<1>2. RawIsBlock
  BY DEF Init, RawIsBlock
<1> QED
  BY <1>1, <1>2 DEF Init, TypeInv, TypeOK

LEMMA TypeInvNext == TypeInv /\ [Next]_vars => TypeInv'
<1> SUFFICES ASSUME TypeInv, [Next]_vars
             PROVE  TypeInv'
  OBVIOUS
<1> USE DEF TypeInv, TypeOK, RawIsBlock, Points, RunPoints, ParkPoints,
            CollectPoints, CyclePoints, FinishPoints, AbortPoints,
            Goto, NotifyAll, control, memory, data, Disturb, Disturbances
<1>1. ASSUME NEW t \in Mutators, Register(t)
      PROVE  TypeInv'
  BY <1>1 DEF Register
<1>2. ASSUME NEW t \in Mutators, Unregister(t)
      PROVE  TypeInv'
  BY <1>2 DEF Unregister
<1>3. ASSUME NEW t \in Mutators, ThreadExit(t)
      PROVE  TypeInv'
  BY <1>3 DEF ThreadExit
<1>33. ASSUME NEW t \in Mutators, ExitRemove(t)
      PROVE  TypeInv'
  BY <1>33 DEF ExitRemove
<1>4. ASSUME NEW t \in Mutators, ExitNotify(t)
      PROVE  TypeInv'
  BY <1>4 DEF ExitNotify
<1>5. ASSUME NEW t \in Mutators, NEW b \in Blocks, Load(t, b)
      PROVE  TypeInv'
  BY <1>5 DEF Load
<1>6. ASSUME NEW t \in Mutators, NEW b \in Blocks, Store(t, b)
      PROVE  TypeInv'
  BY <1>6 DEF Store
<1>7. ASSUME NEW t \in Mutators, NEW b \in Blocks, Clear(t, b)
      PROVE  TypeInv'
  BY <1>7 DEF Clear
<1>8. ASSUME NEW t \in Mutators, NEW b \in Blocks, Drop(t, b)
      PROVE  TypeInv'
  BY <1>8 DEF Drop
<1>9. ASSUME NEW t \in Mutators, NewRec(t)
      PROVE  TypeInv'
  BY <1>9 DEF NewRec
<1>10. ASSUME NEW t \in Mutators, NEW b \in Blocks, Alloc(t, b)
      PROVE  TypeInv'
  BY <1>10 DEF Alloc
<1>11. ASSUME NEW t \in Mutators, AllocBeyondBound(t)
      PROVE  TypeInv'
  BY <1>11 DEF AllocBeyondBound
<1>12. ASSUME NEW t \in Mutators, WriteTag(t)
      PROVE  TypeInv'
  BY <1>12 DEF WriteTag
<1>13. ASSUME NEW t \in Mutators, SafepointPoll(t)
      PROVE  TypeInv'
  BY <1>13 DEF SafepointPoll
<1>14. ASSUME NEW t \in Mutators, ParkSelf(t)
      PROVE  TypeInv'
  BY <1>14 DEF ParkSelf
<1>15. ASSUME NEW t \in Mutators, LockAndTest(t)
      PROVE  TypeInv'
  BY <1>15 DEF LockAndTest
<1>16. ASSUME NEW t \in Mutators, CondWait(t)
      PROVE  TypeInv'
  BY <1>16 DEF CondWait
<1>17. ASSUME NEW t \in Mutators, Leave(t)
      PROVE  TypeInv'
  BY <1>17 DEF Leave
<1>18. ASSUME NEW t \in Mutators, BeginCollect(t)
      PROVE  TypeInv'
  BY <1>18 DEF BeginCollect, EnterUnsuited
<1>19. ASSUME NEW t \in Mutators, ParkInitiator(t)
      PROVE  TypeInv'
  BY <1>19 DEF ParkInitiator
<1>20. ASSUME NEW t \in Mutators, Request(t)
      PROVE  TypeInv'
  BY <1>20 DEF Request
<1>21. ASSUME NEW t \in Mutators, AllParked(t)
      PROVE  TypeInv'
  BY <1>21 DEF AllParked
<1>22. ASSUME NEW t \in Mutators, EnterCycle(t)
      PROVE  TypeInv'
  BY <1>22 DEF EnterCycle
<1>23. ASSUME NEW t \in Mutators, MarkStacks(t)
      PROVE  TypeInv'
  BY <1>23 DEF MarkStacks
<1>24. ASSUME NEW t \in Mutators, MarkRoots(t)
      PROVE  TypeInv'
  BY <1>24 DEF MarkRoots
<1>25. ASSUME NEW t \in Mutators, Sweep(t)
      PROVE  TypeInv'
  BY <1>25 DEF Sweep
<1>26. ASSUME NEW t \in Mutators, ReleaseFlag(t)
      PROVE  TypeInv'
  BY <1>26 DEF ReleaseFlag
<1>27. ASSUME NEW t \in Mutators, ResumeInitiator(t)
      PROVE  TypeInv'
  BY <1>27 DEF ResumeInitiator
<1>28. ASSUME NEW t \in Mutators, NotifyLocked(t)
      PROVE  TypeInv'
  BY <1>28 DEF NotifyLocked
<1>29. ASSUME NEW t \in Mutators, ParkTimeout(t)
      PROVE  TypeInv'
  BY <1>29 DEF ParkTimeout
<1>30. ASSUME NEW t \in Mutators, AbortClear(t)
      PROVE  TypeInv'
  BY <1>30 DEF AbortClear
<1>31. ASSUME NEW t \in Mutators, AbortNotify(t)
      PROVE  TypeInv'
  BY <1>31 DEF AbortNotify
<1>32. CASE UNCHANGED vars
  BY <1>32 DEF vars
<1> QED
  BY <1>1, <1>2, <1>3, <1>4, <1>5, <1>6, <1>7, <1>8, <1>9, <1>10, <1>11,
     <1>12, <1>13, <1>14, <1>15, <1>16, <1>17, <1>18, <1>19, <1>20, <1>21,
     <1>22, <1>23, <1>24, <1>25, <1>26, <1>27, <1>28, <1>29, <1>30, <1>31,
     <1>32, <1>33
  DEF Next, Membership, Mutate, Allocate, Park, Collect, Abort

(* Every variable keeps its type, whatever the surroundings.               *)
THEOREM TypeCorrect == Spec => []TypeOK
<1>1. TypeInv => TypeOK
  BY DEF TypeInv
<1> QED
  BY TypeInvInit, TypeInvNext, <1>1, PTL DEF Spec

(***************************************************************************)
(* The inductive invariant.                                                *)
(***************************************************************************)

LEMMA IInvInit == Init => IInv
<1> SUFFICES ASSUME Init
             PROVE  IInv
  OBVIOUS
<1>1. ControlInv
  BY SMTT(30)
     DEF Init, ControlInv, SoleCollector, StateMatchesPc, FlagMatchesPc,
         NoStalePark, RegistryMatchesPc, Stopped, Collecting, CollectPoints,
         CyclePoints, FinishPoints, AbortPoints, RequestPoints, LeftPoints
<1>2. DataInv
  BY DEF Init, DataInv, ParkedIsVisible, TagsMatch, MarksCover,
         HeldBlocksAllocated, StillPoints, CyclePoints
<1> QED
  BY <1>1, <1>2, TypeInvInit DEF IInv, DataInv

(* What has happened stays on the record.                                  *)
LEMMA DisturbedGrows ==
  ASSUME [Next]_vars
  PROVE  disturbed \subseteq disturbed'
<1> USE DEF memory, control
<1>1. ASSUME NEW t \in Mutators, Membership(t)
      PROVE  disturbed \subseteq disturbed'
  BY <1>1 DEF Membership, Register, Unregister, ThreadExit, ExitRemove,
              ExitNotify, Disturb
<1>2. ASSUME NEW t \in Mutators, Mutate(t) \/ Allocate(t)
      PROVE  disturbed \subseteq disturbed'
  BY <1>2 DEF Mutate, Load, Store, Clear, Drop,
              Allocate, NewRec, Alloc, AllocBeyondBound, WriteTag
<1>3. ASSUME NEW t \in Mutators, Park(t)
      PROVE  disturbed \subseteq disturbed'
  BY <1>3 DEF Park, SafepointPoll, ParkSelf, LockAndTest, CondWait, Leave
<1>4. ASSUME NEW t \in Mutators, BeginCollect(t)
      PROVE  disturbed \subseteq disturbed'
  BY <1>4 DEF BeginCollect, EnterUnsuited
<1>5. ASSUME NEW t \in Mutators, Collect(t)
      PROVE  disturbed \subseteq disturbed'
  BY <1>5 DEF Collect, ParkInitiator, Request, AllParked, EnterCycle,
              MarkStacks, MarkRoots, Sweep, ReleaseFlag, ResumeInitiator,
              NotifyLocked, Disturb
<1>6. ASSUME NEW t \in Mutators, Abort(t)
      PROVE  disturbed \subseteq disturbed'
  BY <1>6 DEF Abort, ParkTimeout, AbortClear, AbortNotify
<1>7. CASE UNCHANGED vars
  BY <1>7 DEF vars
<1> QED
  BY <1>1, <1>2, <1>3, <1>4, <1>5, <1>6, <1>7 DEF Next

(* A thread that registers in an orderly run finds no collection running,  *)
LEMMA QuietRegister ==
  ASSUME NEW t \in Mutators, Register(t), Orderly'
  PROVE  \A u \in Mutators : ~Collecting(u)
  BY DEF Register, Disturb, Orderly

(* and one that begins a collection finds nobody collecting or parking.    *)
LEMMA QuietBegin ==
  ASSUME NEW t \in Mutators, BeginCollect(t), Orderly'
  PROVE  \A u \in Mutators : ~Collecting(u) /\ pc[u] \notin ParkPoints
<1>1. \A u \in Mutators : ~Collecting(u)
  <2> SUFFICES ASSUME \E u \in Mutators : Collecting(u)
               PROVE  FALSE
    OBVIOUS
  <2>1. "overlap" \in disturbed'
    BY DEF BeginCollect, EnterUnsuited
  <2> QED
    BY <2>1 DEF Orderly
<1>2. \A u \in Mutators : pc[u] \notin ParkPoints
  <2> SUFFICES ASSUME \E u \in Mutators : pc[u] \in ParkPoints
               PROVE  FALSE
    OBVIOUS
  <2>1. "unsettled" \in disturbed'
    BY DEF BeginCollect, EnterUnsuited
  <2> QED
    BY <2>1 DEF Orderly
<1> QED
  BY <1>1, <1>2

LEMMA ControlNext ==
  TypeInv /\ ControlInv /\ [Next]_vars /\ Orderly' => ControlInv'
<1> SUFFICES ASSUME TypeInv, ControlInv, [Next]_vars, Orderly'
             PROVE  ControlInv'
  OBVIOUS
<1> USE DEF TypeInv, TypeOK, ControlInv, SoleCollector, StateMatchesPc,
            FlagMatchesPc, NoStalePark, RegistryMatchesPc, Stopped,
            Collecting, CollectPoints, CyclePoints, FinishPoints, AbortPoints,
            RequestPoints, StillPoints, LeftPoints, ParkPoints,
            Goto, NotifyAll, control, memory, data
<1>1. ASSUME NEW t \in Mutators, Register(t)
      PROVE  ControlInv'
  <2>1. \A u \in Mutators : ~Collecting(u)
    BY <1>1, QuietRegister
  <2> QED
    BY <1>1, <2>1 DEF Register
<1>2. ASSUME NEW t \in Mutators, Unregister(t)
      PROVE  ControlInv'
  BY <1>2 DEF Unregister
<1>3. ASSUME NEW t \in Mutators, ThreadExit(t)
      PROVE  ControlInv'
  BY <1>3 DEF ThreadExit
<1>33. ASSUME NEW t \in Mutators, ExitRemove(t)
      PROVE  ControlInv'
  BY <1>33 DEF ExitRemove
<1>4. ASSUME NEW t \in Mutators, ExitNotify(t)
      PROVE  ControlInv'
  BY <1>4 DEF ExitNotify
<1>5. ASSUME NEW t \in Mutators, NEW b \in Blocks, Load(t, b)
      PROVE  ControlInv'
  BY <1>5 DEF Load
<1>6. ASSUME NEW t \in Mutators, NEW b \in Blocks, Store(t, b)
      PROVE  ControlInv'
  BY <1>6 DEF Store
<1>7. ASSUME NEW t \in Mutators, NEW b \in Blocks, Clear(t, b)
      PROVE  ControlInv'
  BY <1>7 DEF Clear
<1>8. ASSUME NEW t \in Mutators, NEW b \in Blocks, Drop(t, b)
      PROVE  ControlInv'
  BY <1>8 DEF Drop
<1>9. ASSUME NEW t \in Mutators, NewRec(t)
      PROVE  ControlInv'
  BY <1>9 DEF NewRec
<1>10. ASSUME NEW t \in Mutators, NEW b \in Blocks, Alloc(t, b)
      PROVE  ControlInv'
  BY <1>10 DEF Alloc
<1>11. ASSUME NEW t \in Mutators, AllocBeyondBound(t)
      PROVE  ControlInv'
  BY <1>11 DEF AllocBeyondBound
<1>12. ASSUME NEW t \in Mutators, WriteTag(t)
      PROVE  ControlInv'
  BY <1>12 DEF WriteTag
<1>13. ASSUME NEW t \in Mutators, SafepointPoll(t)
      PROVE  ControlInv'
  BY <1>13 DEF SafepointPoll
<1>14. ASSUME NEW t \in Mutators, ParkSelf(t)
      PROVE  ControlInv'
  BY <1>14 DEF ParkSelf
<1>15. ASSUME NEW t \in Mutators, LockAndTest(t)
      PROVE  ControlInv'
  BY <1>15 DEF LockAndTest
<1>16. ASSUME NEW t \in Mutators, CondWait(t)
      PROVE  ControlInv'
  BY <1>16 DEF CondWait
<1>17. ASSUME NEW t \in Mutators, Leave(t)
      PROVE  ControlInv'
  BY <1>17 DEF Leave
<1>18. ASSUME NEW t \in Mutators, BeginCollect(t)
      PROVE  ControlInv'
  <2>1. \A u \in Mutators : ~Collecting(u) /\ pc[u] \notin ParkPoints
    BY <1>18, QuietBegin
  <2> QED
    BY <1>18, <2>1 DEF BeginCollect
<1>19. ASSUME NEW t \in Mutators, ParkInitiator(t)
      PROVE  ControlInv'
  BY <1>19 DEF ParkInitiator
<1>20. ASSUME NEW t \in Mutators, Request(t)
      PROVE  ControlInv'
  BY <1>20 DEF Request
<1>21. ASSUME NEW t \in Mutators, AllParked(t)
      PROVE  ControlInv'
  BY <1>21 DEF AllParked, OthersParked
<1>22. ASSUME NEW t \in Mutators, EnterCycle(t)
      PROVE  ControlInv'
  BY <1>22 DEF EnterCycle
<1>23. ASSUME NEW t \in Mutators, MarkStacks(t)
      PROVE  ControlInv'
  BY <1>23 DEF MarkStacks
<1>24. ASSUME NEW t \in Mutators, MarkRoots(t)
      PROVE  ControlInv'
  BY <1>24 DEF MarkRoots
<1>25. ASSUME NEW t \in Mutators, Sweep(t)
      PROVE  ControlInv'
  BY <1>25 DEF Sweep
<1>26. ASSUME NEW t \in Mutators, ReleaseFlag(t)
      PROVE  ControlInv'
  BY <1>26 DEF ReleaseFlag
<1>27. ASSUME NEW t \in Mutators, ResumeInitiator(t)
      PROVE  ControlInv'
  BY <1>27 DEF ResumeInitiator
<1>28. ASSUME NEW t \in Mutators, NotifyLocked(t)
      PROVE  ControlInv'
  BY <1>28 DEF NotifyLocked
<1>29. ASSUME NEW t \in Mutators, ParkTimeout(t)
      PROVE  ControlInv'
  BY <1>29 DEF ParkTimeout
<1>30. ASSUME NEW t \in Mutators, AbortClear(t)
      PROVE  ControlInv'
  BY <1>30 DEF AbortClear
<1>31. ASSUME NEW t \in Mutators, AbortNotify(t)
      PROVE  ControlInv'
  BY <1>31 DEF AbortNotify
<1>32. CASE UNCHANGED vars
  BY <1>32 DEF vars
<1> QED
  BY <1>1, <1>2, <1>3, <1>4, <1>5, <1>6, <1>7, <1>8, <1>9, <1>10, <1>11,
     <1>12, <1>13, <1>14, <1>15, <1>16, <1>17, <1>18, <1>19, <1>20, <1>21,
     <1>22, <1>23, <1>24, <1>25, <1>26, <1>27, <1>28, <1>29, <1>30, <1>31,
     <1>32, <1>33
  DEF Next, Membership, Mutate, Allocate, Park, Collect, Abort

LEMMA VisibleNext ==
  TypeInv /\ ParkedIsVisible /\ [Next]_vars => ParkedIsVisible'
<1> SUFFICES ASSUME TypeInv, ParkedIsVisible, [Next]_vars
             PROVE  ParkedIsVisible'
  OBVIOUS
<1> USE DEF TypeInv, TypeOK, ParkedIsVisible, StillPoints, CyclePoints,
            Goto, NotifyAll, control, memory, data
<1>1. ASSUME NEW t \in Mutators, Register(t)
      PROVE  ParkedIsVisible'
  BY <1>1 DEF Register
<1>2. ASSUME NEW t \in Mutators, Unregister(t)
      PROVE  ParkedIsVisible'
  BY <1>2 DEF Unregister
<1>3. ASSUME NEW t \in Mutators, ThreadExit(t)
      PROVE  ParkedIsVisible'
  BY <1>3 DEF ThreadExit
<1>33. ASSUME NEW t \in Mutators, ExitRemove(t)
      PROVE  ParkedIsVisible'
  BY <1>33 DEF ExitRemove
<1>4. ASSUME NEW t \in Mutators, ExitNotify(t)
      PROVE  ParkedIsVisible'
  BY <1>4 DEF ExitNotify
<1>5. ASSUME NEW t \in Mutators, NEW b \in Blocks, Load(t, b)
      PROVE  ParkedIsVisible'
  BY <1>5 DEF Load
<1>6. ASSUME NEW t \in Mutators, NEW b \in Blocks, Store(t, b)
      PROVE  ParkedIsVisible'
  BY <1>6 DEF Store
<1>7. ASSUME NEW t \in Mutators, NEW b \in Blocks, Clear(t, b)
      PROVE  ParkedIsVisible'
  BY <1>7 DEF Clear
<1>8. ASSUME NEW t \in Mutators, NEW b \in Blocks, Drop(t, b)
      PROVE  ParkedIsVisible'
  BY <1>8 DEF Drop
<1>9. ASSUME NEW t \in Mutators, NewRec(t)
      PROVE  ParkedIsVisible'
  BY <1>9 DEF NewRec
<1>10. ASSUME NEW t \in Mutators, NEW b \in Blocks, Alloc(t, b)
      PROVE  ParkedIsVisible'
  BY <1>10 DEF Alloc
<1>11. ASSUME NEW t \in Mutators, AllocBeyondBound(t)
      PROVE  ParkedIsVisible'
  BY <1>11 DEF AllocBeyondBound
<1>12. ASSUME NEW t \in Mutators, WriteTag(t)
      PROVE  ParkedIsVisible'
  BY <1>12 DEF WriteTag
<1>13. ASSUME NEW t \in Mutators, SafepointPoll(t)
      PROVE  ParkedIsVisible'
  BY <1>13 DEF SafepointPoll
<1>14. ASSUME NEW t \in Mutators, ParkSelf(t)
      PROVE  ParkedIsVisible'
  BY <1>14 DEF ParkSelf
<1>15. ASSUME NEW t \in Mutators, LockAndTest(t)
      PROVE  ParkedIsVisible'
  BY <1>15 DEF LockAndTest
<1>16. ASSUME NEW t \in Mutators, CondWait(t)
      PROVE  ParkedIsVisible'
  BY <1>16 DEF CondWait
<1>17. ASSUME NEW t \in Mutators, Leave(t)
      PROVE  ParkedIsVisible'
  BY <1>17 DEF Leave
<1>18. ASSUME NEW t \in Mutators, BeginCollect(t)
      PROVE  ParkedIsVisible'
  BY <1>18 DEF BeginCollect
<1>19. ASSUME NEW t \in Mutators, ParkInitiator(t)
      PROVE  ParkedIsVisible'
  BY <1>19 DEF ParkInitiator
<1>20. ASSUME NEW t \in Mutators, Request(t)
      PROVE  ParkedIsVisible'
  BY <1>20 DEF Request
<1>21. ASSUME NEW t \in Mutators, AllParked(t)
      PROVE  ParkedIsVisible'
  BY <1>21 DEF AllParked, OthersParked
<1>22. ASSUME NEW t \in Mutators, EnterCycle(t)
      PROVE  ParkedIsVisible'
  BY <1>22 DEF EnterCycle
<1>23. ASSUME NEW t \in Mutators, MarkStacks(t)
      PROVE  ParkedIsVisible'
  BY <1>23 DEF MarkStacks
<1>24. ASSUME NEW t \in Mutators, MarkRoots(t)
      PROVE  ParkedIsVisible'
  BY <1>24 DEF MarkRoots
<1>25. ASSUME NEW t \in Mutators, Sweep(t)
      PROVE  ParkedIsVisible'
  BY <1>25 DEF Sweep
<1>26. ASSUME NEW t \in Mutators, ReleaseFlag(t)
      PROVE  ParkedIsVisible'
  BY <1>26 DEF ReleaseFlag
<1>27. ASSUME NEW t \in Mutators, ResumeInitiator(t)
      PROVE  ParkedIsVisible'
  BY <1>27 DEF ResumeInitiator
<1>28. ASSUME NEW t \in Mutators, NotifyLocked(t)
      PROVE  ParkedIsVisible'
  BY <1>28 DEF NotifyLocked
<1>29. ASSUME NEW t \in Mutators, ParkTimeout(t)
      PROVE  ParkedIsVisible'
  BY <1>29 DEF ParkTimeout
<1>30. ASSUME NEW t \in Mutators, AbortClear(t)
      PROVE  ParkedIsVisible'
  BY <1>30 DEF AbortClear
<1>31. ASSUME NEW t \in Mutators, AbortNotify(t)
      PROVE  ParkedIsVisible'
  BY <1>31 DEF AbortNotify
<1>32. CASE UNCHANGED vars
  BY <1>32 DEF vars
<1> QED
  BY <1>1, <1>2, <1>3, <1>4, <1>5, <1>6, <1>7, <1>8, <1>9, <1>10, <1>11,
     <1>12, <1>13, <1>14, <1>15, <1>16, <1>17, <1>18, <1>19, <1>20, <1>21,
     <1>22, <1>23, <1>24, <1>25, <1>26, <1>27, <1>28, <1>29, <1>30, <1>31,
     <1>32, <1>33
  DEF Next, Membership, Mutate, Allocate, Park, Collect, Abort

LEMMA DataNext ==
  TypeInv /\ ControlInv /\ DataInv /\ [Next]_vars /\ disturbed' = {}
    => DataInv'
<1> SUFFICES ASSUME TypeInv, ControlInv, DataInv, [Next]_vars, disturbed' = {}
             PROVE  DataInv'
  OBVIOUS
<1> USE DEF TypeInv, TypeOK, RawIsBlock, DataInv, ParkedIsVisible, TagsMatch,
            MarksCover, HeldBlocksAllocated,
            ControlInv, SoleCollector, NoStalePark, RegistryMatchesPc, Stopped,
            Collecting, CollectPoints, CyclePoints, FinishPoints, AbortPoints,
            StillPoints, LeftPoints, ParkPoints,
            Goto, NotifyAll, control, memory, data
<1>1. ASSUME NEW t \in Mutators, Register(t)
      PROVE  DataInv'
  BY <1>1 DEF Register
<1>2. ASSUME NEW t \in Mutators, Unregister(t)
      PROVE  DataInv'
  BY <1>2 DEF Unregister
<1>3. ASSUME NEW t \in Mutators, ThreadExit(t)
      PROVE  DataInv'
  BY <1>3 DEF ThreadExit
<1>33. ASSUME NEW t \in Mutators, ExitRemove(t)
      PROVE  DataInv'
  BY <1>33 DEF ExitRemove
<1>4. ASSUME NEW t \in Mutators, ExitNotify(t)
      PROVE  DataInv'
  BY <1>4 DEF ExitNotify
<1>5. ASSUME NEW t \in Mutators, NEW b \in Blocks, Load(t, b)
      PROVE  DataInv'
  BY <1>5 DEF Load
<1>6. ASSUME NEW t \in Mutators, NEW b \in Blocks, Store(t, b)
      PROVE  DataInv'
  BY <1>6 DEF Store
<1>7. ASSUME NEW t \in Mutators, NEW b \in Blocks, Clear(t, b)
      PROVE  DataInv'
  BY <1>7 DEF Clear
<1>8. ASSUME NEW t \in Mutators, NEW b \in Blocks, Drop(t, b)
      PROVE  DataInv'
  BY <1>8 DEF Drop
<1>9. ASSUME NEW t \in Mutators, NewRec(t)
      PROVE  DataInv'
  BY <1>9 DEF NewRec
<1>10. ASSUME NEW t \in Mutators, NEW b \in Blocks, Alloc(t, b)
      PROVE  DataInv'
  BY <1>10 DEF Alloc
<1>11. ASSUME NEW t \in Mutators, AllocBeyondBound(t)
      PROVE  DataInv'
  BY <1>11 DEF AllocBeyondBound
<1>12. ASSUME NEW t \in Mutators, WriteTag(t)
      PROVE  DataInv'
  BY <1>12 DEF WriteTag
<1>13. ASSUME NEW t \in Mutators, SafepointPoll(t)
      PROVE  DataInv'
  BY <1>13 DEF SafepointPoll
<1>14. ASSUME NEW t \in Mutators, ParkSelf(t)
      PROVE  DataInv'
  BY <1>14 DEF ParkSelf
<1>15. ASSUME NEW t \in Mutators, LockAndTest(t)
      PROVE  DataInv'
  BY <1>15 DEF LockAndTest
<1>16. ASSUME NEW t \in Mutators, CondWait(t)
      PROVE  DataInv'
  BY <1>16 DEF CondWait
<1>17. ASSUME NEW t \in Mutators, Leave(t)
      PROVE  DataInv'
  BY <1>17 DEF Leave
<1>18. ASSUME NEW t \in Mutators, BeginCollect(t)
      PROVE  DataInv'
  BY <1>18 DEF BeginCollect
<1>19. ASSUME NEW t \in Mutators, ParkInitiator(t)
      PROVE  DataInv'
  BY <1>19 DEF ParkInitiator
<1>20. ASSUME NEW t \in Mutators, Request(t)
      PROVE  DataInv'
  BY <1>20 DEF Request
<1>21. ASSUME NEW t \in Mutators, AllParked(t)
      PROVE  DataInv'
  BY <1>21 DEF AllParked, OthersParked
<1>22. ASSUME NEW t \in Mutators, EnterCycle(t)
      PROVE  DataInv'
  BY <1>22 DEF EnterCycle
<1>23. ASSUME NEW t \in Mutators, MarkStacks(t)
      PROVE  DataInv'
  <2>1. \A u \in registry \ ScannedStacks : held[u] = {}
    BY <1>23 DEF MarkStacks, Disturb
  <2> QED
    BY <1>23, <2>1 DEF MarkStacks
<1>24. ASSUME NEW t \in Mutators, MarkRoots(t)
      PROVE  DataInv'
  BY <1>24 DEF MarkRoots
<1>25. ASSUME NEW t \in Mutators, Sweep(t)
      PROVE  DataInv'
  BY <1>25 DEF Sweep
<1>26. ASSUME NEW t \in Mutators, ReleaseFlag(t)
      PROVE  DataInv'
  BY <1>26 DEF ReleaseFlag
<1>27. ASSUME NEW t \in Mutators, ResumeInitiator(t)
      PROVE  DataInv'
  BY <1>27 DEF ResumeInitiator
<1>28. ASSUME NEW t \in Mutators, NotifyLocked(t)
      PROVE  DataInv'
  BY <1>28 DEF NotifyLocked
<1>29. ASSUME NEW t \in Mutators, ParkTimeout(t)
      PROVE  DataInv'
  BY <1>29 DEF ParkTimeout
<1>30. ASSUME NEW t \in Mutators, AbortClear(t)
      PROVE  DataInv'
  BY <1>30 DEF AbortClear
<1>31. ASSUME NEW t \in Mutators, AbortNotify(t)
      PROVE  DataInv'
  BY <1>31 DEF AbortNotify
<1>32. CASE UNCHANGED vars
  BY <1>32 DEF vars
<1> QED
  BY <1>1, <1>2, <1>3, <1>4, <1>5, <1>6, <1>7, <1>8, <1>9, <1>10, <1>11,
     <1>12, <1>13, <1>14, <1>15, <1>16, <1>17, <1>18, <1>19, <1>20, <1>21,
     <1>22, <1>23, <1>24, <1>25, <1>26, <1>27, <1>28, <1>29, <1>30, <1>31,
     <1>32, <1>33
  DEF Next, Membership, Mutate, Allocate, Park, Collect, Abort

(* The strengthened invariant holds in every reachable state.              *)
THEOREM IInvCorrect == Spec => []IInv
<1>1. ASSUME IInv, [Next]_vars
      PROVE  IInv'
  <2>1. TypeInv'
    BY <1>1, TypeInvNext DEF IInv
  <2>2. ASSUME Orderly'
        PROVE  ControlInv' /\ ParkedIsVisible'
    <3>1. Orderly
      BY <1>1, <2>2, DisturbedGrows DEF Orderly
    <3> QED
      BY <1>1, <2>2, <3>1, ControlNext, VisibleNext DEF IInv
  <2>3. ASSUME disturbed' = {}
        PROVE  DataInv'
    <3>1. disturbed = {} /\ Orderly
      BY <1>1, <2>3, DisturbedGrows DEF Orderly
    <3> QED
      BY <1>1, <2>3, <3>1, DataNext DEF IInv
  <2> QED
    BY <2>1, <2>2, <2>3 DEF IInv
<1>2. IInv /\ [Next]_vars => IInv'
  BY <1>1
<1> QED
  BY IInvInit, <1>2, PTL DEF Spec

(***************************************************************************)
(* What follows from it.                                                   *)
(***************************************************************************)

(* No sweep reclaims a block that a frame or a module root refers to.      *)
THEOREM NoLiveBlockSwept == Spec => []HeldBlocksSurvive
<1>1. IInv => HeldBlocksSurvive
  BY DEF IInv, DataInv, HeldBlocksSurvive
<1> QED
  BY IInvCorrect, <1>1, PTL

(* While a cycle runs, every other registered mutator stands still.        *)
THEOREM WorldIsStopped == Spec => []WorldStopped
<1>1. IInv => WorldStopped
  BY DEF IInv, ControlInv, Stopped, RegistryMatchesPc, WorldStopped,
         StillPoints, LeftPoints
<1> QED
  BY IInvCorrect, <1>1, PTL

(* The scan reads the frames as they are.                                  *)
THEOREM ScannedFramesAreCurrent == Spec => []ScanIsCurrent
<1>1. ASSUME IInv, Orderly, NEW t \in Mutators, NEW u \in Mutators,
             pc[t] \in CyclePoints, u \in registry
      PROVE  visible[u] = held[u] \/ pc[u] = "exiting"
  <2>1. ControlInv /\ ParkedIsVisible
    BY <1>1 DEF IInv
  <2>2. CASE u = t
    BY <1>1, <2>1, <2>2 DEF ParkedIsVisible
  <2>3. CASE u # t
    <3>1. pc[u] \in StillPoints \cup {"exiting"}
      BY <1>1, <2>1, <2>3 DEF ControlInv, Stopped, RegistryMatchesPc
    <3> QED
      BY <2>1, <3>1 DEF ParkedIsVisible
  <2> QED
    BY <2>2, <2>3
<1>2. IInv => ScanIsCurrent
  BY <1>1 DEF ScanIsCurrent
<1> QED
  BY IInvCorrect, <1>2, PTL

(* The request is up for as long as the cycle runs.                        *)
THEOREM FlagIsUpInCycle == Spec => []FlagOutlivesCycle
<1>1. IInv => FlagOutlivesCycle
  BY DEF IInv, ControlInv, FlagMatchesPc, FlagOutlivesCycle, RequestPoints
<1> QED
  BY IInvCorrect, <1>1, PTL

(***************************************************************************)
(* The handshake implements AbstractHeap.                                  *)
(***************************************************************************)

LEMMA ContractInit == Init => Contract!AbsInit
  BY DEF Init, Contract!AbsInit

(* The sweep is the one step that reclaims, and by then the marks cover    *)
(* everything reachable.                                                   *)
LEMMA SweepIsCollect ==
  ASSUME IInv, NEW t \in Mutators, Sweep(t), disturbed' = {}
  PROVE  Contract!AbsCollect
<1>1. disturbed = {}
  BY DEF Sweep
<1>2. Contract!Reachable \subseteq marked
  BY <1>1 DEF IInv, DataInv, MarksCover, Sweep, Goto, Contract!Reachable
<1> QED
  BY <1>2 DEF Sweep, Contract!AbsCollect

LEMMA ContractNext ==
  IInv /\ [Next]_vars => [ContractStep]_(Contract!absVars)
<1> SUFFICES ASSUME IInv, [Next]_vars, disturbed' = {}
             PROVE  Contract!AbsNext \/ UNCHANGED <<allocated, held, globals>>
  BY DEF ContractStep, Contract!absVars
<1> USE DEF Contract!AbsNext, control, memory, data
<1>1. ASSUME NEW t \in Mutators, Membership(t)
      PROVE  Contract!AbsDrop(t) \/ UNCHANGED <<allocated, held, globals>>
  <2>1. CASE Unregister(t) \/ ThreadExit(t)
    <3>1. held' = [held EXCEPT ![t] = held[t] \ held[t]]
      BY <2>1 DEF Unregister, ThreadExit
    <3>2. UNCHANGED <<allocated, globals>>
      BY <2>1 DEF Unregister, ThreadExit
    <3> QED
      BY <3>1, <3>2 DEF Contract!AbsDrop
  <2>2. CASE Register(t) \/ ExitRemove(t) \/ ExitNotify(t)
    BY <2>2 DEF Register, ExitRemove, ExitNotify
  <2> QED
    BY <1>1, <2>1, <2>2 DEF Membership
<1>2. ASSUME NEW t \in Mutators, NEW b \in Blocks, Load(t, b)
      PROVE  Contract!AbsLoad(t)
  BY <1>2 DEF Load, Contract!AbsLoad
<1>3. ASSUME NEW t \in Mutators, NEW b \in Blocks, Store(t, b)
      PROVE  Contract!AbsStore(t)
  BY <1>3 DEF Store, Contract!AbsStore
<1>4. ASSUME NEW t \in Mutators, NEW b \in Blocks, Clear(t, b)
      PROVE  Contract!AbsClear
  BY <1>4 DEF Clear, Contract!AbsClear
<1>5. ASSUME NEW t \in Mutators, NEW b \in Blocks, Drop(t, b)
      PROVE  Contract!AbsDrop(t)
  <2>1. {b} \in SUBSET held[t]
    BY <1>5 DEF Drop
  <2> QED
    BY <1>5, <2>1 DEF Drop, Contract!AbsDrop
<1>6. ASSUME NEW t \in Mutators, Allocate(t)
      PROVE  Contract!AbsNew(t) \/ UNCHANGED <<allocated, held, globals>>
  BY <1>6 DEF Allocate, NewRec, Alloc, AllocBeyondBound, WriteTag,
              Contract!AbsNew
<1>7. ASSUME NEW t \in Mutators, Park(t)
      PROVE  UNCHANGED <<allocated, held, globals>>
  BY <1>7 DEF Park, SafepointPoll, ParkSelf, LockAndTest, CondWait, Leave
<1>8. ASSUME NEW t \in Mutators, BeginCollect(t)
      PROVE  UNCHANGED <<allocated, held, globals>>
  BY <1>8 DEF BeginCollect
<1>9. ASSUME NEW t \in Mutators, Collect(t)
      PROVE  Contract!AbsCollect \/ UNCHANGED <<allocated, held, globals>>
  BY <1>9, SweepIsCollect
     DEF Collect, ParkInitiator, Request, AllParked, EnterCycle, MarkStacks,
         MarkRoots, ReleaseFlag, ResumeInitiator, NotifyLocked
<1>10. ASSUME NEW t \in Mutators, Abort(t)
       PROVE  UNCHANGED <<allocated, held, globals>>
  BY <1>10 DEF Abort, ParkTimeout, AbortClear, AbortNotify
<1>11. CASE UNCHANGED vars
  BY <1>11 DEF vars
<1> QED
  BY <1>1, <1>2, <1>3, <1>4, <1>5, <1>6, <1>7, <1>8, <1>9, <1>10, <1>11
  DEF Next, Mutate

(* Until something has disturbed it, every step of the handshake is a step *)
(* the contract allows.                                                    *)
THEOREM HandshakeImplementsContract == Spec => ContractSpec
<1> QED
  BY ContractInit, ContractNext, IInvCorrect, PTL
  DEF Spec, ContractSpec

=============================================================================
