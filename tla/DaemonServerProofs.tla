------------------------- MODULE DaemonServerProofs -------------------------
(***************************************************************************)
(* Proofs, for every set of clients, keys and sessions, of the safety       *)
(* properties of DaemonServerProps and of the refinement to SessionRegistry. *)
(*                                                                         *)
(* All of them rest on one inductive invariant, IInv: the types, the locks  *)
(* being where the program counters say, and the facts about children and   *)
(* clocks kept only for sessions something refers to.                       *)
(***************************************************************************)
EXTENDS DaemonServerProps, TLAPS

\* A session that was dropped leaves no exit and no age behind for the next one.
OnlyReferred == exited \cup quiet \subseteq Referred(pool, ref)

IInv == TypeOK /\ LocksMatchPlaces /\ OnlyReferred

----------------------------------------------------------------------------
(* The inductive invariant. *)

\* Every step of the daemon keeps the types.
LEMMA TypeStep == TypeOK /\ [Next]_vars => TypeOK'
<1> SUFFICES ASSUME TypeOK, [Next]_vars PROVE TypeOK'
  OBVIOUS
<1> USE DaemonConstants DEF refs, locks, conns, reaping, TypeOK, Places, Unasked
<1>1. ASSUME NEW c \in Clients, Connect(c) PROVE TypeOK'
  BY <1>1 DEF Connect, Goto
<1>2. ASSUME NEW c \in Clients, HangUp(c) PROVE TypeOK'
  BY <1>2 DEF HangUp, Goto
<1>3. ASSUME NEW c \in Clients, NEW m \in Methods, NEW k \in Keys, Request(c, m, k)
      PROVE TypeOK'
  BY <1>3 DEF Request
<1>4. ASSUME NEW c \in Clients, RecordRequest(c) PROVE TypeOK'
  BY <1>4 DEF RecordRequest, Goto, Reply, Arm, AllMethods
<1>5. ASSUME NEW c \in Clients, SpawnLock(c) PROVE TypeOK'
  BY <1>5 DEF SpawnLock, Refer, Referred, Without, Goto
<1>6. ASSUME NEW c \in Clients, SpawnForget(c) PROVE TypeOK'
  BY <1>6 DEF SpawnForget, Goto
<1>7. ASSUME NEW c \in Clients, SpawnReuse(c) PROVE TypeOK'
  BY <1>7 DEF SpawnReuse, Goto
<1>8. ASSUME NEW c \in Clients, NEW i \in Insts, SpawnNew(c, i) PROVE TypeOK'
  BY <1>8 DEF SpawnNew, Refer, Referred, Goto
<1>9. ASSUME NEW c \in Clients, SpawnFails(c) PROVE TypeOK'
  BY <1>9 DEF SpawnFails, ReapIfDead, Without, Refer, Referred, Reply
<1>10. ASSUME NEW c \in Clients, SpawnRecord(c) PROVE TypeOK'
  BY <1>10 DEF SpawnRecord, Reply
<1>11. ASSUME NEW c \in Clients, RemovePool(c) PROVE TypeOK'
  BY <1>11 DEF RemovePool, Refer, Referred, Without, Goto
<1>12. ASSUME NEW c \in Clients, RemoveForget(c) PROVE TypeOK'
  BY <1>12 DEF RemoveForget, Reply
<1>13. ASSUME NEW c \in Clients, LookupFails(c) PROVE TypeOK'
  BY <1>13 DEF LookupFails, ReapIfDead, Without, Refer, Referred, Reply
<1>14. ASSUME NEW c \in Clients, Lookup(c) PROVE TypeOK'
  BY <1>14 DEF Lookup, Refer, Referred, Goto
<1>15. ASSUME NEW c \in Clients, LockSession(c) PROVE TypeOK'
  BY <1>15 DEF LockSession, Goto
<1>16. ASSUME NEW c \in Clients, OpReturns(c) PROVE TypeOK'
  BY <1>16 DEF OpReturns, Release, Refer, Referred, Reply
<1>17. ASSUME NEW c \in Clients, DisconnectOk(c) PROVE TypeOK'
  BY <1>17 DEF DisconnectOk, Goto
<1>18. ASSUME NEW c \in Clients, DropPool(c) PROVE TypeOK'
  BY <1>18 DEF DropPool, Refer, Referred, Without, Goto
<1>19. ASSUME NEW c \in Clients, DropForget(c) PROVE TypeOK'
  BY <1>19 DEF DropForget, Release, Refer, Referred, Reply
<1>20. ASSUME NEW c \in Clients, StatusLock(c) PROVE TypeOK'
  BY <1>20 DEF StatusLock, Goto
<1>21. ASSUME NEW c \in Clients, StatusKeys(c) PROVE TypeOK'
  BY <1>21 DEF StatusKeys, Reply
<1>22. ASSUME NEW c \in Clients, Shutdown(c) PROVE TypeOK'
  BY <1>22 DEF Shutdown, Reply
<1>23. ASSUME NEW c \in Clients, Accept(c) PROVE TypeOK'
  BY <1>23 DEF Accept, Goto
<1>24. ASSUME NEW i \in Insts, AdapterExits(i) PROVE TypeOK'
  BY <1>24 DEF AdapterExits, Referred
<1>25. ASSUME NEW i \in Insts, GoesQuiet(i) PROVE TypeOK'
  BY <1>25 DEF GoesQuiet, Referred
<1>26. CASE Interrupt
  BY <1>26 DEF Interrupt
<1>27. CASE RecordConnection
  BY <1>27 DEF RecordConnection
<1>28. CASE SeeShutdown
  BY <1>28 DEF SeeShutdown
<1>29. CASE ClearPool
  BY <1>29 DEF ClearPool, Refer, Referred, Without
<1>30. CASE ClearStatus
  BY <1>30 DEF ClearStatus
<1>31. CASE Unlink
  BY <1>31 DEF Unlink
<1>32. CASE ReaperWakes
  BY <1>32 DEF ReaperWakes
<1>33. CASE ReapIdle
  BY <1>33 DEF ReapIdle, Refer, Referred, Without
<1>34. CASE ReaperKeys
  BY <1>34 DEF ReaperKeys, BoundKeys
<1>35. CASE ReaperRetain
  BY <1>35 DEF ReaperRetain
<1>36. CASE CheckIdle
  BY <1>36 DEF CheckIdle
<1>37. CASE SelfExit
  BY <1>37 DEF SelfExit
<1>38. CASE UNCHANGED vars
  BY <1>38 DEF vars
<1> QED
  BY <1>1, <1>2, <1>3, <1>4, <1>5, <1>6, <1>7, <1>8, <1>9, <1>10, <1>11, <1>12,
     <1>13, <1>14, <1>15, <1>16, <1>17, <1>18, <1>19, <1>20, <1>21, <1>22, <1>23,
     <1>24, <1>25, <1>26, <1>27, <1>28, <1>29, <1>30, <1>31, <1>32, <1>33, <1>34,
     <1>35, <1>36, <1>37, <1>38
     DEF Next, ClientStep, HandlerStep, MainStep, ReaperStep, Stopped

\* Each guard is held between the step that takes it and the one that drops it.
LEMMA LockStep == TypeOK /\ LocksMatchPlaces /\ [Next]_vars => LocksMatchPlaces'
<1> SUFFICES ASSUME TypeOK, LocksMatchPlaces, [Next]_vars PROVE LocksMatchPlaces'
  OBVIOUS
<1> USE DaemonConstants DEF refs, locks, conns, reaping, TypeOK, Places, Unasked,
        LocksMatchPlaces, HoldsPool, HoldsStatus, HoldsSession, HasSession
<1>1. ASSUME NEW c \in Clients, Connect(c) PROVE LocksMatchPlaces'
  BY <1>1 DEF Connect, Goto
<1>2. ASSUME NEW c \in Clients, HangUp(c) PROVE LocksMatchPlaces'
  BY <1>2 DEF HangUp, Goto
<1>3. ASSUME NEW c \in Clients, NEW m \in Methods, NEW k \in Keys, Request(c, m, k)
      PROVE LocksMatchPlaces'
  BY <1>3 DEF Request
<1>4. ASSUME NEW c \in Clients, RecordRequest(c) PROVE LocksMatchPlaces'
  BY <1>4 DEF RecordRequest, Goto, Reply, Arm, AllMethods
<1>5. ASSUME NEW c \in Clients, SpawnLock(c) PROVE LocksMatchPlaces'
  BY <1>5 DEF SpawnLock, Refer, Referred, Without, Goto
<1>6. ASSUME NEW c \in Clients, SpawnForget(c) PROVE LocksMatchPlaces'
  BY <1>6 DEF SpawnForget, Goto
<1>7. ASSUME NEW c \in Clients, SpawnReuse(c) PROVE LocksMatchPlaces'
  BY <1>7 DEF SpawnReuse, Goto
<1>8. ASSUME NEW c \in Clients, NEW i \in Insts, SpawnNew(c, i) PROVE LocksMatchPlaces'
  BY <1>8 DEF SpawnNew, Refer, Referred, Goto
<1>9. ASSUME NEW c \in Clients, SpawnFails(c) PROVE LocksMatchPlaces'
  BY <1>9 DEF SpawnFails, ReapIfDead, Without, Refer, Referred, Reply
<1>10. ASSUME NEW c \in Clients, SpawnRecord(c) PROVE LocksMatchPlaces'
  BY <1>10 DEF SpawnRecord, Reply
<1>11. ASSUME NEW c \in Clients, RemovePool(c) PROVE LocksMatchPlaces'
  BY <1>11 DEF RemovePool, Refer, Referred, Without, Goto
<1>12. ASSUME NEW c \in Clients, RemoveForget(c) PROVE LocksMatchPlaces'
  BY <1>12 DEF RemoveForget, Reply
<1>13. ASSUME NEW c \in Clients, LookupFails(c) PROVE LocksMatchPlaces'
  BY <1>13 DEF LookupFails, ReapIfDead, Without, Refer, Referred, Reply
<1>14. ASSUME NEW c \in Clients, Lookup(c) PROVE LocksMatchPlaces'
  BY <1>14 DEF Lookup, Refer, Referred, Goto
<1>15. ASSUME NEW c \in Clients, LockSession(c) PROVE LocksMatchPlaces'
  BY <1>15 DEF LockSession, Goto
<1>16. ASSUME NEW c \in Clients, OpReturns(c) PROVE LocksMatchPlaces'
  BY <1>16 DEF OpReturns, Release, Refer, Referred, Reply
<1>17. ASSUME NEW c \in Clients, DisconnectOk(c) PROVE LocksMatchPlaces'
  BY <1>17 DEF DisconnectOk, Goto
<1>18. ASSUME NEW c \in Clients, DropPool(c) PROVE LocksMatchPlaces'
  BY <1>18 DEF DropPool, Refer, Referred, Without, Goto
<1>19. ASSUME NEW c \in Clients, DropForget(c) PROVE LocksMatchPlaces'
  BY <1>19 DEF DropForget, Release, Refer, Referred, Reply
<1>20. ASSUME NEW c \in Clients, StatusLock(c) PROVE LocksMatchPlaces'
  BY <1>20 DEF StatusLock, Goto
<1>21. ASSUME NEW c \in Clients, StatusKeys(c) PROVE LocksMatchPlaces'
  BY <1>21 DEF StatusKeys, Reply
<1>22. ASSUME NEW c \in Clients, Shutdown(c) PROVE LocksMatchPlaces'
  BY <1>22 DEF Shutdown, Reply
<1>23. ASSUME NEW c \in Clients, Accept(c) PROVE LocksMatchPlaces'
  BY <1>23 DEF Accept, Goto
<1>24. ASSUME NEW i \in Insts, AdapterExits(i) PROVE LocksMatchPlaces'
  BY <1>24 DEF AdapterExits, Referred
<1>25. ASSUME NEW i \in Insts, GoesQuiet(i) PROVE LocksMatchPlaces'
  BY <1>25 DEF GoesQuiet, Referred
<1>26. CASE Interrupt
  BY <1>26 DEF Interrupt
<1>27. CASE RecordConnection
  BY <1>27 DEF RecordConnection
<1>28. CASE SeeShutdown
  BY <1>28 DEF SeeShutdown
<1>29. CASE ClearPool
  BY <1>29 DEF ClearPool, Refer, Referred, Without
<1>30. CASE ClearStatus
  BY <1>30 DEF ClearStatus
<1>31. CASE Unlink
  BY <1>31 DEF Unlink
<1>32. CASE ReaperWakes
  BY <1>32 DEF ReaperWakes
<1>33. CASE ReapIdle
  BY <1>33 DEF ReapIdle, Refer, Referred, Without
<1>34. CASE ReaperKeys
  BY <1>34 DEF ReaperKeys, BoundKeys
<1>35. CASE ReaperRetain
  BY <1>35 DEF ReaperRetain
<1>36. CASE CheckIdle
  BY <1>36 DEF CheckIdle
<1>37. CASE SelfExit
  BY <1>37 DEF SelfExit
<1>38. CASE UNCHANGED vars
  BY <1>38 DEF vars
<1> QED
  BY <1>1, <1>2, <1>3, <1>4, <1>5, <1>6, <1>7, <1>8, <1>9, <1>10, <1>11, <1>12,
     <1>13, <1>14, <1>15, <1>16, <1>17, <1>18, <1>19, <1>20, <1>21, <1>22, <1>23,
     <1>24, <1>25, <1>26, <1>27, <1>28, <1>29, <1>30, <1>31, <1>32, <1>33, <1>34,
     <1>35, <1>36, <1>37, <1>38
     DEF Next, ClientStep, HandlerStep, MainStep, ReaperStep, Stopped

\* Every step either drops what nothing refers to any more, adds an exit or an
\* age to a session something refers to, or touches neither.
LEMMA ReferredStep == OnlyReferred /\ [Next]_vars => OnlyReferred'
<1> SUFFICES ASSUME OnlyReferred, [Next]_vars PROVE OnlyReferred'
  OBVIOUS
<1> USE DEF refs, OnlyReferred
<1>1. ASSUME NEW p, NEW r, Refer(p, r) PROVE OnlyReferred'
  BY <1>1 DEF Refer, Referred
<1>2. CASE UNCHANGED refs
  BY <1>2 DEF Referred
<1>3. ASSUME NEW c \in Clients, HandlerStep(c) PROVE OnlyReferred'
  <2>1. CASE LockSession(c)
    BY <2>1 DEF LockSession, Referred
  <2> QED
    BY <1>1, <1>2, <1>3, <2>1
       DEF HandlerStep, RecordRequest, SpawnLock, SpawnForget, SpawnReuse, SpawnNew,
           SpawnFails, SpawnRecord, RemovePool, RemoveForget, LookupFails, Lookup,
           OpReturns, DisconnectOk, DropPool, DropForget, Release, StatusLock,
           StatusKeys, Shutdown
<1>4. ASSUME NEW i \in Insts, AdapterExits(i) \/ GoesQuiet(i) PROVE OnlyReferred'
  BY <1>4 DEF AdapterExits, GoesQuiet, Referred
<1>5. ASSUME NEW c \in Clients, ClientStep(c) \/ Accept(c) PROVE OnlyReferred'
  BY <1>2, <1>5 DEF ClientStep, Accept, Connect, HangUp, Request
<1>6. CASE Interrupt \/ MainStep
  BY <1>1, <1>2, <1>6 DEF Interrupt, MainStep, RecordConnection, SeeShutdown, ClearPool,
                          ClearStatus, Unlink
<1>7. CASE ReaperStep
  BY <1>1, <1>2, <1>7 DEF ReaperStep, ReaperWakes, ReapIdle, ReaperKeys, ReaperRetain,
                          CheckIdle, SelfExit
<1>8. CASE UNCHANGED vars
  BY <1>2, <1>8 DEF vars
<1> QED
  BY <1>3, <1>4, <1>5, <1>6, <1>7, <1>8 DEF Next, Stopped

\* It holds of the daemon that has just bound its socket, ...
LEMMA InitIInv == Init => IInv
<1> SUFFICES ASSUME Init PROVE IInv
  OBVIOUS
<1> USE DaemonConstants DEF Init
<1>1. TypeOK
  BY DEF TypeOK, Places, Unasked
<1>2. LocksMatchPlaces
  BY DEF LocksMatchPlaces, HoldsPool, HoldsStatus, HoldsSession, HasSession
<1>3. OnlyReferred
  BY DEF OnlyReferred
<1> QED
  BY <1>1, <1>2, <1>3 DEF IInv

\* ... and every step keeps it.
LEMMA StepIInv == IInv /\ [Next]_vars => IInv'
  BY TypeStep, LockStep, ReferredStep DEF IInv

\* In every behaviour of the daemon IInv holds throughout.
THEOREM Invariance == Spec => []IInv
  BY InitIInv, StepIInv, PTL DEF Spec

\* The types of DaemonServer's variables.
THEOREM TypeCorrect == Spec => []TypeOK
  BY Invariance, PTL DEF IInv

\* The mutexes of the daemon exclude, and are held exactly where dispatch's
\* guards are alive.
THEOREM MutualExclusion == Spec => []LocksMatchPlaces
  BY Invariance, PTL DEF IInv

----------------------------------------------------------------------------
(* The pool and the session locks change in few steps. *)

\* The steps that change what a key is bound to or who holds a session.
ChangesRegistry ==
    \/ \E c \in Clients :
          \/ SpawnLock(c) \/ (\E i \in Insts : SpawnNew(c, i)) \/ SpawnFails(c)
          \/ RemovePool(c) \/ LookupFails(c)
          \/ LockSession(c) \/ OpReturns(c) \/ DropPool(c) \/ DropForget(c)
    \/ ClearPool
    \/ ReapIdle

\* Only the steps of ChangesRegistry touch the pool or the mutex of a session.
LEMMA RegistryFrame == [Next]_vars => UNCHANGED <<pool, sessLock>> \/ ChangesRegistry
<1> SUFFICES ASSUME [Next]_vars, ~ChangesRegistry PROVE UNCHANGED <<pool, sessLock>>
  OBVIOUS
<1> USE DEF refs, locks, ChangesRegistry
<1>1. ASSUME NEW c \in Clients, ClientStep(c) \/ Accept(c)
      PROVE UNCHANGED <<pool, sessLock>>
  BY <1>1 DEF ClientStep, Accept, Connect, HangUp, Request
<1>2. ASSUME NEW c \in Clients, HandlerStep(c) PROVE UNCHANGED <<pool, sessLock>>
  BY <1>2 DEF HandlerStep, RecordRequest, SpawnForget, SpawnReuse, SpawnRecord,
              RemoveForget, Lookup, Refer, DisconnectOk, StatusLock, StatusKeys, Shutdown
<1>3. ASSUME NEW i \in Insts, AdapterExits(i) \/ GoesQuiet(i)
      PROVE UNCHANGED <<pool, sessLock>>
  BY <1>3 DEF AdapterExits, GoesQuiet
<1>4. CASE Interrupt \/ MainStep
  BY <1>4 DEF Interrupt, MainStep, RecordConnection, SeeShutdown, ClearStatus, Unlink
<1>5. CASE ReaperStep
  BY <1>5 DEF ReaperStep, ReaperWakes, ReaperKeys, ReaperRetain, CheckIdle, SelfExit
<1>6. CASE UNCHANGED vars
  BY <1>6 DEF vars
<1> QED
  BY <1>1, <1>2, <1>3, <1>4, <1>5, <1>6 DEF Next, Stopped


----------------------------------------------------------------------------
(* dap/spawn has its key to itself. *)

\* Nobody binds a key between the two halves of a replace.
LEMMA SpawnStep == IInv /\ SpawnOwnsItsKey /\ [Next]_vars => SpawnOwnsItsKey'
<1> SUFFICES ASSUME IInv, SpawnOwnsItsKey, [Next]_vars PROVE SpawnOwnsItsKey'
  OBVIOUS
<1> USE DaemonConstants DEF refs, locks, conns, reaping, IInv, TypeOK, Places, Unasked,
        LocksMatchPlaces, HoldsPool, SpawnOwnsItsKey
<1>1. ASSUME NEW c \in Clients, Connect(c) PROVE SpawnOwnsItsKey'
  BY <1>1 DEF Connect, Goto
<1>2. ASSUME NEW c \in Clients, HangUp(c) PROVE SpawnOwnsItsKey'
  BY <1>2 DEF HangUp, Goto
<1>3. ASSUME NEW c \in Clients, NEW m \in Methods, NEW k \in Keys, Request(c, m, k)
      PROVE SpawnOwnsItsKey'
  BY <1>3 DEF Request
<1>4. ASSUME NEW c \in Clients, RecordRequest(c) PROVE SpawnOwnsItsKey'
  BY <1>4 DEF RecordRequest, Goto, Reply, Arm, AllMethods
<1>5. ASSUME NEW c \in Clients, SpawnLock(c) PROVE SpawnOwnsItsKey'
  BY <1>5 DEF SpawnLock, Refer, Referred, Without, Goto
<1>6. ASSUME NEW c \in Clients, SpawnForget(c) PROVE SpawnOwnsItsKey'
  BY <1>6 DEF SpawnForget, Goto
<1>7. ASSUME NEW c \in Clients, SpawnReuse(c) PROVE SpawnOwnsItsKey'
  BY <1>7 DEF SpawnReuse, Goto
<1>8. ASSUME NEW c \in Clients, NEW i \in Insts, SpawnNew(c, i) PROVE SpawnOwnsItsKey'
  BY <1>8 DEF SpawnNew, Refer, Referred, Goto
<1>9. ASSUME NEW c \in Clients, SpawnFails(c) PROVE SpawnOwnsItsKey'
  BY <1>9 DEF SpawnFails, ReapIfDead, Without, Refer, Referred, Reply
<1>10. ASSUME NEW c \in Clients, SpawnRecord(c) PROVE SpawnOwnsItsKey'
  BY <1>10 DEF SpawnRecord, Reply
<1>11. ASSUME NEW c \in Clients, RemovePool(c) PROVE SpawnOwnsItsKey'
  BY <1>11 DEF RemovePool, Refer, Referred, Without, Goto
<1>12. ASSUME NEW c \in Clients, RemoveForget(c) PROVE SpawnOwnsItsKey'
  BY <1>12 DEF RemoveForget, Reply
<1>13. ASSUME NEW c \in Clients, LookupFails(c) PROVE SpawnOwnsItsKey'
  BY <1>13 DEF LookupFails, ReapIfDead, Without, Refer, Referred, Reply
<1>14. ASSUME NEW c \in Clients, Lookup(c) PROVE SpawnOwnsItsKey'
  BY <1>14 DEF Lookup, Refer, Referred, Goto
<1>15. ASSUME NEW c \in Clients, LockSession(c) PROVE SpawnOwnsItsKey'
  BY <1>15 DEF LockSession, Goto
<1>16. ASSUME NEW c \in Clients, OpReturns(c) PROVE SpawnOwnsItsKey'
  BY <1>16 DEF OpReturns, Release, Refer, Referred, Reply
<1>17. ASSUME NEW c \in Clients, DisconnectOk(c) PROVE SpawnOwnsItsKey'
  BY <1>17 DEF DisconnectOk, Goto
<1>18. ASSUME NEW c \in Clients, DropPool(c) PROVE SpawnOwnsItsKey'
  BY <1>18 DEF DropPool, Refer, Referred, Without, Goto
<1>19. ASSUME NEW c \in Clients, DropForget(c) PROVE SpawnOwnsItsKey'
  BY <1>19 DEF DropForget, Release, Refer, Referred, Reply
<1>20. ASSUME NEW c \in Clients, StatusLock(c) PROVE SpawnOwnsItsKey'
  BY <1>20 DEF StatusLock, Goto
<1>21. ASSUME NEW c \in Clients, StatusKeys(c) PROVE SpawnOwnsItsKey'
  BY <1>21 DEF StatusKeys, Reply
<1>22. ASSUME NEW c \in Clients, Shutdown(c) PROVE SpawnOwnsItsKey'
  BY <1>22 DEF Shutdown, Reply
<1>23. ASSUME NEW c \in Clients, Accept(c) PROVE SpawnOwnsItsKey'
  BY <1>23 DEF Accept, Goto
<1>24. ASSUME NEW i \in Insts, AdapterExits(i) PROVE SpawnOwnsItsKey'
  BY <1>24 DEF AdapterExits, Referred
<1>25. ASSUME NEW i \in Insts, GoesQuiet(i) PROVE SpawnOwnsItsKey'
  BY <1>25 DEF GoesQuiet, Referred
<1>26. CASE Interrupt
  BY <1>26 DEF Interrupt
<1>27. CASE RecordConnection
  BY <1>27 DEF RecordConnection
<1>28. CASE SeeShutdown
  BY <1>28 DEF SeeShutdown
<1>29. CASE ClearPool
  BY <1>29 DEF ClearPool, Refer, Referred, Without
<1>30. CASE ClearStatus
  BY <1>30 DEF ClearStatus
<1>31. CASE Unlink
  BY <1>31 DEF Unlink
<1>32. CASE ReaperWakes
  BY <1>32 DEF ReaperWakes
<1>33. CASE ReapIdle
  BY <1>33 DEF ReapIdle, Refer, Referred, Without
<1>34. CASE ReaperKeys
  BY <1>34 DEF ReaperKeys, BoundKeys
<1>35. CASE ReaperRetain
  BY <1>35 DEF ReaperRetain
<1>36. CASE CheckIdle
  BY <1>36 DEF CheckIdle
<1>37. CASE SelfExit
  BY <1>37 DEF SelfExit
<1>38. CASE UNCHANGED vars
  BY <1>38 DEF vars
<1> QED
  BY <1>1, <1>2, <1>3, <1>4, <1>5, <1>6, <1>7, <1>8, <1>9, <1>10, <1>11, <1>12,
     <1>13, <1>14, <1>15, <1>16, <1>17, <1>18, <1>19, <1>20, <1>21, <1>22, <1>23,
     <1>24, <1>25, <1>26, <1>27, <1>28, <1>29, <1>30, <1>31, <1>32, <1>33, <1>34,
     <1>35, <1>36, <1>37, <1>38
     DEF Next, ClientStep, HandlerStep, MainStep, ReaperStep, Stopped

\* No step of another task comes between the removal and the insertion of a
\* dap/spawn with replace.
THEOREM SpawnOwns == Spec => []SpawnOwnsItsKey
<1>1. Init => SpawnOwnsItsKey
  BY DEF Init, SpawnOwnsItsKey
<1> QED
  BY <1>1, Invariance, SpawnStep, PTL DEF Spec

----------------------------------------------------------------------------
(* The action properties. *)

\* Nobody changes the status's sessions while its mutex is held.
LEMMA StatusFrame == [Next]_vars /\ sessions' # sessions => statusLock = None
<1> SUFFICES ASSUME [Next]_vars, statusLock # None PROVE UNCHANGED sessions
  OBVIOUS
<1>1. ASSUME NEW c \in Clients, ClientStep(c) \/ Accept(c) PROVE UNCHANGED sessions
  BY <1>1 DEF ClientStep, Accept, Connect, HangUp, Request
<1>2. ASSUME NEW c \in Clients, HandlerStep(c) PROVE UNCHANGED sessions
  BY <1>2 DEF HandlerStep, RecordRequest, SpawnLock, SpawnForget, SpawnReuse, SpawnNew,
              SpawnFails, SpawnRecord, RemovePool, RemoveForget, LookupFails, Lookup,
              LockSession, OpReturns, DisconnectOk, DropPool, DropForget, StatusLock,
              StatusKeys, Shutdown
<1>3. ASSUME NEW i \in Insts, AdapterExits(i) \/ GoesQuiet(i) PROVE UNCHANGED sessions
  BY <1>3 DEF AdapterExits, GoesQuiet
<1>4. CASE Interrupt \/ MainStep
  BY <1>4 DEF Interrupt, MainStep, RecordConnection, SeeShutdown, ClearPool, ClearStatus,
              Unlink
<1>5. CASE ReaperStep
  BY <1>5 DEF ReaperStep, ReaperWakes, ReapIdle, ReaperKeys, ReaperRetain, CheckIdle,
              SelfExit
<1>6. CASE UNCHANGED vars
  BY <1>6 DEF vars
<1> QED
  BY <1>1, <1>2, <1>3, <1>4, <1>5, <1>6 DEF Next, Stopped

\* What a task does under the pool's or the status's lock, nobody else does.
THEOREM Guarded == Spec => GuardedByItsLock
<1> DEFINE Step == \A c \in Clients :
                      /\ poolLock = c /\ pool' # pool => pc'[c] # pc[c]
                      /\ statusLock = c /\ sessions' # sessions => pc'[c] # pc[c]
<1>1. IInv /\ [Next]_vars => Step
  <2> SUFFICES ASSUME IInv, [Next]_vars, NEW c \in Clients
               PROVE /\ poolLock = c /\ pool' # pool => pc'[c] # pc[c]
                     /\ statusLock = c /\ sessions' # sessions => pc'[c] # pc[c]
    OBVIOUS
  <2> USE DaemonConstants
  <2>1. statusLock = c /\ sessions' # sessions => pc'[c] # pc[c]
    BY StatusFrame
  <2>2. ASSUME poolLock = c, pool' # pool PROVE pc'[c] # pc[c]
    <3>1. PICK d \in Clients : SpawnFails(d) \/ \E i \in Insts : SpawnNew(d, i)
      BY <2>2, RegistryFrame
         DEF ChangesRegistry, SpawnLock, RemovePool, LookupFails, LockSession, OpReturns,
             Release, Refer, DropPool, DropForget, ClearPool, ReapIdle
    <3>2. d = c
      BY <2>2, <3>1 DEF IInv, TypeOK, LocksMatchPlaces, HoldsPool, SpawnFails, SpawnNew
    <3> QED
      BY <3>1, <3>2 DEF IInv, TypeOK, SpawnFails, SpawnNew, Goto, Reply
  <2> QED
    BY <2>1, <2>2
<1>2. IInv /\ [Next]_vars => [Step]_vars
  BY <1>1
<1> QED
  BY <1>2, Invariance, PTL DEF Spec, GuardedByItsLock

\* Neither the reaper nor a dead-child check takes a session out from under the
\* operation that runs on it.
THEOREM BusyStays == Spec => BusySessionLeavesOnRequest
<1> DEFINE Step == \A k \in Keys :
                      (pool[k] # None /\ sessLock[pool[k]] # None /\ pool'[k] # pool[k])
                         => (main' # main \/ \E c \in Clients : ClosesOnRequest(c, k))
<1>1. IInv /\ [Next]_vars => Step
  <2> SUFFICES ASSUME IInv, [Next]_vars, NEW k \in Keys,
                      pool[k] # None, sessLock[pool[k]] # None, pool'[k] # pool[k]
               PROVE main' # main \/ \E c \in Clients : ClosesOnRequest(c, k)
    OBVIOUS
  <2> USE DaemonConstants DEF IInv, TypeOK, Unasked
  <2>1. ASSUME NEW c \in Clients, SpawnLock(c) PROVE ClosesOnRequest(c, k)
    BY <2>1 DEF SpawnLock, Refer, Without, Goto, refs, ClosesOnRequest
  <2>2. ASSUME NEW c \in Clients, RemovePool(c) \/ DropPool(c)
        PROVE ClosesOnRequest(c, k)
    BY <2>2 DEF RemovePool, DropPool, Refer, Without, Goto, ClosesOnRequest
  <2>3. ASSUME NEW c \in Clients, SpawnFails(c) \/ LookupFails(c) PROVE FALSE
    BY <2>3 DEF SpawnFails, LookupFails, Refer, ReapIfDead, SeenDead, Without
  <2>4. ASSUME NEW c \in Clients, NEW i \in Insts, SpawnNew(c, i) PROVE FALSE
    BY <2>4 DEF SpawnNew, SeenDead, Refer
  <2>5. ASSUME NEW c \in Clients, LockSession(c) \/ OpReturns(c) \/ DropForget(c)
        PROVE FALSE
    BY <2>5 DEF LockSession, OpReturns, DropForget, Release, Refer
  <2>6. CASE ClearPool
    BY <2>6 DEF ClearPool
  <2>7. ~ReapIdle
    BY DEF ReapIdle, Refer, Without, Reapable
  <2> QED
    BY <2>1, <2>2, <2>3, <2>4, <2>5, <2>6, <2>7, RegistryFrame DEF ChangesRegistry
<1>2. IInv /\ [Next]_vars => [Step]_vars
  BY <1>1
<1> QED
  BY <1>2, Invariance, PTL DEF Spec, BusySessionLeavesOnRequest

\* The dead-child check of DapPool sees every dead session nobody uses.
THEOREM DeadNotServed == Spec => DeadSessionNotServed
<1> DEFINE Step ==
      \A c \in Clients :
          (pc[c] \in {"lookup", "spawnGet"} /\ pc'[c] \in {"lockSession", "spawnRecord"})
             => LET i == pool'[key[c]]
                IN i \in exited' => sessLock[i] # None
<1>1. IInv /\ [Next]_vars => Step
  <2> SUFFICES ASSUME IInv, [Next]_vars, NEW c \in Clients,
                      pc[c] \in {"lookup", "spawnGet"},
                      pc'[c] \in {"lockSession", "spawnRecord"}
               PROVE LET i == pool'[key[c]]
                     IN i \in exited' => sessLock[i] # None
    OBVIOUS
  <2> USE DaemonConstants DEF IInv, TypeOK, Unasked, refs, conns
  <2>1. CASE Lookup(c) \/ SpawnReuse(c)
    BY <2>1 DEF Lookup, SpawnReuse, SeenDead, Refer
  <2>2. ASSUME NEW i \in Insts, SpawnNew(c, i)
        PROVE pool'[key[c]] = i /\ i \notin exited'
    BY <2>2 DEF SpawnNew, OnlyReferred, Refer
  <2>3. Lookup(c) \/ SpawnReuse(c) \/ \E i \in Insts : SpawnNew(c, i)
    <3>1. ASSUME NEW d \in Clients, ClientStep(d) \/ Accept(d) PROVE FALSE
      BY <3>1 DEF ClientStep, Accept, Connect, HangUp, Request, Goto
    <3>2. ASSUME NEW d \in Clients, HandlerStep(d)
          PROVE d = c /\ (Lookup(c) \/ SpawnReuse(c) \/ \E i \in Insts : SpawnNew(c, i))
      BY <3>2 DEF HandlerStep, RecordRequest, SpawnLock, SpawnForget, SpawnReuse,
                  SpawnNew, SpawnFails, SpawnRecord, RemovePool, RemoveForget,
                  LookupFails, Lookup, LockSession, OpReturns, DisconnectOk, DropPool,
                  DropForget, Release, StatusLock, StatusKeys, Shutdown, Goto, Reply
    <3>3. ASSUME NEW i \in Insts, AdapterExits(i) \/ GoesQuiet(i) PROVE FALSE
      BY <3>3 DEF AdapterExits, GoesQuiet
    <3>4. ~(Interrupt \/ MainStep)
      BY DEF Interrupt, MainStep, RecordConnection, SeeShutdown, ClearPool, ClearStatus,
             Unlink
    <3>5. ~ReaperStep
      BY DEF ReaperStep, ReaperWakes, ReapIdle, ReaperKeys, ReaperRetain, CheckIdle,
             SelfExit
    <3>6. ~UNCHANGED vars
      BY DEF vars
    <3> QED
      BY <3>1, <3>2, <3>3, <3>4, <3>5, <3>6 DEF Next, Stopped
  <2> QED
    BY <2>1, <2>2, <2>3
<1>2. IInv /\ [Next]_vars => [Step]_vars
  BY <1>1
<1> QED
  BY <1>2, Invariance, PTL DEF Spec, DeadSessionNotServed

----------------------------------------------------------------------------
(* The daemon implements SessionRegistry. *)

\* A step of the daemon is one of the registry, or none.
LEMMA RegistryStep == IInv /\ [Next]_vars => [Registry!RegistryNext]_(Registry!registryVars)
<1> SUFFICES ASSUME IInv, [Next]_vars
             PROVE Registry!RegistryNext \/ UNCHANGED <<pool, sessLock>>
  BY DEF Registry!registryVars
<1> USE DaemonConstants DEF refs, locks, IInv, TypeOK, Registry!RegistryNext
<1>1. ASSUME NEW c \in Clients, SpawnLock(c)
      PROVE Registry!RegistryNext \/ UNCHANGED <<pool, sessLock>>
  BY <1>1 DEF SpawnLock, Refer, Without, Unasked, Registry!Close
<1>2. ASSUME NEW c \in Clients, NEW i \in Insts, SpawnNew(c, i)
      PROVE Registry!RegistryNext
  <2>1. Registry!Unheld(i)
    BY <1>2 DEF SpawnNew, Referred, LocksMatchPlaces, HasSession, HoldsSession,
                Registry!Unheld
  <2>2. key[c] \in Keys /\ pool' = [pool EXCEPT ![key[c]] = i] /\ UNCHANGED sessLock
    BY <1>2 DEF SpawnNew, Refer, Unasked
  <2>3. CASE pool[key[c]] = None
    BY <2>1, <2>2, <2>3 DEF Registry!Open
  <2>4. CASE SeenDead(key[c])
    BY <2>1, <2>2, <2>4 DEF SeenDead, Registry!Reopen
  <2> QED
    BY <1>2, <2>3, <2>4 DEF SpawnNew
<1>3. ASSUME NEW c \in Clients, SpawnFails(c) \/ LookupFails(c)
      PROVE Registry!RegistryNext \/ UNCHANGED <<pool, sessLock>>
  <2>1. key[c] \in Keys /\ pool' = ReapIfDead(key[c]) /\ UNCHANGED sessLock
    BY <1>3 DEF SpawnFails, LookupFails, Refer, Unasked
  <2>2. CASE SeenDead(key[c])
    <3>1. Registry!Reap
      BY <2>1, <2>2 DEF SeenDead, ReapIfDead, Without, Registry!Reap
    <3> QED
      BY <2>1, <3>1
  <2>3. CASE ~SeenDead(key[c])
    BY <2>1, <2>3 DEF ReapIfDead
  <2> QED
    BY <2>2, <2>3
<1>4. ASSUME NEW c \in Clients, RemovePool(c) \/ DropPool(c)
      PROVE Registry!RegistryNext \/ UNCHANGED <<pool, sessLock>>
  BY <1>4 DEF RemovePool, DropPool, Refer, Without, Unasked, Registry!Close
<1>5. ASSUME NEW c \in Clients, LockSession(c) PROVE Registry!RegistryNext
  <2>1. ref[c] \in Insts /\ \A j \in Insts : sessLock[j] # c
    BY <1>5 DEF LockSession, LocksMatchPlaces, HasSession, HoldsSession
  <2>2. Registry!Begin(c, ref[c])
    BY <1>5, <2>1 DEF LockSession, Registry!Begin
  <2> QED
    BY <2>1, <2>2
<1>6. ASSUME NEW c \in Clients, OpReturns(c) \/ DropForget(c) PROVE Registry!RegistryNext
  <2>1. ref[c] \in Insts /\ sessLock[ref[c]] = c
    BY <1>6 DEF OpReturns, DropForget, LocksMatchPlaces, HasSession, HoldsSession
  <2>2. Registry!End(c, ref[c])
    BY <1>6, <2>1 DEF OpReturns, DropForget, Release, Refer, Registry!End
  <2> QED
    BY <2>1, <2>2
<1>7. CASE ClearPool
  BY <1>7 DEF ClearPool, Refer, Without, Registry!CloseAll
<1>8. CASE ReapIdle
  <2>1. Registry!Reap
    BY <1>8 DEF ReapIdle, Refer, Without, Reapable, BoundKeys, Registry!Reap
  <2> QED
    BY <2>1
<1> QED
  BY RegistryFrame, <1>1, <1>2, <1>3, <1>4, <1>5, <1>6, <1>7, <1>8 DEF ChangesRegistry

\* Locks, status and connections forgotten, the daemon is a registry of sessions.
THEOREM Refinement == Spec => ImplementsRegistry
<1>1. Init => Registry!RegistryInit
  BY DEF Init, Registry!RegistryInit
<1>2. IInv /\ [Next]_vars => [Registry!RegistryNext]_(Registry!registryVars)
  BY RegistryStep
<1> QED
  BY <1>1, <1>2, Invariance, PTL DEF Spec, ImplementsRegistry, Registry!RegistrySpec
=============================================================================
