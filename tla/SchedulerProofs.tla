-------------------------- MODULE SchedulerProofs --------------------------
(***************************************************************************)
(* Theorems about Scheduler, for any number of threads, mutexes, condition *)
(* variables and semaphores, and that it implements Monitor.               *)
(***************************************************************************)
EXTENDS SchedulerMonitor, QueueProofs, FiniteSetTheorems, TLAPS

-----------------------------------------------------------------------------
(***************************************************************************)
(* Type correctness.                                                       *)
(***************************************************************************)
LEMMA BlockTypes ==
    /\ NotBlocked \in ThreadBlock
    /\ Sleeping \in ThreadBlock
    /\ \A t \in ThreadId : Joining(t) \in ThreadBlock
    /\ \A m \in MutexId : OnMutex(m) \in ThreadBlock
    /\ \A s \in Sems : OnSemaphore(s) \in ThreadBlock
    /\ \A c \in Conds, timed \in BOOLEAN : OnCond(c, timed) \in ThreadBlock
BY DEF ThreadBlock

\* The initial states have the type.
LEMMA InitType == Init => TypeOK
<1> SUFFICES ASSUME Init PROVE TypeOK
  OBVIOUS
<1>1. ThreadsTypeOK
  <2>1. PhaseTypeOK
    BY DEF Init, ThreadsInit, PhaseTypeOK
  <2>2. PositionTypeOK
    BY ThreadsAssumption DEF Init, ThreadsInit, PositionTypeOK, Existing
  <2>3. TableTypeOK
    <3>1. active \in [ThreadId -> BOOLEAN]
      BY DEF Init, ThreadsInit
    <3>2. \A t \in ThreadId \ Existing : ~ active[t]
      <4>1. \A t \in ThreadId \ Existing : t # 0
        BY DEF Init, ThreadsInit, Existing
      <4>2. \A t \in ThreadId : active[t] <=> t = 0
        BY DEF Init, ThreadsInit
      <4> QED
        BY <4>1, <4>2
    <3>3. /\ blockedBy \in [ThreadId -> ThreadBlock]
          /\ suspended \in [ThreadId -> 0 .. MaxSuspend]
      BY ThreadsAssumption, BlockTypes DEF Init, ThreadsInit
    <3>4. frame \in [ThreadId -> [cond : Conds \cup {NoObject},
                                 mutex : MutexId \cup {NoObject},
                                 timed : BOOLEAN]]
      BY DEF Init, ThreadsInit, NoFrame
    <3>5. \A t \in ThreadId \ Existing :
            blockedBy[t] = NotBlocked /\ suspended[t] = 0 /\ frame[t] = NoFrame
      BY DEF Init, ThreadsInit
    <3> QED
      BY <3>1, <3>2, <3>3, <3>4, <3>5 DEF TableTypeOK
  <2> QED
    BY <2>1, <2>2, <2>3 DEF ThreadsTypeOK
<1>2. MutexTypeOK
  BY MutexAssumption
  DEF Init, MutexInit, MutexTypeOK, MutexType, MutexId
<1>3. CondTypeOK
  BY DEF Init, CondInit, CondTypeOK
<1>4. SemTypeOK
  BY SemaphoreAssumption DEF Init, SemaphoreInit, SemTypeOK
<1>5. grace \in 0 .. MaxGrace
  BY SchedulerAssumption DEF Init
<1> QED
  BY <1>1, <1>2, <1>3, <1>4, <1>5 DEF TypeOK

\* A component that a step leaves alone keeps its type.
LEMMA UnchangedType ==
    /\ ThreadsTypeOK /\ UNCHANGED threadVars => ThreadsTypeOK'
    /\ MutexTypeOK /\ UNCHANGED mutexVars => MutexTypeOK'
    /\ CondTypeOK /\ UNCHANGED condVars => CondTypeOK'
    /\ SemTypeOK /\ UNCHANGED semVars => SemTypeOK'
BY DEF ThreadsTypeOK, PhaseTypeOK, PositionTypeOK, TableTypeOK, threadVars,
       Existing, MutexTypeOK, mutexVars, CondTypeOK, condVars, SemTypeOK,
       semVars

\* The phase and the position of the scan after a yield, a panic or nothing.
LEMMA PhaseType ==
    /\ PhaseTypeOK /\ EnterScheduler => PhaseTypeOK'
    /\ PhaseTypeOK /\ HostPanic => PhaseTypeOK'
    /\ PhaseTypeOK /\ UNCHANGED schedVars => PhaseTypeOK'
    /\ PositionTypeOK /\ len' = len /\ EnterScheduler => PositionTypeOK'
    /\ PositionTypeOK /\ len' = len /\ HostPanic => PositionTypeOK'
    /\ PositionTypeOK /\ len' = len /\ UNCHANGED schedVars => PositionTypeOK'
<1>1. /\ PhaseTypeOK /\ EnterScheduler => PhaseTypeOK'
      /\ PhaseTypeOK /\ HostPanic => PhaseTypeOK'
      /\ PhaseTypeOK /\ UNCHANGED schedVars => PhaseTypeOK'
  BY DEF PhaseTypeOK, EnterScheduler, HostPanic, schedVars
<1>2. /\ PositionTypeOK /\ len' = len /\ EnterScheduler => PositionTypeOK'
      /\ PositionTypeOK /\ len' = len /\ HostPanic => PositionTypeOK'
      /\ PositionTypeOK /\ len' = len /\ UNCHANGED schedVars => PositionTypeOK'
  BY DEF PositionTypeOK, EnterScheduler, HostPanic, schedVars, Existing
<1> QED
  BY <1>1, <1>2

\* The calls of module Threads keep the type of the thread table.
LEMMA ThreadStepType == ThreadsTypeOK /\ ThreadStep => ThreadsTypeOK'
<1> SUFFICES ASSUME ThreadsTypeOK, ThreadStep PROVE ThreadsTypeOK'
  OBVIOUS
<1>0. PhaseTypeOK /\ PositionTypeOK /\ TableTypeOK
  BY DEF ThreadsTypeOK
<1>1. CASE Preempt
  <2>1. PhaseTypeOK' /\ PositionTypeOK'
    BY <1>0, <1>1, PhaseType DEF Preempt, YieldThread
  <2>2. TableTypeOK'
    BY <1>0, <1>1, BlockTypes
    DEF Preempt, YieldThread, TableTypeOK, PositionTypeOK, Existing
  <2> QED
    BY <2>1, <2>2 DEF ThreadsTypeOK
<1>2. CASE NewThread
  <2>1. PhaseTypeOK'
    BY <1>0, <1>2, PhaseType DEF NewThread
  <2>2. PositionTypeOK'
    BY <1>0, <1>2, ThreadsAssumption
    DEF NewThread, PositionTypeOK, Existing, schedVars
  <2>3. TableTypeOK'
    BY <1>0, <1>2, BlockTypes, ThreadsAssumption
    DEF NewThread, TableTypeOK, PositionTypeOK, Existing, ThreadId
  <2> QED
    BY <2>1, <2>2, <2>3 DEF ThreadsTypeOK
<1>3. CASE ThreadExit
  <2>1. PhaseTypeOK' /\ PositionTypeOK'
    BY <1>0, <1>3, PhaseType DEF ThreadExit
  <2>2. TableTypeOK'
    BY <1>0, <1>3 DEF ThreadExit, TableTypeOK, PositionTypeOK, Existing
  <2> QED
    BY <2>1, <2>2 DEF ThreadsTypeOK
<1>4. CASE Sleep
  <2>1. PhaseTypeOK' /\ PositionTypeOK'
    BY <1>0, <1>4, PhaseType DEF Sleep, YieldThread
  <2>2. TableTypeOK'
    BY <1>0, <1>4, BlockTypes
    DEF Sleep, YieldThread, TableTypeOK, PositionTypeOK, Existing
  <2> QED
    BY <2>1, <2>2 DEF ThreadsTypeOK
<1>5. ASSUME NEW t \in ThreadId, JoinWithThread(t) PROVE ThreadsTypeOK'
  <2>1. PhaseTypeOK' /\ PositionTypeOK'
    BY <1>0, <1>5, PhaseType DEF JoinWithThread, YieldThread
  <2>2. TableTypeOK'
    BY <1>0, <1>5, BlockTypes
    DEF JoinWithThread, YieldThread, TableTypeOK, PositionTypeOK, Existing
  <2> QED
    BY <2>1, <2>2 DEF ThreadsTypeOK
<1>6. ASSUME NEW t \in ThreadId, SuspendThread(t) PROVE ThreadsTypeOK'
  <2>1. PhaseTypeOK' /\ PositionTypeOK'
    BY <1>0, <1>6, PhaseType DEF SuspendThread
  <2>2. TableTypeOK'
    BY <1>0, <1>6, ThreadsAssumption DEF SuspendThread, TableTypeOK, Existing
  <2> QED
    BY <2>1, <2>2 DEF ThreadsTypeOK
<1>7. ASSUME NEW t \in ThreadId, ResumeThread(t) PROVE ThreadsTypeOK'
  <2>1. PhaseTypeOK' /\ PositionTypeOK'
    BY <1>0, <1>7, PhaseType DEF ResumeThread
  <2>2. TableTypeOK'
    BY <1>0, <1>7, ThreadsAssumption DEF ResumeThread, TableTypeOK, Existing
  <2> QED
    BY <2>1, <2>2 DEF ThreadsTypeOK
<1> QED
  BY <1>1, <1>2, <1>3, <1>4, <1>5, <1>6, <1>7 DEF ThreadStep

\* The lock state after it was taken, released or handed over.
LEMMA LockType ==
    ASSUME MutexTypeOK, NEW m \in MutexId
    PROVE  /\ \A t \in ThreadId : Take(t, m) /\ UNCHANGED lockVars => MutexTypeOK'
           /\ \A t \in ThreadId : RelockUnblockedMutex(t, m) => MutexTypeOK'
           /\ owner[m] # NoThread /\ Release(m) /\ UNCHANGED lockVars => MutexTypeOK'
<1> USE MutexAssumption, ThreadsAssumption DEF MutexTypeOK, lockVars
<1>1. ASSUME NEW t \in ThreadId, Take(t, m), UNCHANGED lockVars PROVE MutexTypeOK'
  BY <1>1 DEF Take
<1>2. ASSUME NEW t \in ThreadId, RelockUnblockedMutex(t, m) PROVE MutexTypeOK'
  BY <1>2 DEF Take, RelockUnblockedMutex
<1>3. ASSUME owner[m] # NoThread, Release(m), UNCHANGED lockVars PROVE MutexTypeOK'
  BY <1>3 DEF Release
<1> QED
  BY <1>1, <1>2, <1>3

\* The calls on mutexes keep the types.
LEMMA MutexStepType ==
    ThreadsTypeOK /\ MutexTypeOK /\ MutexStep => ThreadsTypeOK' /\ MutexTypeOK'
<1> SUFFICES ASSUME ThreadsTypeOK, MutexTypeOK, MutexStep
             PROVE  ThreadsTypeOK' /\ MutexTypeOK'
  OBVIOUS
<1>0. PhaseTypeOK /\ PositionTypeOK /\ TableTypeOK /\ current \in ThreadId
  BY ThreadsAssumption
  DEF ThreadsTypeOK, PositionTypeOK, Existing, ThreadId
<1>1. ASSUME NEW type \in MutexTypes, InitMutex(type)
      PROVE  ThreadsTypeOK' /\ MutexTypeOK'
  <2>1. ThreadsTypeOK'
    BY <1>1, UnchangedType DEF InitMutex
  <2>2. MutexTypeOK'
    BY <1>1, MutexAssumption DEF InitMutex, MutexTypeOK, MutexId
  <2> QED
    BY <2>1, <2>2
<1>2. ASSUME NEW m \in MutexId, DestroyMutex(m)
      PROVE  ThreadsTypeOK' /\ MutexTypeOK'
  <2>1. ThreadsTypeOK'
    BY <1>2, UnchangedType DEF DestroyMutex
  <2>2. MutexTypeOK'
    BY <1>2 DEF DestroyMutex, MutexTypeOK
  <2> QED
    BY <2>1, <2>2
<1>3. ASSUME NEW m \in MutexId, LockMutex(m)
      PROVE  ThreadsTypeOK' /\ MutexTypeOK'
  <2>1. CASE /\ owner[m] = NoThread
             /\ Take(current, m)
             /\ UNCHANGED <<lockVars, threadVars>>
    BY <1>0, <2>1, LockType, UnchangedType
  <2>2. CASE /\ owner[m] = current
             /\ lockCount[m] < MaxLockCount
             /\ lockCount' = [lockCount EXCEPT ![m] = @ + 1]
             /\ UNCHANGED <<owner, lockVars, threadVars>>
    <3>1. MutexTypeOK'
      BY <1>0, <2>2, MutexAssumption, ThreadsAssumption
      DEF MutexTypeOK, lockVars, ThreadId
    <3> QED
      BY <2>2, <3>1, UnchangedType
  <2>3. CASE /\ waitingCount' = [waitingCount EXCEPT ![m] = @ + 1]
             /\ YieldThread(OnMutex(m))
             /\ UNCHANGED <<mutexCount, mutexes, mutexType, owner, lockCount,
                            len, active, suspended, frame>>
    <3>1. MutexTypeOK'
      BY <2>3 DEF MutexTypeOK
    <3>2. PhaseTypeOK' /\ PositionTypeOK'
      BY <1>0, <2>3, PhaseType DEF YieldThread
    <3>3. TableTypeOK'
      BY <1>0, <2>3, BlockTypes
      DEF YieldThread, TableTypeOK, PositionTypeOK, Existing
    <3> QED
      BY <3>1, <3>2, <3>3 DEF ThreadsTypeOK
  <2> QED
    BY <1>3, <2>1, <2>2, <2>3 DEF LockMutex
<1>4. ASSUME NEW m \in MutexId, UnlockMutex(m)
      PROVE  ThreadsTypeOK' /\ MutexTypeOK'
  BY <1>4, LockType, UnchangedType DEF UnlockMutex, MayUnlock
<1> QED
  BY <1>1, <1>2, <1>3, <1>4 DEF MutexStep

\* The calls on semaphores keep the types.
LEMMA SemStepType ==
    ThreadsTypeOK /\ SemTypeOK /\ SemStep => ThreadsTypeOK' /\ SemTypeOK'
<1> SUFFICES ASSUME ThreadsTypeOK, SemTypeOK, NEW s \in Sems,
                    \/ \E value \in 0 .. MaxValue : SemInit(s, value)
                    \/ SemDestroy(s)
                    \/ SemPost(s)
                    \/ SemWait(s)
             PROVE  ThreadsTypeOK' /\ SemTypeOK'
  BY DEF SemStep
<1>0. PhaseTypeOK /\ PositionTypeOK /\ TableTypeOK /\ current \in ThreadId
  BY ThreadsAssumption
  DEF ThreadsTypeOK, PositionTypeOK, Existing, ThreadId
<1>1. ASSUME NEW value \in 0 .. MaxValue, SemInit(s, value)
      PROVE  ThreadsTypeOK' /\ SemTypeOK'
  BY <1>1, UnchangedType DEF SemInit, SemTypeOK
<1>2. CASE SemDestroy(s)
  BY <1>2, UnchangedType DEF SemDestroy, SemTypeOK
<1>3. CASE SemPost(s)
  <2>1. SemTypeOK'
    BY <1>3, SemaphoreAssumption DEF SemPost, SemTypeOK
  <2> QED
    BY <1>3, <2>1, UnchangedType DEF SemPost
<1>4. CASE SemWait(s)
  <2>1. CASE /\ semValue[s] > 0
             /\ semValue' = [semValue EXCEPT ![s] = @ - 1]
             /\ UNCHANGED <<openSems, semWaiting, threadVars>>
    <3>1. SemTypeOK'
      BY <2>1, SemaphoreAssumption DEF SemTypeOK
    <3> QED
      BY <2>1, <3>1, UnchangedType
  <2>2. CASE /\ semWaiting' = [semWaiting EXCEPT ![s] = @ \cup {current}]
             /\ YieldThread(OnSemaphore(s))
             /\ UNCHANGED <<openSems, semValue, len, active, suspended, frame>>
    <3>1. SemTypeOK'
      BY <1>0, <2>2 DEF SemTypeOK
    <3>2. PhaseTypeOK' /\ PositionTypeOK'
      BY <1>0, <2>2, PhaseType DEF YieldThread
    <3>3. TableTypeOK'
      BY <1>0, <2>2, BlockTypes
      DEF YieldThread, TableTypeOK, PositionTypeOK, Existing
    <3> QED
      BY <3>1, <3>2, <3>3 DEF ThreadsTypeOK
  <2> QED
    BY <1>4, <2>1, <2>2 DEF SemWait
<1> QED
  BY <1>1, <1>2, <1>3, <1>4

\* The calls on condition variables keep the types.
LEMMA CondStepType ==
    ThreadsTypeOK /\ MutexTypeOK /\ CondTypeOK /\ CondStep
        => ThreadsTypeOK' /\ MutexTypeOK' /\ CondTypeOK'
<1> SUFFICES ASSUME ThreadsTypeOK, MutexTypeOK, CondTypeOK, CondStep
             PROVE  ThreadsTypeOK' /\ MutexTypeOK' /\ CondTypeOK'
  OBVIOUS
<1>0. PhaseTypeOK /\ PositionTypeOK /\ TableTypeOK /\ current \in ThreadId
  BY ThreadsAssumption
  DEF ThreadsTypeOK, PositionTypeOK, Existing, ThreadId
<1>1. CASE PthreadCondReturn
  <2>1. PhaseTypeOK' /\ PositionTypeOK'
    BY <1>0, <1>1, PhaseType DEF PthreadCondReturn
  <2>2. TableTypeOK'
    <3>1. NoFrame \in [cond : Conds \cup {NoObject},
                       mutex : MutexId \cup {NoObject}, timed : BOOLEAN]
      BY DEF NoFrame
    <3>2. frame' = frame \/ frame' = [frame EXCEPT ![current] = NoFrame]
      BY <1>1 DEF PthreadCondReturn
    <3> QED
      BY <1>0, <1>1, <3>1, <3>2 DEF PthreadCondReturn, TableTypeOK, Existing
  <2>3. CondTypeOK'
    BY <1>1 DEF PthreadCondReturn, CondTypeOK
  <2> QED
    BY <1>1, <2>1, <2>2, <2>3, UnchangedType DEF PthreadCondReturn, ThreadsTypeOK
<1>2. ASSUME NEW c \in Conds, PthreadCondInit(c)
      PROVE  ThreadsTypeOK' /\ MutexTypeOK' /\ CondTypeOK'
  BY <1>2, UnchangedType DEF PthreadCondInit, CondTypeOK
<1>3. ASSUME NEW c \in Conds, PthreadCondDestroy(c)
      PROVE  ThreadsTypeOK' /\ MutexTypeOK' /\ CondTypeOK'
  <2>1. PhaseTypeOK' /\ PositionTypeOK'
    BY <1>0, <1>3, PhaseType DEF PthreadCondDestroy, CondGone
  <2>2. TableTypeOK'
    BY <1>0, <1>3 DEF PthreadCondDestroy, TableTypeOK, Existing
  <2>3. CondTypeOK'
    BY <1>3 DEF PthreadCondDestroy, CondGone, CondTypeOK, condVars
  <2> QED
    BY <1>3, <2>1, <2>2, <2>3, UnchangedType DEF PthreadCondDestroy, ThreadsTypeOK
<1>4. ASSUME NEW c \in Conds, CondGone(c), UNCHANGED mutexVars
      PROVE  ThreadsTypeOK' /\ MutexTypeOK' /\ CondTypeOK'
  <2>1. PhaseTypeOK' /\ PositionTypeOK'
    BY <1>0, <1>4, PhaseType DEF CondGone
  <2>2. TableTypeOK'
    BY <1>0, <1>4 DEF CondGone, TableTypeOK, Existing
  <2>3. CondTypeOK'
    BY <1>4 DEF CondGone, CondTypeOK, condVars
  <2> QED
    BY <1>4, <2>1, <2>2, <2>3, UnchangedType DEF ThreadsTypeOK
<1>5. ASSUME NEW c \in Conds, PthreadCondSignal(c) \/ PthreadCondBroadcast(c)
      PROVE  ThreadsTypeOK' /\ MutexTypeOK' /\ CondTypeOK'
  <2>1. CASE CondGone(c)
    BY <1>4, <1>5, <2>1 DEF PthreadCondSignal, PthreadCondBroadcast
  <2>2. CASE PthreadCondSignal(c) /\ ~ CondGone(c)
    <3>1. /\ Tail(waiting[c]) \in Seq(ThreadId)
          /\ Append(waking[c], Head(waiting[c])) \in Seq(ThreadId)
      BY <2>2, QueueTail, QueueAppend DEF PthreadCondSignal, CondTypeOK
    <3>2. CondTypeOK'
      <4>1. /\ waking' = [waking EXCEPT ![c] = Append(@, Head(waiting[c]))]
            /\ waiting' = [waiting EXCEPT ![c] = Tail(@)]
            /\ UNCHANGED <<conds, currMutex, timedOut>>
        BY <2>2 DEF PthreadCondSignal
      <4> QED
        BY <3>1, <4>1 DEF CondTypeOK
    <3> QED
      BY <2>2, <3>2, UnchangedType DEF PthreadCondSignal
  <2>3. CASE PthreadCondBroadcast(c) /\ ~ CondGone(c)
    <3>1. CondTypeOK'
      <4>1. /\ waking' = [waking EXCEPT ![c] = @ \o waiting[c]]
            /\ waiting' = [waiting EXCEPT ![c] = <<>>]
            /\ UNCHANGED <<conds, currMutex, timedOut>>
        BY <2>3 DEF PthreadCondBroadcast
      <4>2. waking[c] \o waiting[c] \in Seq(ThreadId) /\ <<>> \in Seq(ThreadId)
        BY DEF CondTypeOK
      <4> QED
        BY <4>1, <4>2 DEF CondTypeOK
    <3> QED
      BY <2>3, <3>1, UnchangedType DEF PthreadCondBroadcast
  <2> QED
    BY <1>5, <2>1, <2>2, <2>3
<1>6. ASSUME NEW c \in Conds, NEW m \in MutexId, NEW timed \in BOOLEAN,
             PthreadCondWait(c, m, timed)
      PROVE  ThreadsTypeOK' /\ MutexTypeOK' /\ CondTypeOK'
  <2>1. MutexTypeOK'
    BY <1>6, LockType DEF PthreadCondWait, MayUnlock
  <2>2. PhaseTypeOK' /\ PositionTypeOK'
    BY <1>0, <1>6, PhaseType DEF PthreadCondWait, CondGone, YieldThread
  <2>3. TableTypeOK'
    <3>1. CASE UNCHANGED <<blockedBy, frame>>
      BY <1>0, <1>6, <3>1 DEF PthreadCondWait, TableTypeOK, Existing
    <3>2. CASE /\ blockedBy' = [blockedBy EXCEPT ![current] = OnCond(c, timed)]
               /\ frame' = [frame EXCEPT ![current] = Frame(c, m, timed)]
      <4>1. /\ OnCond(c, timed) \in ThreadBlock
            /\ Frame(c, m, timed) \in [cond : Conds \cup {NoObject},
                                       mutex : MutexId \cup {NoObject},
                                       timed : BOOLEAN]
        BY BlockTypes DEF Frame
      <4> QED
        BY <1>0, <1>6, <3>2, <4>1
        DEF PthreadCondWait, TableTypeOK, PositionTypeOK, Existing
    <3> QED
      BY <1>6, <3>1, <3>2 DEF PthreadCondWait, CondGone, YieldThread
  <2>4. CondTypeOK'
    <3>1. Append(waiting[c], current) \in Seq(ThreadId)
      BY <1>0, QueueAppend DEF CondTypeOK
    <3> QED
      BY <1>6, <3>1 DEF PthreadCondWait, CondGone, CondTypeOK, condVars
  <2> QED
    BY <2>1, <2>2, <2>3, <2>4 DEF ThreadsTypeOK
<1> QED
  BY <1>1, <1>2, <1>3, <1>4, <1>5, <1>6 DEF CondStep

-----------------------------------------------------------------------------
\* The scheduler's own steps: scanning on, dispatching, relocking.
LEMMA ScanType ==
    /\ \A deadline \in BOOLEAN :
        ThreadsTypeOK /\ scan < len /\ KeepScanning(deadline)
            /\ UNCHANGED <<len, active, blockedBy, suspended, frame>>
          => ThreadsTypeOK'
    /\ \A t \in ThreadId :
        ThreadsTypeOK /\ active[t] /\ Dispatch(t)
            /\ UNCHANGED <<len, active, suspended, frame>>
          => ThreadsTypeOK'
    /\ ThreadsTypeOK /\ HostPanic
            /\ UNCHANGED <<len, active, blockedBy, suspended, frame>>
          => ThreadsTypeOK'
    /\ ThreadsTypeOK /\ EnterScheduler
            /\ UNCHANGED <<len, active, blockedBy, suspended, frame>>
          => ThreadsTypeOK'
<1>1. ASSUME NEW deadline \in BOOLEAN, ThreadsTypeOK, scan < len,
             KeepScanning(deadline),
             UNCHANGED <<len, active, blockedBy, suspended, frame>>
      PROVE  ThreadsTypeOK'
  <2>1. PhaseTypeOK'
    BY <1>1 DEF ThreadsTypeOK, PhaseTypeOK, KeepScanning
  <2>2. PositionTypeOK'
    BY <1>1 DEF ThreadsTypeOK, PositionTypeOK, KeepScanning, Existing
  <2>3. TableTypeOK'
    BY <1>1 DEF ThreadsTypeOK, TableTypeOK, Existing
  <2> QED
    BY <2>1, <2>2, <2>3 DEF ThreadsTypeOK
<1>2. ASSUME NEW t \in ThreadId, ThreadsTypeOK, active[t], Dispatch(t),
             UNCHANGED <<len, active, suspended, frame>>
      PROVE  ThreadsTypeOK'
  <2>1. PhaseTypeOK'
    BY <1>2 DEF ThreadsTypeOK, PhaseTypeOK, Dispatch
  <2>2. t \in Existing
    BY <1>2 DEF ThreadsTypeOK, TableTypeOK
  <2>3. PositionTypeOK'
    BY <1>2, <2>2 DEF ThreadsTypeOK, PositionTypeOK, Dispatch, Existing
  <2>4. TableTypeOK'
    BY <1>2, <2>2, BlockTypes DEF ThreadsTypeOK, TableTypeOK, Dispatch, Existing
  <2> QED
    BY <2>1, <2>3, <2>4 DEF ThreadsTypeOK
<1>3. ASSUME ThreadsTypeOK, HostPanic \/ EnterScheduler,
             UNCHANGED <<len, active, blockedBy, suspended, frame>>
      PROVE  ThreadsTypeOK'
  <2>1. PhaseTypeOK' /\ PositionTypeOK'
    BY <1>3, PhaseType DEF ThreadsTypeOK
  <2>2. TableTypeOK'
    BY <1>3 DEF ThreadsTypeOK, TableTypeOK, Existing
  <2> QED
    BY <2>1, <2>2 DEF ThreadsTypeOK
<1> QED
  BY <1>1, <1>2, <1>3

\* So does the scheduler when it relocks a mutex for a thread, or panics.
LEMMA RelockType ==
    ASSUME ThreadsTypeOK, MutexTypeOK, NEW t \in ThreadId, NEW m \in MutexId,
           active[t], Relock(t, m), UNCHANGED <<len, active, suspended, frame>>
    PROVE  ThreadsTypeOK' /\ MutexTypeOK'
<1>1. CASE m \in mutexes
  BY <1>1, LockType, ScanType DEF Relock
<1>2. CASE m \notin mutexes
  BY <1>2, UnchangedType, ScanType DEF Relock
<1> QED
  BY <1>1, <1>2

\* Every iteration of the scheduler keeps the type.
LEMMA ScanStepType == TypeOK /\ ScanStep => TypeOK'
<1> SUFFICES ASSUME TypeOK, ScanStep PROVE TypeOK'
  OBVIOUS
<1>0. /\ ThreadsTypeOK /\ MutexTypeOK /\ CondTypeOK /\ SemTypeOK
      /\ grace \in 0 .. MaxGrace
  BY DEF TypeOK
<1>1. CASE ScanSkip
  <2>1. ThreadsTypeOK'
    BY <1>0, <1>1, ScanType DEF ScanSkip
  <2> QED
    BY <1>0, <1>1, <2>1, UnchangedType DEF ScanSkip, TypeOK
<1>2. ASSUME NEW t \in ThreadId, ScanNotBlocked(t) PROVE TypeOK'
  <2>1. ThreadsTypeOK'
    BY <1>0, <1>2, ScanType DEF ScanNotBlocked, Examines
  <2> QED
    BY <1>0, <1>2, <2>1, UnchangedType DEF ScanNotBlocked, TypeOK
<1>3. ASSUME NEW t \in ThreadId, NEW expired \in BOOLEAN, ScanSleeping(t, expired)
      PROVE  TypeOK'
  <2>1. ThreadsTypeOK'
    BY <1>0, <1>3, ScanType DEF ScanSleeping, Examines
  <2> QED
    BY <1>0, <1>3, <2>1, UnchangedType DEF ScanSleeping, TypeOK
<1>4. ASSUME NEW t \in ThreadId, ScanMutex(t) PROVE TypeOK'
  <2>1. ThreadsTypeOK' /\ MutexTypeOK'
    BY <1>0, <1>4, ScanType, UnchangedType, RelockType DEF ScanMutex, Examines
  <2> QED
    BY <1>0, <1>4, <2>1, UnchangedType DEF ScanMutex, TypeOK
<1>5. ASSUME NEW t \in ThreadId, ScanSemaphore(t) PROVE TypeOK'
  <2>1. ThreadsTypeOK'
    BY <1>0, <1>5, ScanType DEF ScanSemaphore, Examines
  <2>2. SemTypeOK'
    <3>1. PICK s \in Sems :
            \/ UNCHANGED semVars
            \/ /\ semValue[s] > 0
               /\ semValue' = [semValue EXCEPT ![s] = @ - 1]
               /\ semWaiting' = [semWaiting EXCEPT ![s] = @ \ {current}]
               /\ UNCHANGED openSems
      BY <1>5 DEF ScanSemaphore
    <3> QED
      BY <1>0, <3>1, SemaphoreAssumption DEF SemTypeOK, semVars
  <2> QED
    BY <1>0, <1>5, <2>1, <2>2, UnchangedType DEF ScanSemaphore, TypeOK
<1>6. ASSUME NEW t \in ThreadId, ScanJoining(t) PROVE TypeOK'
  <2>1. ThreadsTypeOK'
    BY <1>0, <1>6, ScanType DEF ScanJoining, Examines
  <2> QED
    BY <1>0, <1>6, <2>1, UnchangedType DEF ScanJoining, TypeOK
<1>7. ASSUME NEW t \in ThreadId, NEW c \in Conds, ScanCondGone(t, c) PROVE TypeOK'
  <2>1. ThreadsTypeOK'
    BY <1>0, <1>7, ScanType DEF ScanCondGone
  <2> QED
    BY <1>0, <1>7, <2>1, UnchangedType DEF ScanCondGone, TypeOK
<1>8. ASSUME NEW t \in ThreadId, NEW c \in Conds, ScanCondWake(t, c) PROVE TypeOK'
  <2>1. currMutex[c] \in MutexId /\ Tail(waking[c]) \in Seq(ThreadId)
    BY <1>0, <1>8, QueueTail DEF ScanCondWake, MayWake, CondTypeOK
  <2>2. ThreadsTypeOK' /\ MutexTypeOK'
    BY <1>0, <1>8, <2>1, RelockType DEF ScanCondWake, ExaminesWaiter, Examines
  <2>3. CondTypeOK'
    BY <1>0, <1>8, <2>1 DEF ScanCondWake, CondTypeOK
  <2> QED
    BY <1>0, <1>8, <2>2, <2>3, UnchangedType DEF ScanCondWake, TypeOK
<1>9. ASSUME NEW t \in ThreadId, NEW c \in Conds, ScanCondTimeout(t, c) PROVE TypeOK'
  <2>1. currMutex[c] \in MutexId
    BY <1>0, <1>9 DEF ScanCondTimeout, CondTypeOK
  <2>2. CASE t \in timedOut[c]
    BY <1>0, <1>9, <2>2, ScanType, UnchangedType DEF ScanCondTimeout, TypeOK
  <2>3. CASE t \notin timedOut[c]
    <3>1. CondTypeOK'
      <4>1. /\ Without(waking[c], t) \in Seq(ThreadId)
            /\ Without(waiting[c], t) \in Seq(ThreadId)
        BY <1>0, QueueWithout DEF CondTypeOK
      <4>2. /\ timedOut' = [timedOut EXCEPT ![c] = @ \cup {t}]
            /\ waking' = [waking EXCEPT ![c] = Without(@, t)]
            /\ waiting' = [waiting EXCEPT ![c] = Without(@, t)]
            /\ UNCHANGED <<conds, currMutex>>
        BY <1>9, <2>3 DEF ScanCondTimeout
      <4> QED
        BY <1>0, <4>1, <4>2 DEF CondTypeOK
    <3>2. CASE MutexIsLocked(currMutex[c])
      <4>1. PhaseTypeOK' /\ PositionTypeOK'
        <5>1. PhaseTypeOK'
          BY <1>0, <1>9, <2>3, <3>2
          DEF ScanCondTimeout, KeepScanning, ThreadsTypeOK, PhaseTypeOK
        <5>2. PositionTypeOK'
          BY <1>0, <1>9, <2>3, <3>2
          DEF ScanCondTimeout, ExaminesWaiter, Examines, KeepScanning,
              ThreadsTypeOK, PositionTypeOK, Existing
        <5> QED
          BY <5>1, <5>2
      <4>2. TableTypeOK'
        BY <1>0, <1>9, <2>1, <2>3, <3>2, BlockTypes
        DEF ScanCondTimeout, ExaminesWaiter, Examines, ThreadsTypeOK,
            TableTypeOK, Existing
      <4>3. MutexTypeOK'
        BY <1>0, <1>9, <2>3, <3>2, UnchangedType DEF ScanCondTimeout
      <4> QED
        BY <1>0, <1>9, <3>1, <4>1, <4>2, <4>3, UnchangedType
        DEF ScanCondTimeout, ThreadsTypeOK, TypeOK
    <3>3. CASE ~ MutexIsLocked(currMutex[c])
      <4>1. ThreadsTypeOK' /\ MutexTypeOK'
        BY <1>0, <1>9, <2>1, <2>3, <3>3, RelockType
        DEF ScanCondTimeout, ExaminesWaiter, Examines
      <4> QED
        BY <1>0, <1>9, <3>1, <4>1, UnchangedType DEF ScanCondTimeout, TypeOK
    <3> QED
      BY <3>2, <3>3
  <2> QED
    BY <2>2, <2>3
<1>10. ASSUME NEW t \in ThreadId, NEW c \in Conds, ScanCondWait(t, c) PROVE TypeOK'
  <2>1. ThreadsTypeOK'
    BY <1>0, <1>10, ScanType DEF ScanCondWait, ExaminesWaiter, Examines
  <2> QED
    BY <1>0, <1>10, <2>1, UnchangedType DEF ScanCondWait, TypeOK
<1>11. CASE SleepUntilAwakening
  <2>1. ThreadsTypeOK'
    BY <1>0, <1>11, ScanType DEF SleepUntilAwakening
  <2> QED
    BY <1>0, <1>11, <2>1, UnchangedType DEF SleepUntilAwakening, TypeOK
<1>12. CASE DeclareDeadlock
  <2>1. ThreadsTypeOK'
    <3>1. CASE EnterScheduler
      BY <1>0, <1>12, <3>1, ScanType DEF DeclareDeadlock
    <3>2. CASE phase' = "deadlock" /\ UNCHANGED <<current, scan, awakening>>
      BY <1>0, <1>12, <3>2
      DEF DeclareDeadlock, ThreadsTypeOK, PhaseTypeOK, PositionTypeOK,
          TableTypeOK, Existing
    <3> QED
      BY <1>12, <3>1, <3>2 DEF DeclareDeadlock
  <2>2. grace' \in 0 .. MaxGrace
    BY <1>0, <1>12, SchedulerAssumption DEF DeclareDeadlock
  <2> QED
    BY <1>0, <1>12, <2>1, <2>2, UnchangedType DEF DeclareDeadlock, TypeOK
<1> QED
  BY <1>1, <1>2, <1>3, <1>4, <1>5, <1>6, <1>7, <1>8, <1>9, <1>10, <1>11, <1>12
  DEF ScanStep

\* The type is inductive.
LEMMA NextType == TypeOK /\ [Next]_vars => TypeOK'
<1> SUFFICES ASSUME TypeOK, [Next]_vars PROVE TypeOK'
  OBVIOUS
<1>0. /\ ThreadsTypeOK /\ MutexTypeOK /\ CondTypeOK /\ SemTypeOK
      /\ grace \in 0 .. MaxGrace
  BY DEF TypeOK
<1>1. CASE ScanStep
  BY <1>1, ScanStepType
<1>2. CASE ThreadStep /\ UNCHANGED <<mutexVars, condVars, semVars, grace>>
  BY <1>0, <1>2, ThreadStepType, UnchangedType DEF TypeOK
<1>3. CASE MutexStep /\ UNCHANGED <<condVars, semVars, grace>>
  BY <1>0, <1>3, MutexStepType, UnchangedType DEF TypeOK
<1>4. CASE CondStep /\ UNCHANGED <<semVars, grace>>
  BY <1>0, <1>4, CondStepType, UnchangedType DEF TypeOK
<1>5. CASE SemStep /\ UNCHANGED <<mutexVars, condVars, grace>>
  BY <1>0, <1>5, SemStepType, UnchangedType DEF TypeOK
<1>6. CASE UNCHANGED vars
  BY <1>0, <1>6, UnchangedType DEF vars, TypeOK
<1> QED
  BY <1>1, <1>2, <1>3, <1>4, <1>5, <1>6 DEF Next, GuestStep

\* Whatever preconditions the guest breaks, every variable keeps its type,
\* blank entries of the thread table stay blank, and a mutex has an owner
\* exactly while its lock count is not 0.
THEOREM TypeCorrect == Spec => []TypeOK
BY InitType, NextType, PTL DEF Spec

-----------------------------------------------------------------------------
(***************************************************************************)
(* The running thread is never blocked.  A step leaves it alone, or stops  *)
(* it, or is the scheduler's dispatch of a thread that it examined.        *)
(***************************************************************************)
LeavesRunner == UNCHANGED <<phase, current, active, blockedBy, suspended>>

StopsRunner == phase' # "run"

DispatchesRunner ==
    \E t \in ThreadId :
        Examines(t) /\ Dispatch(t) /\ UNCHANGED <<active, suspended>>

\* A step that hands over to the scheduler, stops the emulator, dispatches a
\* thread or leaves the runner alone keeps it unblocked.
LEMMA RunnerKept ==
    TypeOK /\ RunnerUnblocked /\ (LeavesRunner \/ StopsRunner \/ DispatchesRunner)
        => RunnerUnblocked'
<1> SUFFICES ASSUME TypeOK, RunnerUnblocked,
                    LeavesRunner \/ StopsRunner \/ DispatchesRunner
             PROVE  RunnerUnblocked'
  OBVIOUS
<1>1. CASE LeavesRunner
  BY <1>1 DEF LeavesRunner, RunnerUnblocked
<1>2. CASE StopsRunner
  BY <1>2 DEF StopsRunner, RunnerUnblocked
<1>3. CASE DispatchesRunner
  BY <1>3 DEF DispatchesRunner, Examines, Dispatch, RunnerUnblocked, TypeOK,
              ThreadsTypeOK, TableTypeOK
<1> QED
  BY <1>1, <1>2, <1>3

\* Every call of the guest is a step of these kinds.
LEMMA GuestRunner ==
    TypeOK /\ RunnerUnblocked /\ (ThreadStep \/ MutexStep \/ CondStep \/ SemStep)
        => RunnerUnblocked'
<1> SUFFICES ASSUME TypeOK, RunnerUnblocked,
                    ThreadStep \/ MutexStep \/ CondStep \/ SemStep
             PROVE  RunnerUnblocked'
  OBVIOUS
<1>1. CASE ThreadStep
  <2>1. CASE Preempt \/ ThreadExit \/ Sleep \/ \E t \in ThreadId : JoinWithThread(t)
    BY <2>1, RunnerKept
    DEF Preempt, ThreadExit, Sleep, JoinWithThread, YieldThread,
        EnterScheduler, StopsRunner
  <2>2. CASE NewThread
    <3>1. current # len
      BY DEF TypeOK, ThreadsTypeOK, PositionTypeOK, Existing
    <3> QED
      BY <2>2, <3>1 DEF NewThread, schedVars, RunnerUnblocked, TypeOK,
                        ThreadsTypeOK, TableTypeOK
  <2>3. ASSUME NEW t \in ThreadId, SuspendThread(t) PROVE RunnerUnblocked'
    BY <2>3 DEF SuspendThread, EnterScheduler, schedVars, RunnerUnblocked,
                TypeOK, ThreadsTypeOK, TableTypeOK
  <2>4. ASSUME NEW t \in ThreadId, ResumeThread(t) PROVE RunnerUnblocked'
    BY <2>4 DEF ResumeThread, Calls, schedVars, RunnerUnblocked, TypeOK,
                ThreadsTypeOK, TableTypeOK
  <2> QED
    BY <1>1, <2>1, <2>2, <2>3, <2>4 DEF ThreadStep
<1>2. CASE MutexStep
  BY <1>2, RunnerKept
  DEF MutexStep, InitMutex, DestroyMutex, LockMutex, UnlockMutex, YieldThread,
      EnterScheduler, threadVars, LeavesRunner, StopsRunner
<1>3. CASE CondStep
  <2>1. CASE PthreadCondReturn
    BY <2>1, RunnerKept
    DEF PthreadCondReturn, HostPanic, schedVars, LeavesRunner, StopsRunner
  <2>2. ASSUME NEW c \in Conds,
               \/ PthreadCondInit(c)
               \/ PthreadCondDestroy(c)
               \/ PthreadCondSignal(c)
               \/ PthreadCondBroadcast(c)
               \/ \E m \in MutexId, timed \in BOOLEAN : PthreadCondWait(c, m, timed)
        PROVE  RunnerUnblocked'
    <3>1. LeavesRunner \/ StopsRunner
      BY <2>2
      DEF PthreadCondInit, PthreadCondDestroy, PthreadCondSignal,
          PthreadCondBroadcast, PthreadCondWait, CondGone, YieldThread,
          EnterScheduler, HostPanic, schedVars, threadVars, LeavesRunner, StopsRunner
    <3> QED
      BY <3>1, RunnerKept
  <2> QED
    BY <1>3, <2>1, <2>2 DEF CondStep
<1>4. CASE SemStep
  BY <1>4, RunnerKept
  DEF SemStep, SemInit, SemDestroy, SemPost, SemWait, YieldThread,
      EnterScheduler, threadVars, LeavesRunner, StopsRunner
<1> QED
  BY <1>1, <1>2, <1>3, <1>4

\* So is every iteration of the scheduler.
LEMMA ScanRunner == TypeOK /\ RunnerUnblocked /\ ScanStep => RunnerUnblocked'
<1> SUFFICES ASSUME TypeOK, RunnerUnblocked, ScanStep PROVE RunnerUnblocked'
  OBVIOUS
<1>2. StopsRunner \/ DispatchesRunner
  <2>1. CASE ScanSkip \/ SleepUntilAwakening \/ DeclareDeadlock
    BY <2>1
    DEF ScanSkip, KeepScanning, SleepUntilAwakening, DeclareDeadlock,
        EnterScheduler, StopsRunner, ScanDone
  <2>2. ASSUME NEW t \in ThreadId,
               \/ ScanNotBlocked(t)
               \/ \E expired \in BOOLEAN : ScanSleeping(t, expired)
               \/ ScanMutex(t)
               \/ ScanSemaphore(t)
               \/ ScanJoining(t)
        PROVE  StopsRunner \/ DispatchesRunner
    BY <2>2
    DEF ScanNotBlocked, ScanSleeping, ScanMutex, ScanSemaphore, ScanJoining,
        Relock, KeepScanning, HostPanic, Examines, StopsRunner,
        DispatchesRunner
  <2>3. ASSUME NEW t \in ThreadId, NEW c \in Conds,
               \/ ScanCondGone(t, c)
               \/ ScanCondWake(t, c)
               \/ ScanCondTimeout(t, c)
               \/ ScanCondWait(t, c)
        PROVE  StopsRunner \/ DispatchesRunner
    BY <2>3
    DEF ScanCondGone, ScanCondWake, ScanCondTimeout, ScanCondWait, Relock,
        KeepScanning, HostPanic, ExaminesWaiter, Examines, StopsRunner,
        DispatchesRunner
  <2> QED
    BY <2>1, <2>2, <2>3 DEF ScanStep
<1> QED
  BY <1>2, RunnerKept

\* RunnerUnblocked is inductive, given the type.
LEMMA RunnerStep == TypeOK /\ RunnerUnblocked /\ [Next]_vars => RunnerUnblocked'
<1>1. TypeOK /\ RunnerUnblocked /\ UNCHANGED vars => RunnerUnblocked'
  BY DEF vars, threadVars, RunnerUnblocked
<1> QED
  BY <1>1, GuestRunner, ScanRunner DEF Next, GuestStep

\* Whatever preconditions the guest breaks, the thread whose coroutine runs
\* is active, not blocked and not suspended: the assertions of yield_thread.
THEOREM RunnerIsUnblocked == Spec => []RunnerUnblocked
<1>1. Init => RunnerUnblocked
  <2> SUFFICES ASSUME Init PROVE RunnerUnblocked
    OBVIOUS
  <2>1. 0 \in ThreadId /\ current = 0
    BY ThreadsAssumption DEF Init, ThreadsInit, ThreadId
  <2>2. active[0]
    BY <2>1 DEF Init, ThreadsInit
  <2>3. blockedBy[0] = NotBlocked /\ suspended[0] = 0
    BY <2>1 DEF Init, ThreadsInit
  <2> QED
    BY <2>1, <2>2, <2>3 DEF RunnerUnblocked
<1> QED
  BY <1>1, RunnerStep, TypeCorrect, PTL DEF Spec

-----------------------------------------------------------------------------
(***************************************************************************)
(* The kinds of a ThreadBlock.                                             *)
(***************************************************************************)
IsWaiter(b) == \E c \in Conds, timed \in BOOLEAN : b = OnCond(c, timed)

\* The blocks that are not condition waits differ from those that are, and
\* those on mutexes from all others.
LEMMA BlockKinds ==
    /\ ~ IsWaiter(NotBlocked)
    /\ ~ IsWaiter(Sleeping)
    /\ \A t : ~ IsWaiter(Joining(t)) /\ ~ IsWaiter(OnMutex(t)) /\ ~ IsWaiter(OnSemaphore(t))
    /\ \A m : /\ OnMutex(m) # NotBlocked
              /\ OnMutex(m) # Sleeping
              /\ \A x : /\ OnMutex(m) # Joining(x)
                        /\ OnMutex(m) # OnSemaphore(x)
                        /\ OnMutex(m) = OnMutex(x) => m = x
    /\ \A s : /\ OnSemaphore(s) # NotBlocked
              /\ OnSemaphore(s) # Sleeping
              /\ \A x : /\ OnSemaphore(s) # Joining(x)
                        /\ OnSemaphore(s) = OnSemaphore(x) => s = x
BY DEF IsWaiter, NotBlocked, Sleeping, Joining, OnMutex, OnSemaphore, OnCond

\* A condition wait is no other block, and its block tells the variable and
\* whether there is a deadline.
LEMMA WaiterKinds ==
    \A c, d, timed, x :
        /\ OnCond(c, timed) # NotBlocked
        /\ OnCond(c, timed) # OnMutex(x)
        /\ OnCond(c, timed) # OnSemaphore(x)
        /\ timed \in BOOLEAN /\ x \in BOOLEAN /\ OnCond(c, timed) = OnCond(d, x)
             => c = d /\ timed = x
BY DEF NotBlocked, OnMutex, OnSemaphore, OnCond

\* What the type says of a single thread.
LEMMA ThreadTypes ==
    ASSUME TypeOK
    PROVE  /\ current \in ThreadId
           /\ Existing \subseteq ThreadId
           /\ \A t \in ThreadId : blockedBy[t] \in ThreadBlock
           /\ \A t \in ThreadId \ Existing : blockedBy[t] = NotBlocked /\ frame[t] = NoFrame
           /\ DOMAIN blockedBy = ThreadId /\ DOMAIN frame = ThreadId
BY ThreadsAssumption
DEF TypeOK, ThreadsTypeOK, PositionTypeOK, TableTypeOK, Existing, ThreadId

\* A call blocks its caller, which was not blocked, on something that only the
\* semaphore and the mutex calls block on, or nobody.
LEMMA ThreadStepBlocks ==
    ASSUME TypeOK, RunnerUnblocked, ThreadStep, NEW t \in ThreadId
    PROVE  \/ blockedBy'[t] = blockedBy[t]
           \/ /\ blockedBy[t] = NotBlocked
              /\ blockedBy'[t] = Sleeping \/ \E u \in ThreadId : blockedBy'[t] = Joining(u)
<1>0. /\ current \in ThreadId /\ blockedBy \in [ThreadId -> ThreadBlock]
      /\ phase = "run" => blockedBy[current] = NotBlocked
  BY ThreadTypes DEF RunnerUnblocked, TypeOK, ThreadsTypeOK, TableTypeOK
<1>1. CASE Preempt
  BY <1>0, <1>1 DEF Preempt, YieldThread
<1>2. CASE NewThread
  <2>1. len \in ThreadId \ Existing
    BY <1>2, ThreadsAssumption
    DEF NewThread, TypeOK, ThreadsTypeOK, PositionTypeOK, ThreadId, Existing
  <2>2. blockedBy[len] = NotBlocked
    BY <2>1, ThreadTypes
  <2> QED BY <1>0, <1>2, <2>2 DEF NewThread
<1>3. CASE ThreadExit
  BY <1>3 DEF ThreadExit
<1>4. CASE Sleep
  BY <1>0, <1>4 DEF Sleep, YieldThread, Calls
<1>5. ASSUME NEW u \in ThreadId, JoinWithThread(u)
      PROVE  \/ blockedBy'[t] = blockedBy[t]
             \/ blockedBy[t] = NotBlocked /\ blockedBy'[t] = Joining(u)
  BY <1>0, <1>5 DEF JoinWithThread, YieldThread, Calls
<1>6. CASE \E u \in ThreadId : SuspendThread(u) \/ ResumeThread(u)
  BY <1>6 DEF SuspendThread, ResumeThread
<1> QED BY <1>1, <1>2, <1>3, <1>4, <1>5, <1>6 DEF ThreadStep

-----------------------------------------------------------------------------
(***************************************************************************)
(* waiting_count, in a program without condition variables: a waiter that  *)
(* timed out goes on as a waiter of its mutex that nobody has counted.     *)
(***************************************************************************)
Lockers(m) == {t \in ThreadId : blockedBy[t] = OnMutex(m)}

\* Of every mutex, also of one that is destroyed or not yet initialised; nobody
\* waits for those.
CountsExact ==
    \A m \in MutexId : /\ waitingCount[m] = Cardinality(Lockers(m))
                       /\ Lockers(m) # {} => m \in mutexes

\* There are finitely many threads.
LEMMA LockersFinite ==
    ASSUME NEW m
    PROVE  IsFiniteSet(Lockers(m)) /\ IsFiniteSet(Lockers(m)')
<1>1. IsFiniteSet(ThreadId)
  BY ThreadsAssumption, FS_Interval DEF ThreadId
<1>2. Lockers(m) \subseteq ThreadId /\ Lockers(m)' \subseteq ThreadId
  BY DEF Lockers
<1> QED BY <1>1, <1>2, FS_Subset

\* The counts stay exact while nobody begins or ends to wait for a mutex.
LEMMA CountsKept ==
    ASSUME CountsExact, UNCHANGED waitingCount, mutexes \subseteq mutexes',
           \A t \in ThreadId, m \in MutexId :
               blockedBy'[t] = OnMutex(m) <=> blockedBy[t] = OnMutex(m)
    PROVE  CountsExact'
<1>1. \A m \in MutexId : Lockers(m)' = Lockers(m)
  BY DEF Lockers
<1> QED BY <1>1 DEF CountsExact

\* lock_mutex counts the thread that it blocks.
LEMMA CountsLock ==
    ASSUME TypeOK, RunnerUnblocked, CountsExact, NEW m \in MutexId, LockMutex(m)
    PROVE  CountsExact'
<1>0. /\ current \in ThreadId /\ blockedBy[current] = NotBlocked
      /\ blockedBy \in [ThreadId -> ThreadBlock] /\ waitingCount \in [MutexId -> Nat]
  BY ThreadTypes
  DEF RunnerUnblocked, TypeOK, ThreadsTypeOK, TableTypeOK, MutexTypeOK, LockMutex, Calls
<1>3. UNCHANGED mutexes /\ m \in mutexes
  BY DEF LockMutex, lockVars
<1>1. CASE UNCHANGED waitingCount /\ UNCHANGED blockedBy
  BY <1>1, <1>3, CountsKept
<1>2. CASE /\ waitingCount' = [waitingCount EXCEPT ![m] = @ + 1]
           /\ blockedBy' = [blockedBy EXCEPT ![current] = OnMutex(m)]
  <2>1. /\ current \notin Lockers(m) /\ Lockers(m)' = Lockers(m) \cup {current}
        /\ \A n \in MutexId \ {m} : Lockers(n)' = Lockers(n)
    BY <1>0, <1>2, BlockKinds DEF Lockers
  <2>2. Cardinality(Lockers(m)') = Cardinality(Lockers(m)) + 1
    BY <2>1, LockersFinite, FS_AddElement
  <2> QED BY <1>0, <1>2, <1>3, <2>1, <2>2 DEF CountsExact
<1> QED BY <1>1, <1>2 DEF LockMutex, lockVars, threadVars, YieldThread

\* The scheduler lets a counted waiter through, and uncounts it.
LEMMA CountsRelock ==
    ASSUME TypeOK, CountsExact, NEW t \in ThreadId, NEW m \in MutexId,
           blockedBy[t] = OnMutex(m), Relock(t, m)
    PROVE  CountsExact'
<1>0. /\ blockedBy \in [ThreadId -> ThreadBlock] /\ waitingCount \in [MutexId -> Nat]
  BY DEF TypeOK, ThreadsTypeOK, TableTypeOK, MutexTypeOK
<1>1. CASE m \notin mutexes
  BY <1>1, CountsKept DEF Relock, mutexVars
<1>2. CASE m \in mutexes
  <2>1. /\ waitingCount' = [waitingCount EXCEPT ![m] = IF @ > 0 THEN @ - 1 ELSE @]
        /\ blockedBy' = [blockedBy EXCEPT ![t] = NotBlocked]
        /\ UNCHANGED mutexes
    BY <1>2 DEF Relock, RelockUnblockedMutex, Dispatch
  <2>2. /\ t \in Lockers(m) /\ Lockers(m)' = Lockers(m) \ {t}
        /\ \A n \in MutexId \ {m} : Lockers(n)' = Lockers(n)
    BY <1>0, <2>1, BlockKinds DEF Lockers
  <2>3. /\ Cardinality(Lockers(m)') = Cardinality(Lockers(m)) - 1
        /\ Cardinality(Lockers(m)) \in Nat /\ Cardinality(Lockers(m)) # 0
    BY <2>2, LockersFinite, FS_RemoveElement, FS_CardinalityType, FS_EmptySet
  <2>4. waitingCount[m] = Cardinality(Lockers(m))
    BY DEF CountsExact
  <2>5. /\ waitingCount'[m] = waitingCount[m] - 1
        /\ \A n \in MutexId \ {m} : waitingCount'[n] = waitingCount[n]
    BY <1>0, <2>1, <2>3, <2>4
  <2>6. \A n \in MutexId : waitingCount'[n] = Cardinality(Lockers(n)')
    BY <2>2, <2>3, <2>4, <2>5 DEF CountsExact
  <2> QED BY <1>2, <2>1, <2>2, <2>6 DEF CountsExact
<1> QED BY <1>1, <1>2

\* Every step of a program without condition variables keeps the counts.
LEMMA CountsStep ==
    ASSUME Conds = {}, TypeOK, RunnerUnblocked, CountsExact, [Next]_vars
    PROVE  CountsExact'
<1>0. /\ current \in ThreadId /\ blockedBy \in [ThreadId -> ThreadBlock]
  BY ThreadTypes DEF TypeOK, ThreadsTypeOK, TableTypeOK
<1>1. CASE ThreadStep /\ UNCHANGED mutexVars
  <2>1. \A t \in ThreadId, m \in MutexId :
           blockedBy'[t] = OnMutex(m) <=> blockedBy[t] = OnMutex(m)
    BY <1>1, ThreadStepBlocks, BlockKinds
  <2> QED BY <1>1, <2>1, CountsKept DEF mutexVars
<1>2. CASE MutexStep
  <2>1. CASE \/ \E type \in MutexTypes : InitMutex(type)
             \/ \E m \in MutexId : UnlockMutex(m)
    BY <2>1, CountsKept DEF InitMutex, UnlockMutex, lockVars, threadVars
  <2>2. ASSUME NEW m \in MutexId, DestroyMutex(m) PROVE CountsExact'
    <3>1. /\ waitingCount[m] = 0 /\ mutexes' = mutexes \ {m}
          /\ UNCHANGED waitingCount /\ UNCHANGED blockedBy
      BY <2>2 DEF DestroyMutex, threadVars
    <3>2. Lockers(m) = {}
      BY <3>1, LockersFinite, FS_EmptySet DEF CountsExact
    <3>3. \A n \in MutexId : Lockers(n)' = Lockers(n)
      BY <3>1 DEF Lockers
    <3> QED BY <3>1, <3>2, <3>3 DEF CountsExact
  <2> QED BY <1>2, <2>1, <2>2, CountsLock DEF MutexStep
<1>3. CASE CondStep
  BY <1>3, CountsKept DEF CondStep, PthreadCondReturn, mutexVars
<1>4. ASSUME NEW s \in Sems,
             \/ \E value \in 0 .. MaxValue : SemInit(s, value)
             \/ SemDestroy(s) \/ SemPost(s) \/ SemWait(s),
             UNCHANGED mutexVars
      PROVE  CountsExact'
  <2>1. CASE SemWait(s)
    <3>1. blockedBy[current] = NotBlocked
      BY <2>1 DEF SemWait, Calls, RunnerUnblocked
    <3>2. \/ UNCHANGED blockedBy
          \/ blockedBy' = [blockedBy EXCEPT ![current] = OnSemaphore(s)]
      BY <2>1 DEF SemWait, threadVars, YieldThread
    <3>3. \A t \in ThreadId, m \in MutexId :
             blockedBy'[t] = OnMutex(m) <=> blockedBy[t] = OnMutex(m)
      BY <1>0, <3>1, <3>2, BlockKinds
    <3> QED BY <1>4, <3>3, CountsKept DEF mutexVars
  <2>2. CASE (\E value \in 0 .. MaxValue : SemInit(s, value)) \/ SemDestroy(s) \/ SemPost(s)
    BY <1>4, <2>2, CountsKept DEF SemInit, SemDestroy, SemPost, threadVars, mutexVars
  <2> QED BY <1>4, <2>1, <2>2
<1>5. CASE ScanStep
  <2>1. CASE ScanSkip \/ SleepUntilAwakening \/ DeclareDeadlock
    BY <2>1, CountsKept DEF ScanSkip, SleepUntilAwakening, DeclareDeadlock, mutexVars
  <2>2. ASSUME NEW t \in ThreadId, ScanMutex(t) PROVE CountsExact'
    <3>1. PICK m \in MutexId :
             /\ blockedBy[t] = OnMutex(m)
             /\ \/ UNCHANGED <<blockedBy, mutexVars>>
                \/ Relock(t, m)
      BY <2>2 DEF ScanMutex
    <3> QED BY <3>1, CountsRelock, CountsKept DEF mutexVars
  <2>3. ASSUME NEW t \in ThreadId,
               \/ ScanNotBlocked(t)
               \/ \E expired \in BOOLEAN : ScanSleeping(t, expired)
               \/ ScanSemaphore(t)
               \/ ScanJoining(t)
        PROVE  CountsExact'
    <3>1. \A m \in MutexId : blockedBy[t] # OnMutex(m)
      BY <2>3, BlockKinds DEF ScanNotBlocked, ScanSleeping, ScanSemaphore, ScanJoining
    <3>2. /\ UNCHANGED mutexVars
          /\ UNCHANGED blockedBy \/ blockedBy' = [blockedBy EXCEPT ![t] = NotBlocked]
      BY <2>3 DEF ScanNotBlocked, ScanSleeping, ScanSemaphore, ScanJoining, Dispatch
    <3>3. \A u \in ThreadId, m \in MutexId :
             blockedBy'[u] = OnMutex(m) <=> blockedBy[u] = OnMutex(m)
      BY <1>0, <3>1, <3>2, BlockKinds
    <3> QED BY <3>2, <3>3, CountsKept DEF mutexVars
  <2> QED BY <1>5, <2>1, <2>2, <2>3 DEF ScanStep
<1>6. CASE UNCHANGED vars
  BY <1>6, CountsKept DEF vars, threadVars, mutexVars
<1> QED BY <1>1, <1>2, <1>3, <1>4, <1>5, <1>6 DEF Next, GuestStep, SemStep

LEMMA CountsInvariant == ASSUME Conds = {} PROVE Spec => []CountsExact
<1>1. Init => CountsExact
  <2> SUFFICES ASSUME Init, NEW m \in MutexId
               PROVE  waitingCount[m] = Cardinality(Lockers(m)) /\ Lockers(m) = {}
    BY DEF CountsExact
  <2>1. Lockers(m) = {}
    BY BlockKinds DEF Init, ThreadsInit, Lockers
  <2> QED BY <2>1, FS_EmptySet DEF Init, MutexInit
<1>2. TypeOK /\ RunnerUnblocked /\ CountsExact /\ [Next]_vars => CountsExact'
  BY CountsStep
<1> QED BY <1>1, <1>2, TypeCorrect, RunnerIsUnblocked, PTL DEF Spec

\* destroy_mutex refuses exactly while threads wait for the mutex, as long as
\* none of them comes from a wait on a condition variable.
THEOREM WaitingCounts == ASSUME Conds = {} PROVE Spec => []WaitingCountAccurate
<1>1. TypeOK /\ CountsExact => WaitingCountAccurate
  BY MutexAssumption
  DEF CountsExact, Lockers, WaitingCountAccurate, TypeOK, MutexTypeOK, MutexId
<1> QED BY <1>1, CountsInvariant, TypeCorrect, PTL

\* "Add to the waiting count, so that the mutex isn't destroyed": a mutex that a
\* thread waits for exists, in such a program.
THEOREM LockersKeep == ASSUME Conds = {} PROVE Spec => []LockersKeepMutex
<1>1. CountsExact => LockersKeepMutex
  BY DEF CountsExact, Lockers, LockersKeepMutex
<1> QED BY <1>1, CountsInvariant, PTL

-----------------------------------------------------------------------------
(***************************************************************************)
(* Nobody gets past a mutex or a semaphore that was not granted to it.     *)
(***************************************************************************)
\* A thread that is granted a mutex finds it free, and runs.
LEMMA RelockHandsOver ==
    ASSUME TypeOK, NEW t \in ThreadId, NEW m \in MutexId, ~ MutexIsLocked(m), Relock(t, m)
    PROVE  HandsOver
BY DEF TypeOK, MutexTypeOK, MutexIsLocked, Relock, RelockUnblockedMutex, Take,
       Dispatch, HostPanic, mutexVars, HandsOver

\* A mutex is unlocked by its owner.
LEMMA ReleaseHandsOver ==
    ASSUME TypeOK, NEW m \in MutexId, owner[m] = current, phase = "run", Release(m)
    PROVE  HandsOver
BY DEF TypeOK, MutexTypeOK, Release, HandsOver

\* Every step hands mutexes over as it should.
LEMMA HandoverStep ==
    ASSUME "unlock_for_another_thread" \notin Misuse, TypeOK, [Next]_vars
    PROVE  HandsOver
<1>1. CASE UNCHANGED owner
  BY <1>1 DEF HandsOver
<1>2. ASSUME NEW m \in MutexId, LockMutex(m) PROVE HandsOver
  BY <1>2
  DEF LockMutex, Calls, Take, TypeOK, MutexTypeOK, threadVars, HandsOver
<1>3. ASSUME NEW m \in MutexId, UnlockMutex(m) PROVE HandsOver
  BY <1>3, ReleaseHandsOver DEF UnlockMutex, Calls, Lawful
<1>4. ASSUME NEW c \in Conds, NEW m \in MutexId, NEW timed \in BOOLEAN,
             PthreadCondWait(c, m, timed)
      PROVE  HandsOver
  BY <1>4, ReleaseHandsOver DEF PthreadCondWait, Calls, Lawful
<1>5. ASSUME NEW t \in ThreadId, ScanMutex(t) PROVE HandsOver
  <2>1. PICK m \in MutexId : UNCHANGED mutexVars \/ (~ MutexIsLocked(m) /\ Relock(t, m))
    BY <1>5 DEF ScanMutex
  <2> QED BY <1>1, <2>1, RelockHandsOver DEF mutexVars
<1>6. ASSUME NEW t \in ThreadId, NEW c \in Conds, ScanCondWake(t, c) PROVE HandsOver
  <2>1. currMutex[c] \in MutexId
    BY <1>6 DEF ScanCondWake, TypeOK, CondTypeOK
  <2> QED BY <1>6, <2>1, RelockHandsOver DEF ScanCondWake, MayWake
<1>7. ASSUME NEW t \in ThreadId, NEW c \in Conds, ScanCondTimeout(t, c) PROVE HandsOver
  <2>1. currMutex[c] \in MutexId
    BY <1>7 DEF ScanCondTimeout, TypeOK, CondTypeOK
  <2>2. \/ UNCHANGED mutexVars
        \/ ~ MutexIsLocked(currMutex[c]) /\ Relock(t, currMutex[c])
    BY <1>7 DEF ScanCondTimeout
  <2> QED BY <1>1, <2>1, <2>2, RelockHandsOver DEF mutexVars
<1>8. CASE \/ ScanSkip \/ SleepUntilAwakening \/ DeclareDeadlock
           \/ \E t \in ThreadId :
                \/ ScanNotBlocked(t)
                \/ \E expired \in BOOLEAN : ScanSleeping(t, expired)
                \/ ScanSemaphore(t)
                \/ ScanJoining(t)
                \/ \E c \in Conds : ScanCondGone(t, c) \/ ScanCondWait(t, c)
  <2>1. UNCHANGED mutexVars
    BY <1>8 DEF ScanSkip, SleepUntilAwakening, DeclareDeadlock, ScanNotBlocked,
                ScanSleeping, ScanSemaphore, ScanJoining, ScanCondGone, ScanCondWait
  <2> QED BY <1>1, <2>1 DEF mutexVars
<1>9. CASE \/ (ThreadStep \/ SemStep) /\ UNCHANGED mutexVars
           \/ PthreadCondReturn
           \/ \E c \in Conds : \/ PthreadCondInit(c) \/ PthreadCondDestroy(c)
                               \/ PthreadCondSignal(c) \/ PthreadCondBroadcast(c)
  <2>1. UNCHANGED mutexVars
    BY <1>9 DEF PthreadCondReturn, PthreadCondInit, PthreadCondDestroy,
                PthreadCondSignal, PthreadCondBroadcast
  <2> QED BY <1>1, <2>1 DEF mutexVars
<1>10. CASE \/ \E type \in MutexTypes : InitMutex(type)
            \/ \E m \in MutexId : DestroyMutex(m)
  BY <1>1, <1>10 DEF InitMutex, DestroyMutex
<1>11. CASE UNCHANGED vars
  BY <1>1, <1>11 DEF vars, mutexVars
<1>12. CASE ScanStep
  BY <1>5, <1>6, <1>7, <1>8, <1>12 DEF ScanStep
<1>13. CASE CondStep
  BY <1>4, <1>9, <1>13 DEF CondStep
<1>14. CASE MutexStep
  BY <1>2, <1>3, <1>10, <1>14 DEF MutexStep
<1> QED BY <1>9, <1>11, <1>12, <1>13, <1>14 DEF Next, GuestStep

\* A step by which nobody gets past a semaphore, and no scan takes a permit.
LEMMA NobodyPasses ==
    ASSUME TypeOK,
           \A t \in ThreadId, s \in Sems :
               blockedBy[t] = OnSemaphore(s) => blockedBy'[t] = OnSemaphore(s),
           phase = "schedule" => UNCHANGED semValue
    PROVE  TakesPermits
<1> SUFFICES ASSUME NEW s \in openSems \cap openSems'
             PROVE  Cardinality(Passes(s)) =
                        IF phase = "schedule" THEN semValue[s] - semValue'[s] ELSE 0
  BY DEF TakesPermits
<1>1. s \in Sems /\ semValue[s] \in Nat
  BY SemaphoreAssumption DEF TypeOK, SemTypeOK
<1>2. Cardinality(Passes(s)) = 0
  BY <1>1, FS_EmptySet DEF Passes
<1>3. phase = "schedule" => semValue[s] - semValue'[s] = 0
  BY <1>1
<1> QED BY <1>2, <1>3

\* The scan lets one thread through for one permit.
LEMMA SemaphorePasses ==
    ASSUME TypeOK, NEW t \in ThreadId, ScanSemaphore(t) PROVE TakesPermits
<1>0. /\ blockedBy \in [ThreadId -> ThreadBlock] /\ openSems \subseteq Sems
      /\ semValue \in [Sems -> Nat]
  BY SemaphoreAssumption
  DEF TypeOK, ThreadsTypeOK, TableTypeOK, SemTypeOK
<1>1. PICK s \in Sems :
         /\ blockedBy[t] = OnSemaphore(s)
         /\ \/ UNCHANGED blockedBy /\ UNCHANGED semVars
            \/ /\ semValue[s] > 0
               /\ semValue' = [semValue EXCEPT ![s] = @ - 1]
               /\ Dispatch(t)
  BY DEF ScanSemaphore
<1>2. CASE UNCHANGED blockedBy /\ UNCHANGED semVars
  BY <1>2, NobodyPasses DEF semVars
<1>3. CASE /\ semValue[s] > 0
           /\ semValue' = [semValue EXCEPT ![s] = @ - 1]
           /\ Dispatch(t)
  <2> SUFFICES ASSUME NEW r \in openSems \cap openSems'
               PROVE  Cardinality(Passes(r)) = semValue[r] - semValue'[r]
    BY DEF TakesPermits, ScanSemaphore, Examines
  <2>1. \A u \in ThreadId : blockedBy'[u] = IF u = t THEN NotBlocked ELSE blockedBy[u]
    BY <1>0, <1>3 DEF Dispatch
  <2>2. r \in Sems
    BY <1>0
  <2>3. CASE r = s
    <3>1. Passes(r) = {t}
      BY <1>1, <2>1, <2>3, BlockKinds DEF Passes
    <3>2. semValue[r] - semValue'[r] = 1
      BY <1>0, <1>3, <2>3
    <3> QED BY <3>1, <3>2, FS_Singleton
  <2>4. CASE r # s
    <3>1. Passes(r) = {}
      BY <1>1, <2>1, <2>4, BlockKinds DEF Passes
    <3>2. semValue[r] - semValue'[r] = 0
      BY <1>0, <1>3, <2>2, <2>4
    <3> QED BY <3>1, <3>2, FS_EmptySet
  <2> QED BY <2>3, <2>4
<1> QED BY <1>1, <1>2, <1>3

\* Every step takes as many permits as it lets threads through.
LEMMA PermitsStep ==
    ASSUME TypeOK, RunnerUnblocked, [Next]_vars PROVE TakesPermits
<1>0. current \in ThreadId /\ blockedBy \in [ThreadId -> ThreadBlock]
  BY ThreadTypes DEF TypeOK, ThreadsTypeOK, TableTypeOK
<1>1. ASSUME phase = "run", NEW b,
             UNCHANGED blockedBy \/ blockedBy' = [blockedBy EXCEPT ![current] = b]
      PROVE  TakesPermits
  <2>1. blockedBy[current] = NotBlocked
    BY <1>1 DEF RunnerUnblocked
  <2>2. \A t \in ThreadId, s \in Sems :
           blockedBy[t] = OnSemaphore(s) => blockedBy'[t] = OnSemaphore(s)
    BY <1>0, <1>1, <2>1, BlockKinds
  <2> QED BY <1>1, <2>2, NobodyPasses
<1>2. ASSUME NEW t \in ThreadId, \A s \in Sems : blockedBy[t] # OnSemaphore(s), NEW b,
             UNCHANGED blockedBy \/ blockedBy' = [blockedBy EXCEPT ![t] = b],
             UNCHANGED semVars
      PROVE  TakesPermits
  <2>1. \A u \in ThreadId, s \in Sems :
           blockedBy[u] = OnSemaphore(s) => blockedBy'[u] = OnSemaphore(s)
    BY <1>0, <1>2
  <2> QED BY <1>2, <2>1, NobodyPasses DEF semVars
<1>3. CASE ThreadStep /\ UNCHANGED semVars
  <2>1. \A t \in ThreadId, s \in Sems :
           blockedBy[t] = OnSemaphore(s) => blockedBy'[t] = OnSemaphore(s)
    BY <1>3, ThreadStepBlocks, BlockKinds
  <2> QED BY <1>3, <2>1, NobodyPasses DEF semVars
<1>4. CASE MutexStep
  BY <1>1, <1>4
  DEF MutexStep, InitMutex, DestroyMutex, LockMutex, UnlockMutex, Calls,
      YieldThread, threadVars
<1>5. CASE SemStep
  BY <1>1, <1>5
  DEF SemStep, SemInit, SemDestroy, SemPost, SemWait, Calls, YieldThread, threadVars
<1>6. CASE CondStep
  <2>1. CASE PthreadCondReturn
    BY <1>1, <2>1 DEF PthreadCondReturn
  <2>2. ASSUME NEW c \in Conds,
               \/ PthreadCondInit(c)
               \/ PthreadCondDestroy(c)
               \/ PthreadCondSignal(c)
               \/ PthreadCondBroadcast(c)
        PROVE  TakesPermits
    BY <1>1, <2>2
    DEF PthreadCondInit, PthreadCondDestroy, PthreadCondSignal,
        PthreadCondBroadcast, CondGone, Calls, threadVars
  <2>3. ASSUME NEW c \in Conds, NEW m \in MutexId, NEW timed \in BOOLEAN,
               PthreadCondWait(c, m, timed)
        PROVE  TakesPermits
    BY <1>1, <2>3 DEF PthreadCondWait, CondGone, Calls, YieldThread
  <2> QED BY <1>6, <2>1, <2>2, <2>3 DEF CondStep
<1>7. CASE ScanSkip \/ SleepUntilAwakening \/ DeclareDeadlock
  BY <1>7, NobodyPasses DEF ScanSkip, SleepUntilAwakening, DeclareDeadlock, semVars
<1>8. ASSUME NEW t \in ThreadId,
             \/ ScanNotBlocked(t)
             \/ \E expired \in BOOLEAN : ScanSleeping(t, expired)
             \/ ScanMutex(t)
             \/ ScanJoining(t)
      PROVE  TakesPermits
  <2>1. \A s \in Sems : blockedBy[t] # OnSemaphore(s)
    BY <1>8, BlockKinds DEF ScanNotBlocked, ScanSleeping, ScanMutex, ScanJoining
  <2>2. /\ UNCHANGED blockedBy \/ blockedBy' = [blockedBy EXCEPT ![t] = NotBlocked]
        /\ UNCHANGED semVars
    BY <1>8 DEF ScanNotBlocked, ScanSleeping, ScanMutex, ScanJoining, Dispatch, Relock
  <2> QED BY <1>2, <2>1, <2>2
<1>9. ASSUME NEW t \in ThreadId, NEW c \in Conds,
             \/ ScanCondGone(t, c)
             \/ ScanCondWake(t, c)
             \/ ScanCondTimeout(t, c)
             \/ ScanCondWait(t, c)
      PROVE  TakesPermits
  <2>0. blockedBy[t] \in {OnCond(c, TRUE), OnCond(c, FALSE)}
    BY <1>9
    DEF ScanCondGone, ScanCondWake, ScanCondTimeout, ScanCondWait, ExaminesWaiter
  <2>1. \A s \in Sems : blockedBy[t] # OnSemaphore(s)
    BY <2>0 DEF OnCond, OnSemaphore
  <2>2. UNCHANGED semVars
    BY <1>9 DEF ScanCondGone, ScanCondWake, ScanCondTimeout, ScanCondWait
  <2>3. \/ UNCHANGED blockedBy
        \/ blockedBy' = [blockedBy EXCEPT ![t] = NotBlocked]
        \/ blockedBy' = [blockedBy EXCEPT ![t] = OnMutex(currMutex[c])]
    BY <1>9
    DEF ScanCondGone, ScanCondWake, ScanCondTimeout, ScanCondWait, Relock, Dispatch
  <2> QED BY <1>2, <2>1, <2>2, <2>3
<1>10. CASE ScanStep
  BY <1>7, <1>8, <1>9, <1>10, SemaphorePasses DEF ScanStep
<1>11. CASE UNCHANGED vars
  BY <1>11, NobodyPasses DEF vars, threadVars, semVars
<1> QED BY <1>3, <1>4, <1>5, <1>6, <1>10, <1>11 DEF Next, GuestStep

\* The scheduler grants a mutex only if it is free, to the thread that runs
\* next, and lets as many threads through a semaphore as it takes permits.
THEOREM Grants ==
    ASSUME "unlock_for_another_thread" \notin Misuse PROVE Spec => GrantsExact
<1>1. TypeOK /\ [Next]_vars => HandsOver
  BY HandoverStep
<1>2. TypeOK /\ RunnerUnblocked /\ [Next]_vars => TakesPermits
  BY PermitsStep
<1> QED BY <1>1, <1>2, TypeCorrect, RunnerIsUnblocked, PTL
        DEF Spec, GrantsExact, MutexHandover, SemaphorePermits

-----------------------------------------------------------------------------
(***************************************************************************)
(* Deadlock.  A scan that has noted no deadline has passed by threads that *)
(* stay where they are: nothing it may still do releases one of them.      *)
(***************************************************************************)
StaysBlocked(t) ==
    \/ \E m \in MutexId : blockedBy[t] = OnMutex(m) /\ MutexIsLocked(m)
    \/ \E s \in Sems : blockedBy[t] = OnSemaphore(s) /\ s \in openSems /\ semValue[s] = 0
    \/ \E u \in ThreadId : blockedBy[t] = Joining(u) /\ active[u]
    \/ \E c \in Conds : /\ blockedBy[t] = OnCond(c, FALSE)
                        /\ c \in conds /\ currMutex[c] # NoObject
                        /\ ~ MayWake(t, c)

Stays(t) == ~ active[t] \/ suspended[t] > 0 \/ StaysBlocked(t)

\* The scan has been at t.
Passed(t) == \E k \in 0 .. scan - 1 : t = (current + 1 + k) % len

NobodyMoves == \A t \in Existing : Stays(t)

ScannedStay == phase = "schedule" /\ ~ awakening => \A t \in Existing : Passed(t) => Stays(t)

RetriesStay ==
    grace > 0 \/ phase = "deadlock" =>
        phase \in {"schedule", "deadlock"} /\ ~ awakening /\ NobodyMoves

DeadlockInv == ScannedStay /\ RetriesStay

stuckVars == <<len, active, blockedBy, suspended, mutexVars, condVars, semVars>>

\* A step that changes none of what it depends on leaves a thread where it is.
LEMMA StaysUnchanged ==
    ASSUME UNCHANGED stuckVars, NEW t \in ThreadId PROVE Stays(t)' <=> Stays(t)
BY DEF stuckVars, mutexVars, condVars, semVars, Stays, StaysBlocked, MutexIsLocked, MayWake

\* A block that the scan lifts is not one that stays.
LEMMA StayKinds ==
    ASSUME NEW t
    PROVE  /\ blockedBy[t] \in {NotBlocked, Sleeping} => ~ StaysBlocked(t)
           /\ \A m : blockedBy[t] = OnMutex(m) /\ ~ MutexIsLocked(m) => ~ StaysBlocked(t)
           /\ \A s : /\ blockedBy[t] = OnSemaphore(s)
                     /\ ~ (s \in openSems /\ semValue[s] = 0)
                     => ~ StaysBlocked(t)
           /\ \A u : blockedBy[t] = Joining(u) /\ ~ active[u] => ~ StaysBlocked(t)
           /\ \A c : /\ blockedBy[t] = OnCond(c, FALSE)
                     /\ ~ (c \in conds /\ currMutex[c] # NoObject /\ ~ MayWake(t, c))
                     => ~ StaysBlocked(t)
           /\ \A c : blockedBy[t] = OnCond(c, TRUE) => ~ StaysBlocked(t)
<1> DEFINE kind == blockedBy[t].kind
<1>1. \A m : blockedBy[t] = OnMutex(m) => kind = "Mutex" /\ blockedBy[t].on = m
  BY DEF OnMutex
<1>2. \A s : blockedBy[t] = OnSemaphore(s) => kind = "Semaphore" /\ blockedBy[t].on = s
  BY DEF OnSemaphore
<1>3. \A u : blockedBy[t] = Joining(u) => kind = "Joining" /\ blockedBy[t].on = u
  BY DEF Joining
<1>4. \A c : blockedBy[t] = OnCond(c, FALSE) => kind = "Condition" /\ blockedBy[t].on = c
  BY DEF OnCond
<1>5. \A c : blockedBy[t] = OnCond(c, TRUE) => kind = "TimedCondition"
  BY DEF OnCond
<1>6. blockedBy[t] \in {NotBlocked, Sleeping} => kind \in {"NotBlocked", "Sleeping"}
  BY DEF NotBlocked, Sleeping
<1> HIDE DEF kind
<1>7. StaysBlocked(t) => \/ kind = "Mutex" /\ MutexIsLocked(blockedBy[t].on)
                         \/ kind = "Semaphore" /\ blockedBy[t].on \in openSems
                              /\ semValue[blockedBy[t].on] = 0
                         \/ kind = "Joining" /\ active[blockedBy[t].on]
                         \/ kind = "Condition" /\ blockedBy[t].on \in conds
                              /\ currMutex[blockedBy[t].on] # NoObject
                              /\ ~ MayWake(t, blockedBy[t].on)
  BY <1>1, <1>2, <1>3, <1>4 DEF StaysBlocked
<1> QED BY <1>1, <1>2, <1>3, <1>4, <1>5, <1>6, <1>7

LEMMA ExaminedStays == ASSUME NEW t, Examines(t) PROVE Stays(t) <=> StaysBlocked(t)
<1>1. active[t] /\ ~ (suspended[t] > 0)
  BY DEF Examines
<1> QED BY <1>1 DEF Stays

\* What the scan does about a thread that stays, it does to nobody: it goes on.
PassesBy ==
    /\ phase = "schedule" /\ scan < len
    /\ KeepScanning(FALSE)
    /\ UNCHANGED <<stuckVars, grace>>
    /\ Stays(Candidate)

\* The scan finds a thread, a deadline, or an error.
Finds ==
    /\ phase = "schedule" /\ scan < len /\ ~ Stays(Candidate)
    /\ UNCHANGED grace
    /\ phase' # "deadlock"
    /\ phase' \in {"run", "panic"} \/ awakening'

\* A timed waiter finds its mutex locked, and from then on waits for that.
TimesOut ==
    /\ phase = "schedule" /\ scan < len /\ ~ Stays(Candidate)
    /\ KeepScanning(FALSE)
    /\ UNCHANGED <<len, active, suspended, mutexVars, conds, currMutex, semVars, grace>>
    /\ \E c \in Conds : \E m \in MutexId :
        /\ MutexIsLocked(m) /\ m = currMutex[c]
        /\ blockedBy' = [blockedBy EXCEPT ![Candidate] = OnMutex(m)]
        /\ \A d \in Conds \ {c} : waking'[d] = waking[d]

\* Every step of a scan is one of these.
LEMMA ExaminedStep ==
    ASSUME TypeOK, ScanStep
    PROVE  PassesBy \/ Finds \/ TimesOut \/ SleepUntilAwakening \/ DeclareDeadlock
<1>0. blockedBy \in [ThreadId -> ThreadBlock] /\ awakening \in BOOLEAN
  BY DEF TypeOK, ThreadsTypeOK, TableTypeOK, PhaseTypeOK
<1>1. CASE ScanSkip
  BY <1>1 DEF ScanSkip, PassesBy, Stays, stuckVars
<1>2. ASSUME NEW t \in ThreadId, ScanNotBlocked(t) PROVE Finds
  <2>0. Examines(t) /\ ~ StaysBlocked(t)
    BY <1>2, StayKinds DEF ScanNotBlocked, ExaminesWaiter
  <2>1. ~ Stays(t)
    BY <2>0, ExaminedStays
  <2> QED BY <1>2, <2>1 DEF ScanNotBlocked, Examines, Dispatch, Finds
<1>3. ASSUME NEW t \in ThreadId, NEW expired \in BOOLEAN, ScanSleeping(t, expired) PROVE Finds
  <2>0. Examines(t) /\ ~ StaysBlocked(t)
    BY <1>3, StayKinds DEF ScanSleeping, ExaminesWaiter
  <2>1. ~ Stays(t)
    BY <2>0, ExaminedStays
  <2> QED BY <1>3, <2>1 DEF ScanSleeping, Examines, Dispatch, KeepScanning, Finds
<1>4. ASSUME NEW t \in ThreadId, ScanMutex(t) PROVE PassesBy \/ Finds
  <2>1. PICK m \in MutexId :
          /\ blockedBy[t] = OnMutex(m)
          /\ IF MutexIsLocked(m)
             THEN KeepScanning(FALSE) /\ UNCHANGED <<blockedBy, mutexVars>>
             ELSE Relock(t, m)
    BY <1>4 DEF ScanMutex
  <2>2. CASE MutexIsLocked(m)
    <3>1. Stays(t)
      BY <2>1, <2>2 DEF Stays, StaysBlocked
    <3> QED BY <1>4, <2>1, <2>2, <3>1 DEF ScanMutex, Examines, PassesBy, stuckVars
  <2>3. CASE ~ MutexIsLocked(m)
    <3>0. Examines(t) /\ ~ StaysBlocked(t)
      BY <1>4, <2>1, <2>3, StayKinds DEF ScanMutex
    <3>1. ~ Stays(t)
      BY <3>0, ExaminedStays
    <3>2. phase' \in {"run", "panic"}
      BY <2>1, <2>3 DEF Relock, Dispatch, HostPanic
    <3> QED BY <1>4, <3>1, <3>2 DEF ScanMutex, Examines, Finds
  <2> QED BY <2>2, <2>3
<1>5. ASSUME NEW t \in ThreadId, ScanSemaphore(t) PROVE PassesBy \/ Finds
  <2>1. PICK s \in Sems :
          /\ blockedBy[t] = OnSemaphore(s)
          /\ \/ s \notin openSems /\ HostPanic
             \/ /\ s \in openSems /\ semValue[s] = 0
                /\ KeepScanning(FALSE) /\ UNCHANGED <<blockedBy, semVars>>
             \/ s \in openSems /\ semValue[s] > 0 /\ Dispatch(t)
    BY <1>5 DEF ScanSemaphore
  <2>2. CASE s \in openSems /\ semValue[s] = 0
    <3>1. Stays(t)
      BY <2>1, <2>2 DEF Stays, StaysBlocked
    <3>2. KeepScanning(FALSE) /\ UNCHANGED <<blockedBy, semVars>>
      BY <2>1, <2>2 DEF Dispatch, KeepScanning
    <3> QED BY <1>5, <3>1, <3>2 DEF ScanSemaphore, Examines, PassesBy, stuckVars
  <2>3. CASE ~ (s \in openSems /\ semValue[s] = 0)
    <3>0. Examines(t) /\ ~ StaysBlocked(t)
      BY <1>5, <2>1, <2>3, StayKinds DEF ScanSemaphore
    <3>1. ~ Stays(t)
      BY <3>0, ExaminedStays
    <3>2. phase' \in {"run", "panic"}
      BY <2>1, <2>3 DEF Dispatch, HostPanic
    <3> QED BY <1>5, <3>1, <3>2 DEF ScanSemaphore, Examines, Finds
  <2> QED BY <2>2, <2>3
<1>6. ASSUME NEW t \in ThreadId, ScanJoining(t) PROVE PassesBy \/ Finds
  <2>1. PICK u \in ThreadId :
          /\ blockedBy[t] = Joining(u)
          /\ IF active[u] THEN KeepScanning(FALSE) /\ UNCHANGED blockedBy ELSE Dispatch(t)
    BY <1>6 DEF ScanJoining
  <2>2. CASE active[u]
    <3>1. Stays(t)
      BY <2>1, <2>2 DEF Stays, StaysBlocked
    <3> QED BY <1>6, <2>1, <2>2, <3>1 DEF ScanJoining, Examines, PassesBy, stuckVars
  <2>3. CASE ~ active[u]
    <3>0. Examines(t) /\ ~ StaysBlocked(t)
      BY <1>6, <2>1, <2>3, StayKinds DEF ScanJoining
    <3>1. ~ Stays(t)
      BY <3>0, ExaminedStays
    <3> QED BY <1>6, <2>1, <2>3, <3>1 DEF ScanJoining, Examines, Dispatch, Finds
  <2> QED BY <2>2, <2>3
<1>7. ASSUME NEW t \in ThreadId, NEW c \in Conds, ScanCondGone(t, c) PROVE Finds
  <2>0. Examines(t) /\ ~ StaysBlocked(t)
    BY <1>7, StayKinds DEF ScanCondGone, ExaminesWaiter
  <2>1. ~ Stays(t)
    BY <2>0, ExaminedStays
  <2> QED BY <1>7, <2>1 DEF ScanCondGone, ExaminesWaiter, Examines, HostPanic, Finds
<1>8. ASSUME NEW t \in ThreadId, NEW c \in Conds, ScanCondWake(t, c) PROVE Finds
  <2>0. Examines(t) /\ ~ StaysBlocked(t)
    BY <1>8, StayKinds DEF ScanCondWake, ExaminesWaiter
  <2>1. ~ Stays(t)
    BY <2>0, ExaminedStays
  <2> QED BY <1>8, <2>1
          DEF ScanCondWake, ExaminesWaiter, Examines, Relock, Dispatch, HostPanic, Finds
<1>9. ASSUME NEW t \in ThreadId, NEW c \in Conds, ScanCondTimeout(t, c)
      PROVE  Finds \/ TimesOut
  <2>0. Examines(t) /\ ~ StaysBlocked(t)
    BY <1>9, StayKinds DEF ScanCondTimeout, ExaminesWaiter
  <2>1. ~ Stays(t) /\ Examines(t)
    BY <2>0, ExaminedStays
  <2>2. /\ phase = "schedule" /\ scan < len /\ t = Candidate
        /\ UNCHANGED <<len, active, suspended, semVars, grace>>
    BY <1>9, <2>1 DEF Examines, ScanCondTimeout
  <2>3. CASE t \notin timedOut[c] /\ MutexIsLocked(currMutex[c])
    <3>1. currMutex[c] \in MutexId
      <4>1. currMutex[c] \in 0 .. mutexCount - 1 /\ mutexCount \in 0 .. MaxMutexes
        BY <2>3 DEF MutexIsLocked, TypeOK, MutexTypeOK
      <4> QED BY <4>1, MutexAssumption DEF MutexId
    <3>2. /\ KeepScanning(FALSE)
          /\ UNCHANGED <<mutexVars, conds, currMutex>>
          /\ blockedBy' = [blockedBy EXCEPT ![t] = OnMutex(currMutex[c])]
          /\ waking' = [waking EXCEPT ![c] = Without(@, t)]
      BY <1>9, <2>3 DEF ScanCondTimeout
    <3>3. \A d \in Conds \ {c} : waking'[d] = waking[d]
      BY <3>2 DEF TypeOK, CondTypeOK
    <3> QED BY <2>1, <2>2, <2>3, <3>1, <3>2, <3>3 DEF TimesOut
  <2>4. CASE ~ (t \notin timedOut[c] /\ MutexIsLocked(currMutex[c]))
    <3>1. phase' \in {"run", "panic"}
      BY <1>9, <2>4 DEF ScanCondTimeout, Relock, Dispatch, HostPanic
    <3> QED BY <2>1, <2>2, <3>1 DEF Finds
  <2> QED BY <2>3, <2>4
<1>10. ASSUME NEW t \in ThreadId, NEW c \in Conds, ScanCondWait(t, c)
       PROVE  PassesBy \/ Finds
  <2>0. /\ Examines(t) /\ blockedBy[t] \in {OnCond(c, TRUE), OnCond(c, FALSE)}
        /\ c \in conds /\ currMutex[c] # NoObject /\ ~ MayWake(t, c)
        /\ KeepScanning(blockedBy[t] = OnCond(c, TRUE))
        /\ UNCHANGED <<stuckVars, grace>>
    BY <1>10 DEF ScanCondWait, ExaminesWaiter, stuckVars
  <2>1. CASE blockedBy[t] = OnCond(c, TRUE)
    <3>1. ~ StaysBlocked(t)
      BY <2>1, StayKinds
    <3>2. ~ Stays(t)
      BY <2>0, <3>1 DEF Examines, Stays
    <3> QED BY <2>0, <2>1, <3>2 DEF Examines, KeepScanning, Finds
  <2>2. CASE blockedBy[t] = OnCond(c, FALSE)
    <3>1. Stays(t)
      BY <2>0, <2>2 DEF Stays, StaysBlocked
    <3>2. blockedBy[t] # OnCond(c, TRUE)
      BY <2>2 DEF OnCond
    <3>3. KeepScanning(FALSE)
      BY <2>0, <3>2 DEF KeepScanning
    <3> QED BY <2>0, <3>1, <3>3 DEF Examines, PassesBy
  <2> QED BY <2>0, <2>1, <2>2
<1> QED
  BY <1>1, <1>2, <1>3, <1>4, <1>5, <1>6, <1>7, <1>8, <1>9, <1>10 DEF ScanStep

\* A call of the guest runs on its thread; if it ends in the scheduler, the
\* scan begins.
LEMMA GuestPhase ==
    ASSUME GuestStep
    PROVE  /\ phase = "run" /\ grace' = grace
           /\ phase' # "deadlock"
           /\ phase' = "schedule" => scan' = 0
<1>1. CASE ThreadStep /\ UNCHANGED grace
  BY <1>1
  DEF ThreadStep, Preempt, NewThread, ThreadExit, Sleep, JoinWithThread, SuspendThread,
      ResumeThread, Calls, YieldThread, EnterScheduler, schedVars
<1>2. CASE MutexStep /\ UNCHANGED grace
  BY <1>2
  DEF MutexStep, InitMutex, DestroyMutex, LockMutex, UnlockMutex, Calls, YieldThread,
      EnterScheduler, HostPanic, threadVars
<1>3. CASE SemStep /\ UNCHANGED grace
  BY <1>3
  DEF SemStep, SemInit, SemDestroy, SemPost, SemWait, Calls, YieldThread, EnterScheduler,
      HostPanic, threadVars
<1>4. CASE CondStep /\ UNCHANGED grace
  <2>1. CASE PthreadCondReturn
    BY <1>4, <2>1 DEF PthreadCondReturn, HostPanic, schedVars
  <2>2. ASSUME NEW c \in Conds,
               \/ PthreadCondInit(c)
               \/ PthreadCondDestroy(c)
               \/ PthreadCondSignal(c)
               \/ PthreadCondBroadcast(c)
        PROVE  phase = "run" /\ phase' \in {"run", "panic"}
    <3>1. CASE PthreadCondInit(c)
      BY <3>1 DEF PthreadCondInit, Calls, threadVars
    <3>2. CASE PthreadCondDestroy(c)
      BY <3>2 DEF PthreadCondDestroy, CondGone, Calls, schedVars, HostPanic
    <3>3. CASE PthreadCondSignal(c)
      BY <3>3 DEF PthreadCondSignal, CondGone, Calls, HostPanic, threadVars
    <3>4. CASE PthreadCondBroadcast(c)
      BY <3>4 DEF PthreadCondBroadcast, CondGone, Calls, HostPanic, threadVars
    <3> QED BY <2>2, <3>1, <3>2, <3>3, <3>4
  <2>3. ASSUME NEW c \in Conds, NEW m \in MutexId, NEW timed \in BOOLEAN,
               PthreadCondWait(c, m, timed)
        PROVE  /\ phase = "run" /\ phase' \in {"run", "schedule", "panic"}
               /\ phase' = "schedule" => scan' = 0
    BY <2>3 DEF PthreadCondWait, CondGone, Calls, YieldThread, EnterScheduler, HostPanic,
                threadVars
  <2> QED BY <1>4, <2>1, <2>2, <2>3 DEF CondStep
<1> QED BY <1>1, <1>2, <1>3, <1>4 DEF GuestStep

\* A step of the scan that finds nobody leaves those it has passed where they
\* are, and adds the candidate.
LEMMA ScanKeepsStay == ASSUME TypeOK, ScannedStay, ScanStep PROVE ScannedStay'
<1> SUFFICES ASSUME phase' = "schedule", ~ awakening', NEW t \in Existing', Passed(t)'
             PROVE  Stays(t)'
  BY DEF ScannedStay
<1>0. /\ len \in 1 .. MaxThreads /\ scan \in 0 .. len /\ current \in 0 .. len - 1
      /\ awakening \in BOOLEAN
      /\ blockedBy \in [ThreadId -> ThreadBlock]
  BY DEF TypeOK, ThreadsTypeOK, PositionTypeOK, PhaseTypeOK, TableTypeOK, Existing
<1>1. ASSUME phase = "schedule", KeepScanning(FALSE), len' = len
      PROVE  /\ t \in ThreadId /\ t \in Existing
             /\ t = Candidate \/ Stays(t)
  <2>1. t \in Existing /\ t \in ThreadId
    BY <1>0, <1>1, ThreadsAssumption DEF Existing, ThreadId
  <2>2. ~ awakening /\ scan' = scan + 1 /\ current' = current
    BY <1>0, <1>1 DEF KeepScanning
  <2>3. PICK k \in 0 .. scan : t = (current + 1 + k) % len
    <3>1. PICK k \in 0 .. scan' - 1 : t = (current' + 1 + k) % len'
      BY DEF Passed
    <3>2. k \in 0 .. scan /\ t = (current + 1 + k) % len
      BY <1>0, <1>1, <2>2, <3>1
    <3> QED BY <3>2
  <2>4. k = scan \/ Passed(t)
    BY <1>0, <2>3 DEF Passed
  <2> QED BY <1>1, <2>1, <2>2, <2>3, <2>4 DEF ScannedStay, Candidate
<1>2. CASE PassesBy
  <2>1. t \in ThreadId /\ Stays(t)
    BY <1>1, <1>2 DEF PassesBy, stuckVars
  <2> QED BY <1>2, <2>1, StaysUnchanged DEF PassesBy
<1>3. CASE Finds
  BY <1>3 DEF Finds
<1>4. CASE TimesOut
  <2>1. PICK c \in Conds, m \in MutexId :
          /\ MutexIsLocked(m) /\ m = currMutex[c]
          /\ blockedBy' = [blockedBy EXCEPT ![Candidate] = OnMutex(m)]
          /\ \A d \in Conds \ {c} : waking'[d] = waking[d]
    BY <1>4 DEF TimesOut
  <2>2. t \in ThreadId /\ (t = Candidate \/ Stays(t))
    BY <1>1, <1>4 DEF TimesOut
  <2>3. MutexIsLocked(m)' /\ \A n : MutexIsLocked(n)' <=> MutexIsLocked(n)
    BY <1>4, <2>1 DEF TimesOut, MutexIsLocked, mutexVars
  <2>4. CASE t = Candidate
    <3>1. blockedBy'[t] = OnMutex(m)
      BY <1>0, <2>1, <2>2, <2>4
    <3>2. StaysBlocked(t)'
      BY <2>3, <3>1 DEF StaysBlocked
    <3> QED BY <3>2 DEF Stays
  <2>5. CASE t # Candidate
    <3>1. blockedBy'[t] = blockedBy[t] /\ Stays(t)
      BY <1>0, <2>1, <2>2, <2>5
    <3>2. UNCHANGED <<active, suspended, conds, currMutex, mutexes, owner, openSems, semValue>>
      BY <1>4 DEF TimesOut, mutexVars, semVars
    <3>3. ASSUME NEW d \in Conds, ~ MayWake(t, d) PROVE ~ MayWake(t, d)'
      <4>1. CASE d = c
        BY <2>1, <2>3, <3>2, <4>1 DEF MayWake
      <4>2. CASE d # c
        <5>1. waking'[d] = waking[d] /\ currMutex' = currMutex
          BY <2>1, <3>2, <4>2
        <5> QED BY <2>3, <3>3, <5>1 DEF MayWake
      <4> QED BY <4>1, <4>2
    <3>4. StaysBlocked(t) => StaysBlocked(t)'
      BY <2>3, <3>1, <3>2, <3>3 DEF StaysBlocked
    <3> QED BY <3>1, <3>2, <3>4 DEF Stays
  <2> QED BY <2>4, <2>5
<1>5. CASE SleepUntilAwakening \/ DeclareDeadlock
  <2>1. scan' = 0
    BY <1>5 DEF SleepUntilAwakening, DeclareDeadlock, EnterScheduler
  <2> QED BY <2>1 DEF Passed
<1> QED BY <1>2, <1>3, <1>4, <1>5, ExaminedStep

\* A scan that has been everywhere has been at each thread.
LEMMA ScanIsComplete ==
    ASSUME TypeOK, ScannedStay, ScanDone, ~ awakening PROVE NobodyMoves
<1> SUFFICES ASSUME NEW t \in Existing PROVE Passed(t)
  BY DEF NobodyMoves, ScannedStay, ScanDone
<1>0. len \in 1 .. MaxThreads /\ scan = len /\ current \in 0 .. len - 1 /\ t \in 0 .. len - 1
  BY DEF TypeOK, ThreadsTypeOK, PositionTypeOK, Existing, ScanDone
<1> DEFINE k == IF t > current THEN t - current - 1 ELSE t - current - 1 + len
<1>1. k \in 0 .. scan - 1 /\ t = (current + 1 + k) % len
  BY <1>0, ThreadsAssumption
<1> QED BY <1>1 DEF Passed

\* Once a scan has found nobody and no deadline, nothing happens any more but
\* the other scans, until the scheduler gives up.
LEMMA RetriesKeepStay ==
    ASSUME TypeOK, DeadlockInv, [Next]_vars PROVE RetriesStay'
<1>0. grace \in 0 .. MaxGrace /\ awakening \in BOOLEAN /\ len \in 1 .. MaxThreads
      /\ scan \in 0 .. len /\ current \in 0 .. len - 1
  BY DEF TypeOK, ThreadsTypeOK, PositionTypeOK, PhaseTypeOK, Existing
<1>1. ASSUME UNCHANGED stuckVars, NobodyMoves PROVE NobodyMoves'
  <2> SUFFICES ASSUME NEW t \in Existing PROVE Stays(t)'
    BY <1>1 DEF NobodyMoves, stuckVars, Existing
  <2>1. t \in ThreadId
    BY ThreadTypes
  <2> QED BY <1>1, <2>1, StaysUnchanged DEF NobodyMoves
<1>2. CASE ScanStep
  <2>1. CASE DeclareDeadlock
    <3>1. NobodyMoves /\ UNCHANGED stuckVars /\ ~ awakening
      BY <2>1, ScanIsComplete DEF DeadlockInv, DeclareDeadlock, stuckVars
    <3>2. phase' \in {"schedule", "deadlock"} /\ ~ awakening'
      BY <2>1, <3>1 DEF DeclareDeadlock, EnterScheduler
    <3> QED BY <1>1, <3>1, <3>2 DEF RetriesStay
  <2>2. CASE SleepUntilAwakening
    <3>1. grace = 0 /\ grace' = 0 /\ phase' = "schedule"
      BY <1>0, <2>2 DEF SleepUntilAwakening, EnterScheduler, DeadlockInv, RetriesStay
    <3> QED BY <3>1 DEF RetriesStay
  <2>3. CASE PassesBy
    <3>1. /\ UNCHANGED <<stuckVars, grace>> /\ phase' = "schedule"
          /\ awakening' = awakening /\ phase = "schedule"
      BY <1>0, <2>3 DEF PassesBy, KeepScanning
    <3> QED BY <1>1, <3>1 DEF DeadlockInv, RetriesStay
  <2>4. CASE Finds \/ TimesOut
    <3>0. phase = "schedule" /\ grace' = grace /\ ~ Stays(Candidate)
      BY <2>4 DEF Finds, TimesOut
    <3>1. phase' # "deadlock"
      <4>1. CASE Finds
        BY <4>1 DEF Finds
      <4>2. CASE TimesOut
        BY <4>2 DEF TimesOut, KeepScanning
      <4> QED BY <2>4, <4>1, <4>2
    <3>2. grace = 0
      <4>1. Candidate \in Existing /\ ~ Stays(Candidate)
        BY <1>0, <3>0, ThreadsAssumption DEF Candidate, Existing
      <4> QED BY <1>0, <4>1 DEF DeadlockInv, RetriesStay, NobodyMoves
    <3> QED BY <3>0, <3>1, <3>2 DEF RetriesStay
  <2> QED BY <1>2, <2>1, <2>2, <2>3, <2>4, ExaminedStep
<1>3. CASE GuestStep
  <2>1. phase = "run" /\ phase' # "deadlock" /\ grace' = grace
    BY <1>3, GuestPhase
  <2> QED BY <1>0, <2>1 DEF DeadlockInv, RetriesStay
<1>4. CASE UNCHANGED vars
  <2>1. UNCHANGED <<stuckVars, grace, phase, awakening>>
    BY <1>4 DEF vars, threadVars, stuckVars
  <2> QED BY <1>1, <2>1 DEF DeadlockInv, RetriesStay
<1> QED BY <1>2, <1>3, <1>4 DEF Next

LEMMA DeadlockStep == ASSUME TypeOK, DeadlockInv, [Next]_vars PROVE DeadlockInv'
<1>1. ScannedStay'
  <2>1. CASE ScanStep
    BY <2>1, ScanKeepsStay DEF DeadlockInv
  <2>2. CASE GuestStep
    BY <2>2, GuestPhase DEF ScannedStay, Passed
  <2>3. CASE UNCHANGED vars
    <3>1. UNCHANGED <<stuckVars, phase, current, scan, awakening>>
      BY <2>3 DEF vars, threadVars, stuckVars
    <3>2. \A t \in ThreadId : Stays(t)' <=> Stays(t)
      BY <3>1, StaysUnchanged
    <3> QED BY <3>1, <3>2, ThreadTypes
            DEF DeadlockInv, ScannedStay, Passed, Existing, stuckVars
  <2> QED BY <2>1, <2>2, <2>3 DEF Next
<1> QED BY <1>1, RetriesKeepStay DEF DeadlockInv

LEMMA DeadlockInvariant == Spec => []DeadlockInv
<1>1. Init => DeadlockInv
  BY DEF Init, ThreadsInit, DeadlockInv, ScannedStay, RetriesStay
<1>2. TypeOK /\ DeadlockInv /\ [Next]_vars => DeadlockInv'
  BY DeadlockStep
<1> QED BY <1>1, <1>2, TypeCorrect, PTL DEF Spec

\* Whatever the guest does, no thread runs between the first scan that found
\* neither a thread nor a deadline and the panic: the retries are in vain.
THEOREM DeadlockFinal == Spec => []DeadlockIsFinal
<1>1. DeadlockInv => DeadlockIsFinal
  BY DEF DeadlockInv, RetriesStay, DeadlockIsFinal
<1> QED BY <1>1, DeadlockInvariant, PTL

-----------------------------------------------------------------------------
(***************************************************************************)
(* Theorems about guests that keep the documented preconditions            *)
(* (PosixGuest): the monitor they build on the emulator's mutexes and      *)
(* condition variables works, and the only assertions of the emulator's    *)
(* own that can fail are the two that a pthread_cond_destroy meets whose   *)
(* waiters have not all returned.  With Misuse = {} that call waits for    *)
(* them, and none fails.                                                   *)
(*                                                                         *)
(* All of them follow from LawfulInv, which holds until such a panic.  The *)
(* steps that leave the condition variables and the threads blocked on     *)
(* them alone are dealt with together; the others one by one.              *)
(***************************************************************************)
\* The guest may destroy a condition variable as soon as all its waiters are
\* signalled or timed out, as POSIX says; it breaks no other precondition.
PosixGuest == Misuse \subseteq {"destroy_signalled_cond"}

\* What is left after a panic that a pthread_cond_destroy leads to.
AfterPanic == phase = "panic" /\ CondQueuesConsistent /\ CondMutexAgree

\* Such a panic.
DestroyPanic == AfterPanic' /\ (DestroysSignalled \/ ReturnsToDestroyed)

-----------------------------------------------------------------------------
(***************************************************************************)
(* Frames and mutexes.                                                     *)
(***************************************************************************)
\* The frame of a thread inside pthread_cond_wait has what it was given.
LEMMA FrameIsFrame ==
    \A c \in Conds : \A m, timed :
        /\ Frame(c, m, timed) # NoFrame
        /\ Frame(c, m, timed).cond = c
        /\ Frame(c, m, timed).mutex = m
        /\ Frame(c, m, timed).timed = timed
BY CondAssumption DEF Frame, NoFrame

\* Mutexes that exist have ids.
LEMMA MutexIdTypes == TypeOK => mutexes \subseteq MutexId
BY MutexAssumption DEF TypeOK, MutexTypeOK, MutexId

-----------------------------------------------------------------------------
(***************************************************************************)
(* Quiet steps: no thread starts or stops to be blocked on a condition     *)
(* variable, and none enters or leaves pthread_cond_wait.                  *)
(***************************************************************************)
SameWaiters ==
    \A t \in ThreadId, c \in Conds, timed \in BOOLEAN :
        blockedBy'[t] = OnCond(c, timed) <=> blockedBy[t] = OnCond(c, timed)

Quiet == UNCHANGED <<condVars, frame>> /\ SameWaiters /\ phase' # "panic"

KeepsPlaces ==
    \A t \in ThreadId :
        frame[t] # NoFrame => frame[t].mutex \in mutexes' /\ FramePlace(t)'

\* What leaves the condition variables, their waiters and the places of the
\* threads inside waits alone preserves the invariant.
LEMMA QuietKeeps ==
    LawfulInv /\ Quiet /\ KeepsPlaces /\ AwaitedExists' /\ RunnerUnblocked'
        => LawfulInv'
<1> SUFFICES ASSUME LawfulInv, Quiet, KeepsPlaces, AwaitedExists', RunnerUnblocked'
             PROVE  LawfulInv'
  OBVIOUS
<1>0. /\ UNCHANGED <<conds, waiting, waking, currMutex, timedOut, frame>>
      /\ SameWaiters
  BY DEF Quiet, condVars
<1>1. \A t \in ThreadId, c \in Conds : BlockedOnCond(t, c)' <=> BlockedOnCond(t, c)
  BY <1>0 DEF SameWaiters, BlockedOnCond
<1>2. CondQueuesConsistent'
  <2> SUFFICES ASSUME NEW c \in Conds
               PROVE  /\ Distinct(waiting'[c])
                      /\ Distinct(waking'[c])
                      /\ Elems(waiting'[c]) \cap Elems(waking'[c]) = {}
                      /\ \A t \in ThreadId :
                          t \in Elems(waiting'[c]) \cup Elems(waking'[c])
                              <=> BlockedOnCond(t, c)'
    BY DEF CondQueuesConsistent
  <2> QED
    BY <1>0, <1>1 DEF LawfulInv, CondQueuesConsistent
<1>3. FramesConsistent'
  BY <1>0 DEF LawfulInv, FramesConsistent, KeepsPlaces
<1>4. WaitersConsistent'
  <2> SUFFICES ASSUME NEW t \in ThreadId, NEW c \in Conds, BlockedOnCond(t, c)'
               PROVE  /\ c \in conds
                      /\ frame[t] = Frame(c, currMutex[c], blockedBy'[t] = OnCond(c, TRUE))
                      /\ t \notin timedOut[c]
    BY <1>0 DEF WaitersConsistent
  <2>1. BlockedOnCond(t, c)
    BY <1>1
  <2>2. (blockedBy'[t] = OnCond(c, TRUE)) = (blockedBy[t] = OnCond(c, TRUE))
    BY <1>0 DEF SameWaiters
  <2> QED
    BY <2>1, <2>2 DEF LawfulInv, WaitersConsistent
<1>5. TimedOutConsistent'
  BY <1>0 DEF LawfulInv, TimedOutConsistent
<1>6. NoHostPanic'
  BY DEF Quiet, NoHostPanic
<1> QED
  BY <1>2, <1>3, <1>4, <1>5, <1>6 DEF LawfulInv

-----------------------------------------------------------------------------
(***************************************************************************)
(* Calls of the guest that are quiet: what the running thread is blocked   *)
(* on afterwards exists, and so does all that other threads wait for.      *)
(***************************************************************************)
KeepsAwaited ==
    \A t \in ThreadId :
        /\ frame[t] # NoFrame => frame[t].mutex \in mutexes'
        /\ \A m \in MutexId : blockedBy[t] = OnMutex(m) => m \in mutexes'
        /\ \A s \in Sems : blockedBy[t] = OnSemaphore(s) => s \in openSems'

MayBlockOn(b) ==
    /\ ~ IsWaiter(b)
    /\ \A m \in MutexId : b = OnMutex(m) => m \in mutexes'
    /\ \A s \in Sems : b = OnSemaphore(s) => s \in openSems'

QuietCall(b) ==
    /\ phase = "run" /\ frame[current] = NoFrame
    /\ phase' # "panic"
    /\ UNCHANGED <<condVars, frame>>
    /\ blockedBy' \in {blockedBy, [blockedBy EXCEPT ![current] = b]}
    /\ MayBlockOn(b)
    /\ KeepsAwaited

\* A call by guest code that at most blocks its caller, on something other than
\* a condition variable, preserves it.
LEMMA QuietCallKeeps ==
    ASSUME TypeOK, LawfulInv, RunnerUnblocked', NEW b, QuietCall(b)
    PROVE  LawfulInv'
<1>0. \A t \in ThreadId : \/ blockedBy'[t] = blockedBy[t]
                          \/ t = current /\ blockedBy'[t] = b
  BY ThreadTypes DEF QuietCall
<1>1. blockedBy[current] = NotBlocked
  BY DEF LawfulInv, RunnerUnblocked, QuietCall
<1>2. SameWaiters
  <2> SUFFICES ASSUME NEW t \in ThreadId, NEW c \in Conds, NEW timed \in BOOLEAN
               PROVE  blockedBy'[t] = OnCond(c, timed) <=> blockedBy[t] = OnCond(c, timed)
    BY DEF SameWaiters
  <2>1. b # OnCond(c, timed)
    BY DEF QuietCall, MayBlockOn, IsWaiter
  <2>2. blockedBy[current] # OnCond(c, timed)
    BY <1>1, WaiterKinds
  <2> QED
    BY <1>0, <2>1, <2>2
<1>3. Quiet
  BY <1>2 DEF Quiet, QuietCall
<1>4. KeepsPlaces
  <2> SUFFICES ASSUME NEW t \in ThreadId, frame[t] # NoFrame
               PROVE  frame[t].mutex \in mutexes' /\ FramePlace(t)'
    BY DEF KeepsPlaces
  <2>1. t # current /\ frame' = frame /\ frame[t].mutex \in mutexes'
    BY DEF QuietCall, KeepsAwaited
  <2>2. blockedBy'[t] = blockedBy[t]
    BY <1>0, <2>1
  <2>3. FramePlace(t)
    BY DEF LawfulInv, FramesConsistent
  <2> QED
    BY <2>1, <2>2, <2>3 DEF FramePlace, BlockedOnCond
<1>5. AwaitedExists'
  BY <1>0 DEF AwaitedExists, QuietCall, KeepsAwaited, MayBlockOn
<1> QED
  BY <1>3, <1>4, <1>5, QuietKeeps

\* A call that destroys nothing keeps what is awaited.
LEMMA GrowthKeepsAwaited ==
    ASSUME TypeOK, LawfulInv, mutexes \subseteq mutexes', openSems \subseteq openSems'
    PROVE  KeepsAwaited
BY DEF LawfulInv, FramesConsistent, AwaitedExists, KeepsAwaited

\* The calls of module Threads.
LEMMA ThreadStepLawful ==
    ASSUME TypeOK, LawfulInv, RunnerUnblocked', ThreadStep,
           UNCHANGED <<mutexVars, condVars, semVars>>
    PROVE  LawfulInv'
<1>0. /\ UNCHANGED <<mutexes, openSems, condVars>>
      /\ KeepsAwaited
  BY GrowthKeepsAwaited DEF mutexVars, semVars
<1>1. /\ MayBlockOn(NotBlocked)
      /\ MayBlockOn(Sleeping)
      /\ \A t : MayBlockOn(Joining(t))
  BY BlockKinds DEF MayBlockOn
<1>2. phase = "run" /\ frame[current] = NoFrame /\ UNCHANGED frame /\ phase' # "panic"
  <2>1. CASE Preempt \/ ThreadExit \/ Sleep \/ \E t \in ThreadId : JoinWithThread(t)
    BY <2>1 DEF Preempt, ThreadExit, Sleep, JoinWithThread, Calls, YieldThread,
                EnterScheduler
  <2>2. CASE NewThread \/ \E t \in ThreadId : ResumeThread(t)
    BY <2>2 DEF NewThread, ResumeThread, Calls, schedVars
  <2>3. CASE \E t \in ThreadId : SuspendThread(t)
    BY <2>3 DEF SuspendThread, Calls, EnterScheduler, schedVars
  <2> QED
    BY <2>1, <2>2, <2>3 DEF ThreadStep
<1>3. \E b : /\ MayBlockOn(b)
             /\ blockedBy' \in {blockedBy, [blockedBy EXCEPT ![current] = b]}
  <2>1. CASE Preempt \/ Sleep \/ \E t \in ThreadId : JoinWithThread(t)
    BY <1>1, <2>1 DEF Preempt, Sleep, JoinWithThread, YieldThread
  <2>2. CASE ThreadExit \/ \E t \in ThreadId : ResumeThread(t) \/ SuspendThread(t)
    BY <1>1, <2>2 DEF ThreadExit, ResumeThread, SuspendThread
  <2>3. CASE NewThread
    <3>1. len \in ThreadId \ Existing
      BY <2>3, ThreadsAssumption
      DEF NewThread, TypeOK, ThreadsTypeOK, PositionTypeOK, ThreadId, Existing
    <3>2. blockedBy[len] = NotBlocked /\ blockedBy \in [ThreadId -> ThreadBlock]
      BY <3>1 DEF TypeOK, ThreadsTypeOK, TableTypeOK
    <3>3. blockedBy' = [blockedBy EXCEPT ![len] = NotBlocked]
      BY <2>3 DEF NewThread
    <3>4. blockedBy' = blockedBy
      BY <3>2, <3>3
    <3> QED
      BY <1>1, <3>4
  <2> QED
    BY <2>1, <2>2, <2>3 DEF ThreadStep
<1>4. PICK b : QuietCall(b)
  BY <1>0, <1>2, <1>3 DEF QuietCall
<1> QED
  BY <1>4, QuietCallKeeps

\* The calls on semaphores: none that a thread waits for is destroyed.
LEMMA SemStepLawful ==
    ASSUME PosixGuest, TypeOK, LawfulInv, RunnerUnblocked', SemStep,
           UNCHANGED <<mutexVars, condVars>>
    PROVE  LawfulInv'
<1> PICK s \in Sems : \/ \E value \in 0 .. MaxValue : SemInit(s, value)
                      \/ SemDestroy(s)
                      \/ SemPost(s)
                      \/ SemWait(s)
  BY DEF SemStep
<1>0. UNCHANGED <<mutexes, condVars>>
  BY DEF mutexVars
<1>1. MayBlockOn(NotBlocked)
  BY BlockKinds DEF MayBlockOn
<1>2. CASE \/ \E value \in 0 .. MaxValue : SemInit(s, value)
           \/ SemPost(s)
  <2>1. mutexes \subseteq mutexes' /\ openSems \subseteq openSems'
    BY <1>0, <1>2 DEF SemInit, SemPost
  <2>2. QuietCall(NotBlocked)
    BY <1>0, <1>1, <1>2, <2>1, GrowthKeepsAwaited
    DEF SemInit, SemPost, Calls, threadVars, QuietCall
  <2> QED
    BY <2>2, QuietCallKeeps
<1>3. CASE SemWait(s)
  <2>1. UNCHANGED openSems /\ s \in openSems
    BY <1>3 DEF SemWait
  <2>2. KeepsAwaited
    BY <1>0, <2>1, GrowthKeepsAwaited
  <2>3. MayBlockOn(OnSemaphore(s))
    BY <2>1, BlockKinds DEF MayBlockOn
  <2>4. QuietCall(OnSemaphore(s))
    BY <1>0, <1>3, <2>2, <2>3
    DEF SemWait, Calls, threadVars, YieldThread, EnterScheduler, QuietCall
  <2> QED
    BY <2>4, QuietCallKeeps
<1>4. CASE SemDestroy(s)
  <2>1. \A t \in Existing : blockedBy[t] # OnSemaphore(s)
    BY <1>4 DEF SemDestroy, Lawful, PosixGuest
  <2>2. \A t \in ThreadId : blockedBy[t] # OnSemaphore(s)
    BY <2>1, ThreadTypes, BlockKinds
  <2>3. openSems' = openSems \ {s} /\ UNCHANGED threadVars
    BY <1>4 DEF SemDestroy
  <2>4. KeepsAwaited
    BY <1>0, <2>2, <2>3
    DEF LawfulInv, FramesConsistent, AwaitedExists, KeepsAwaited
  <2>5. QuietCall(NotBlocked)
    BY <1>0, <1>1, <1>4, <2>3, <2>4 DEF SemDestroy, Calls, threadVars, QuietCall
  <2> QED
    BY <2>5, QuietCallKeeps
<1> QED
  BY <1>2, <1>3, <1>4

\* The calls on mutexes: none that a thread waits for, or gave up for a wait,
\* is destroyed.
LEMMA MutexStepLawful ==
    ASSUME PosixGuest, TypeOK, LawfulInv, RunnerUnblocked', MutexStep,
           UNCHANGED <<condVars, semVars>>
    PROVE  LawfulInv'
<1>0. UNCHANGED <<openSems, condVars>>
  BY DEF semVars
<1>1. MayBlockOn(NotBlocked)
  BY BlockKinds DEF MayBlockOn
<1>2. ASSUME NEW type \in MutexTypes, InitMutex(type)
      PROVE  LawfulInv'
  <2>1. mutexes \subseteq mutexes'
    BY <1>2 DEF InitMutex
  <2>2. KeepsAwaited
    BY <1>0, <2>1, GrowthKeepsAwaited
  <2>3. QuietCall(NotBlocked)
    BY <1>0, <1>1, <1>2, <2>2 DEF InitMutex, Calls, threadVars, QuietCall
  <2> QED
    BY <2>3, QuietCallKeeps
<1>3. ASSUME NEW m \in MutexId, UnlockMutex(m)
      PROVE  LawfulInv'
  <2>1. UNCHANGED mutexes
    BY <1>3 DEF UnlockMutex, lockVars
  <2>2. KeepsAwaited
    BY <1>0, <2>1, GrowthKeepsAwaited
  <2>3. QuietCall(NotBlocked)
    BY <1>0, <1>1, <1>3, <2>2 DEF UnlockMutex, Calls, threadVars, QuietCall
  <2> QED
    BY <2>3, QuietCallKeeps
<1>4. ASSUME NEW m \in MutexId, LockMutex(m)
      PROVE  LawfulInv'
  <2>1. UNCHANGED mutexes /\ m \in mutexes
    BY <1>4 DEF LockMutex, lockVars
  <2>2. KeepsAwaited
    BY <1>0, <2>1, GrowthKeepsAwaited
  <2>3. MayBlockOn(OnMutex(m))
    BY <2>1, BlockKinds DEF MayBlockOn
  <2>4. QuietCall(OnMutex(m))
    BY <1>0, <1>4, <2>2, <2>3
    DEF LockMutex, Calls, threadVars, YieldThread, EnterScheduler, QuietCall
  <2> QED
    BY <2>4, QuietCallKeeps
<1>5. ASSUME NEW m \in MutexId, DestroyMutex(m)
      PROVE  LawfulInv'
  <2>1. \A t \in Existing : blockedBy[t] # OnMutex(m) /\ frame[t].mutex # m
    BY <1>5 DEF DestroyMutex, Lawful, PosixGuest
  <2>2. \A t \in ThreadId : /\ blockedBy[t] # OnMutex(m)
                            /\ frame[t] # NoFrame => frame[t].mutex # m
    BY <2>1, ThreadTypes, BlockKinds
  <2>3. mutexes' = mutexes \ {m} /\ UNCHANGED threadVars
    BY <1>5 DEF DestroyMutex
  <2>4. KeepsAwaited
    BY <1>0, <2>2, <2>3
    DEF LawfulInv, FramesConsistent, AwaitedExists, KeepsAwaited
  <2>5. QuietCall(NotBlocked)
    BY <1>0, <1>1, <1>5, <2>3, <2>4 DEF DestroyMutex, Calls, threadVars, QuietCall
  <2> QED
    BY <2>5, QuietCallKeeps
<1> QED
  BY <1>2, <1>3, <1>4, <1>5 DEF MutexStep

-----------------------------------------------------------------------------
(***************************************************************************)
(* Quiet steps of the scan: at most one thread changes, which is not       *)
(* blocked on a condition variable and is let through.                     *)
(***************************************************************************)
QuietScan(t) ==
    /\ phase = "schedule"
    /\ phase' # "panic"
    /\ UNCHANGED <<condVars, frame, mutexes, openSems>>
    /\ \/ UNCHANGED blockedBy
       \/ /\ ~ IsWaiter(blockedBy[t])
          /\ blockedBy' = [blockedBy EXCEPT ![t] = NotBlocked]
          /\ frame[t] # NoFrame => FramePlace(t)'

\* An iteration of the scan that leaves alone or dispatches a thread that is
\* not a condition waiter preserves it.
LEMMA QuietScanKeeps ==
    ASSUME TypeOK, LawfulInv, RunnerUnblocked', NEW t \in ThreadId, QuietScan(t)
    PROVE  LawfulInv'
<1>0. \A u \in ThreadId : \/ blockedBy'[u] = blockedBy[u]
                          \/ /\ u = t /\ blockedBy'[u] = NotBlocked
                             /\ ~ IsWaiter(blockedBy[u])
                             /\ frame[u] # NoFrame => FramePlace(u)'
  BY ThreadTypes DEF QuietScan
<1>1. SameWaiters
  BY <1>0, WaiterKinds DEF SameWaiters, IsWaiter
<1>2. Quiet
  BY <1>1 DEF Quiet, QuietScan
<1>3. KeepsPlaces
  <2> SUFFICES ASSUME NEW u \in ThreadId, frame[u] # NoFrame
               PROVE  frame[u].mutex \in mutexes' /\ FramePlace(u)'
    BY DEF KeepsPlaces
  <2>1. frame' = frame /\ frame[u].mutex \in mutexes' /\ FramePlace(u)
    BY DEF QuietScan, LawfulInv, FramesConsistent
  <2>2. CASE blockedBy'[u] = blockedBy[u]
    BY <2>1, <2>2 DEF FramePlace, BlockedOnCond, QuietScan
  <2> QED
    BY <1>0, <2>1, <2>2
<1>4. AwaitedExists'
  <2>1. UNCHANGED <<mutexes, openSems>> /\ AwaitedExists
    BY DEF QuietScan, LawfulInv
  <2> QED
    BY <1>0, <2>1, BlockKinds DEF AwaitedExists
<1> QED
  BY <1>2, <1>3, <1>4, QuietKeeps

\* A thread that is not inside pthread_cond_wait, as the scan can tell.
LEMMA Frameless ==
    ASSUME TypeOK, LawfulInv, phase = "schedule", NEW t \in ThreadId,
           ~ IsWaiter(blockedBy[t]), \A m \in MutexId : blockedBy[t] # OnMutex(m)
    PROVE  frame[t] = NoFrame
<1> SUFFICES ASSUME frame[t] # NoFrame PROVE FALSE
  OBVIOUS
<1>1. frame[t].cond \in Conds /\ frame[t].mutex \in mutexes /\ FramePlace(t)
  BY DEF LawfulInv, FramesConsistent
<1>2. frame[t].mutex \in MutexId
  BY <1>1, MutexIdTypes
<1>3. ~ BlockedOnCond(t, frame[t].cond)
  BY <1>1 DEF BlockedOnCond, IsWaiter
<1> QED
  BY <1>1, <1>2, <1>3 DEF FramePlace

\* The branches of the scan for blocks other than conditions, and a waiter that
\* goes on waiting.
LEMMA QuietScanStep ==
    ASSUME TypeOK, LawfulInv, RunnerUnblocked', NEW t \in ThreadId,
           \/ ScanNotBlocked(t)
           \/ \E expired \in BOOLEAN : ScanSleeping(t, expired)
           \/ ScanMutex(t)
           \/ ScanSemaphore(t)
           \/ ScanJoining(t)
           \/ \E c \in Conds : ScanCondWait(t, c)
    PROVE  LawfulInv'
<1> SUFFICES QuietScan(t)
  BY QuietScanKeeps
<1>0. phase = "schedule"
  BY DEF ScanNotBlocked, ScanSleeping, ScanMutex, ScanSemaphore, ScanJoining,
         ScanCondWait, ExaminesWaiter, Examines
<1>1. ASSUME \/ blockedBy[t] \in {NotBlocked, Sleeping}
             \/ \E x : blockedBy[t] = OnSemaphore(x) \/ blockedBy[t] = Joining(x)
      PROVE  ~ IsWaiter(blockedBy[t]) /\ frame[t] = NoFrame
  <2>1. ~ IsWaiter(blockedBy[t]) /\ \A m \in MutexId : blockedBy[t] # OnMutex(m)
    BY <1>1, BlockKinds
  <2> QED
    BY <1>0, <2>1, Frameless
<1>2. CASE \/ ScanNotBlocked(t)
           \/ \E expired \in BOOLEAN : ScanSleeping(t, expired)
           \/ ScanJoining(t)
  <2>1. ~ IsWaiter(blockedBy[t]) /\ frame[t] = NoFrame
    BY <1>1, <1>2 DEF ScanNotBlocked, ScanSleeping, ScanJoining
  <2>2. UNCHANGED <<frame, mutexVars, condVars, semVars>>
    BY <1>2 DEF ScanNotBlocked, ScanSleeping, ScanJoining
  <2>3. phase' # "panic"
    BY <1>0, <1>2 DEF ScanNotBlocked, ScanSleeping, ScanJoining, Dispatch, KeepScanning
  <2>4. UNCHANGED blockedBy \/ blockedBy' = [blockedBy EXCEPT ![t] = NotBlocked]
    BY <1>2 DEF ScanNotBlocked, ScanSleeping, ScanJoining, Dispatch
  <2> QED
    BY <1>0, <2>1, <2>2, <2>3, <2>4 DEF QuietScan, mutexVars, semVars
<1>3. CASE \E c \in Conds : ScanCondWait(t, c)
  BY <1>0, <1>3 DEF ScanCondWait, KeepScanning, QuietScan, mutexVars, semVars
<1>4. CASE ScanSemaphore(t)
  <2>1. PICK s \in Sems : blockedBy[t] = OnSemaphore(s)
    BY <1>4 DEF ScanSemaphore
  <2>2. s \in openSems
    BY <2>1 DEF LawfulInv, AwaitedExists
  <2>3. \A x \in Sems : blockedBy[t] = OnSemaphore(x) => x = s
    BY <2>1, BlockKinds
  <2>4. ~ IsWaiter(blockedBy[t]) /\ frame[t] = NoFrame
    BY <1>1, <2>1
  <2>5. /\ UNCHANGED <<frame, mutexVars, condVars, openSems>>
        /\ \/ KeepScanning(FALSE) /\ UNCHANGED blockedBy
           \/ Dispatch(t)
    BY <1>4, <2>2, <2>3 DEF ScanSemaphore, semVars
  <2> QED
    BY <1>0, <2>4, <2>5 DEF QuietScan, mutexVars, KeepScanning, Dispatch
<1>5. CASE ScanMutex(t)
  <2>1. PICK m \in MutexId :
          /\ blockedBy[t] = OnMutex(m)
          /\ IF MutexIsLocked(m)
             THEN KeepScanning(FALSE) /\ UNCHANGED <<blockedBy, mutexVars>>
             ELSE Relock(t, m)
    BY <1>5 DEF ScanMutex
  <2>2. m \in mutexes /\ ~ IsWaiter(blockedBy[t])
    BY <2>1, BlockKinds DEF LawfulInv, AwaitedExists
  <2>3. UNCHANGED <<frame, condVars, semVars>>
    BY <1>5 DEF ScanMutex
  <2>4. CASE MutexIsLocked(m)
    BY <1>0, <2>1, <2>3, <2>4 DEF QuietScan, mutexVars, semVars, KeepScanning
  <2>5. CASE ~ MutexIsLocked(m)
    <3>1. RelockUnblockedMutex(t, m) /\ Dispatch(t)
      BY <2>1, <2>2, <2>5 DEF Relock
    <3>2. owner'[m] = t /\ UNCHANGED mutexes
      BY <3>1 DEF RelockUnblockedMutex, Take, TypeOK, MutexTypeOK
    <3>3. frame[t] # NoFrame => frame[t].mutex = m /\ frame[t].timed
      <4>1. \A c : ~ BlockedOnCond(t, c)
        BY <2>1, WaiterKinds DEF BlockedOnCond
      <4> QED
        BY <1>0, <2>1, <4>1, BlockKinds DEF LawfulInv, FramesConsistent, FramePlace
    <3>4. frame[t] # NoFrame => FramePlace(t)'
      BY <2>3, <3>1, <3>2, <3>3 DEF FramePlace, Dispatch
    <3> QED
      BY <1>0, <2>2, <2>3, <3>1, <3>2, <3>4 DEF QuietScan, Dispatch, semVars
  <2> QED
    BY <2>4, <2>5
<1> QED
  BY <1>2, <1>3, <1>4, <1>5

\* The iterations of the scan that examine no thread, and its end.
LEMMA OtherScanStep ==
    ASSUME TypeOK, LawfulInv, RunnerUnblocked',
           ScanSkip \/ SleepUntilAwakening \/ DeclareDeadlock
    PROVE  LawfulInv'
<1>1. /\ phase = "schedule" /\ phase' # "panic"
      /\ UNCHANGED <<blockedBy, frame, mutexVars, condVars, semVars>>
  BY DEF ScanSkip, SleepUntilAwakening, DeclareDeadlock, ScanDone, KeepScanning,
         EnterScheduler
<1>2. QuietScan(current)
  BY <1>1 DEF QuietScan, mutexVars, semVars
<1> QED
  BY <1>2, ThreadTypes, QuietScanKeeps

-----------------------------------------------------------------------------
(***************************************************************************)
(* The queues of a condition variable.                                     *)
(***************************************************************************)
\* What CondQueuesConsistent says of condition variable c.
QueuesOf(c) ==
    /\ Distinct(waiting[c])
    /\ Distinct(waking[c])
    /\ Elems(waiting[c]) \cap Elems(waking[c]) = {}
    /\ \A t \in ThreadId :
        t \in Elems(waiting[c]) \cup Elems(waking[c]) <=> BlockedOnCond(t, c)

\* What the type says of a single condition variable.
LEMMA QueueTypes ==
    ASSUME TypeOK, NEW c \in Conds
    PROVE  /\ waiting[c] \in Seq(ThreadId) /\ waking[c] \in Seq(ThreadId)
           /\ Elems(waiting[c]) \subseteq ThreadId
           /\ Elems(waking[c]) \subseteq ThreadId
           /\ DOMAIN waiting = Conds /\ DOMAIN waking = Conds
           /\ DOMAIN currMutex = Conds /\ DOMAIN timedOut = Conds
<1>1. waiting[c] \in Seq(ThreadId) /\ waking[c] \in Seq(ThreadId)
  BY DEF TypeOK, CondTypeOK
<1>2. \A q \in Seq(ThreadId) : Elems(q) \subseteq ThreadId
  BY DEF Elems
<1> QED
  BY <1>1, <1>2 DEF TypeOK, CondTypeOK

\* The empty queue.
LEMMA EmptyQueue == Elems(<<>>) = {} /\ Distinct(<<>>)
BY DEF Elems, Distinct

\* A queue that is not empty has a member.
LEMMA NonEmptyQueue ==
    ASSUME NEW S, NEW q \in Seq(S), q # <<>>
    PROVE  \E x \in S : x \in Elems(q)
BY QueueTail

\* A waiter's frame names the mutex of its condition variable, which exists.
LEMMA WaiterFrame ==
    ASSUME TypeOK, LawfulInv, NEW t \in ThreadId, NEW c \in Conds, BlockedOnCond(t, c)
    PROVE  /\ frame[t] # NoFrame
           /\ frame[t].cond = c /\ frame[t].mutex = currMutex[c]
           /\ frame[t].timed <=> blockedBy[t] = OnCond(c, TRUE)
           /\ t \notin timedOut[c]
           /\ c \in conds
           /\ currMutex[c] \in mutexes /\ currMutex[c] \in MutexId
           /\ currMutex[c] # NoObject
<1>1. frame[t] = Frame(c, currMutex[c], blockedBy[t] = OnCond(c, TRUE))
      /\ t \notin timedOut[c]
  BY DEF LawfulInv, WaitersConsistent
<1>2. /\ frame[t] # NoFrame
      /\ frame[t].cond = c /\ frame[t].mutex = currMutex[c]
      /\ frame[t].timed <=> blockedBy[t] = OnCond(c, TRUE)
  <2>1. PICK timed \in BOOLEAN : /\ timed <=> blockedBy[t] = OnCond(c, TRUE)
                                 /\ frame[t] = Frame(c, currMutex[c], timed)
    BY <1>1
  <2>2. /\ Frame(c, currMutex[c], timed) # NoFrame
        /\ Frame(c, currMutex[c], timed).cond = c
        /\ Frame(c, currMutex[c], timed).mutex = currMutex[c]
    BY FrameIsFrame
  <2>3. Frame(c, currMutex[c], timed).timed = timed
    BY DEF Frame
  <2>4. frame[t].timed = timed
    BY <2>1, <2>3
  <2>5. frame[t] # NoFrame /\ frame[t].cond = c /\ frame[t].mutex = currMutex[c]
    BY <2>1, <2>2
  <2> QED
    BY <2>1, <2>4, <2>5
<1>3. c \in conds /\ currMutex[c] \in mutexes
  BY <1>2 DEF LawfulInv, FramesConsistent, WaitersConsistent
<1>4. currMutex[c] \in MutexId /\ currMutex[c] # NoObject
  BY <1>3, MutexIdTypes, CondAssumption
<1> QED
  BY <1>1, <1>2, <1>3, <1>4

\* Thread t leaves the queues of c: it is signalled or timed out.
LeaveQueues(t, c, b) ==
    /\ blockedBy' = [blockedBy EXCEPT ![t] = b]
    /\ \E q \in Seq(ThreadId) : /\ waiting' = [waiting EXCEPT ![c] = q]
                                /\ Distinct(q)
                                /\ Elems(q) = Elems(waiting[c]) \ {t}
    /\ \E q \in Seq(ThreadId) : /\ waking' = [waking EXCEPT ![c] = q]
                                /\ Distinct(q)
                                /\ Elems(q) = Elems(waking[c]) \ {t}

\* A waiter that leaves both queues and the condition block together keeps the
\* two in step.
LEMMA LeaveQueuesKeeps ==
    ASSUME TypeOK, LawfulInv, NEW t \in ThreadId, NEW c \in Conds, NEW b,
           BlockedOnCond(t, c), ~ IsWaiter(b), LeaveQueues(t, c, b)
    PROVE  CondQueuesConsistent'
<1> SUFFICES ASSUME NEW d \in Conds PROVE QueuesOf(d)'
  BY DEF CondQueuesConsistent, QueuesOf
<1>0. QueuesOf(d)
  BY DEF LawfulInv, CondQueuesConsistent, QueuesOf
<1>1. ~ BlockedOnCond(t, d)'
  BY ThreadTypes DEF LeaveQueues, BlockedOnCond, IsWaiter
<1>2. \A u \in ThreadId \ {t} : BlockedOnCond(u, d)' <=> BlockedOnCond(u, d)
  BY ThreadTypes DEF LeaveQueues, BlockedOnCond
<1>3. CASE d = c
  <2>1. /\ Distinct(waiting'[c]) /\ Elems(waiting'[c]) = Elems(waiting[c]) \ {t}
        /\ Distinct(waking'[c]) /\ Elems(waking'[c]) = Elems(waking[c]) \ {t}
    BY QueueTypes DEF LeaveQueues
  <2> QED
    BY <1>0, <1>1, <1>2, <1>3, <2>1 DEF QueuesOf
<1>4. CASE d # c
  <2>1. waiting'[d] = waiting[d] /\ waking'[d] = waking[d]
    BY <1>4, QueueTypes DEF LeaveQueues
  <2>2. ~ BlockedOnCond(t, d)
    BY <1>4, WaiterKinds DEF BlockedOnCond
  <2> QED
    BY <1>0, <1>1, <1>2, <2>1, <2>2 DEF QueuesOf
<1> QED
  BY <1>3, <1>4

\* The rest of the invariant when a waiter leaves the queues of c.
LEMMA LeaveKeeps ==
    ASSUME TypeOK, LawfulInv, RunnerUnblocked', NEW t \in ThreadId, NEW c \in Conds, NEW b,
           BlockedOnCond(t, c), ~ IsWaiter(b), LeaveQueues(t, c, b),
           phase = "schedule", phase' # "panic", FramePlace(t)',
           UNCHANGED <<conds, currMutex, frame, mutexes, openSems>>,
           \A m \in MutexId : b = OnMutex(m) => m \in mutexes,
           \A s \in Sems : b # OnSemaphore(s),
           \/ UNCHANGED timedOut
           \/ /\ frame[t].timed
              /\ timedOut' = [timedOut EXCEPT ![c] = @ \cup {t}]
    PROVE  LawfulInv'
<1>0. /\ \A u \in ThreadId \ {t} : blockedBy'[u] = blockedBy[u]
      /\ blockedBy'[t] = b
  BY ThreadTypes DEF LeaveQueues
<1>1. \A d \in Conds : timedOut'[d] = timedOut[d] \/ (frame[t].timed /\ d = c /\ timedOut'[d] = timedOut[d] \cup {t})
  BY QueueTypes
<1>2. \A d \in Conds : ~ BlockedOnCond(t, d)'
  BY <1>0 DEF BlockedOnCond, IsWaiter
<1>3. FramesConsistent'
  <2> SUFFICES ASSUME NEW u \in ThreadId, frame[u] # NoFrame
               PROVE  /\ frame[u].cond \in Conds /\ frame[u].mutex \in mutexes
                      /\ FramePlace(u)'
    BY DEF FramesConsistent
  <2>1. frame[u].cond \in Conds /\ frame[u].mutex \in mutexes /\ FramePlace(u)
    BY DEF LawfulInv, FramesConsistent
  <2>2. CASE u # t
    BY <1>0, <2>1, <2>2 DEF FramePlace, BlockedOnCond
  <2> QED
    BY <2>1, <2>2
<1>4. WaitersConsistent'
  <2> SUFFICES ASSUME NEW u \in ThreadId, NEW d \in Conds, BlockedOnCond(u, d)'
               PROVE  /\ d \in conds
                      /\ frame[u] = Frame(d, currMutex[d], blockedBy'[u] = OnCond(d, TRUE))
                      /\ u \notin timedOut'[d]
    BY DEF WaitersConsistent
  <2>1. u # t /\ blockedBy'[u] = blockedBy[u]
    BY <1>0, <1>2
  <2>2. BlockedOnCond(u, d)
    BY <2>1 DEF BlockedOnCond
  <2>3. /\ d \in conds
        /\ frame[u] = Frame(d, currMutex[d], blockedBy[u] = OnCond(d, TRUE))
        /\ u \notin timedOut[d]
    BY <2>2 DEF LawfulInv, WaitersConsistent
  <2>4. u \notin timedOut'[d]
    BY <1>1, <2>1, <2>3
  <2> QED
    BY <2>1, <2>3, <2>4
<1>5. TimedOutConsistent'
  <2>1. frame[t].cond = c
    BY WaiterFrame
  <2> QED
    BY <1>1, <2>1 DEF LawfulInv, TimedOutConsistent
<1>6. AwaitedExists'
  BY <1>0 DEF LawfulInv, AwaitedExists
<1>7. CondQueuesConsistent'
  BY LeaveQueuesKeeps
<1> QED
  BY <1>3, <1>4, <1>5, <1>6, <1>7 DEF LawfulInv, NoHostPanic

\* A free mutex that exists is relocked for the thread the scan lets through.
LEMMA RelockGrants ==
    ASSUME TypeOK, NEW t \in ThreadId, NEW m \in MutexId, m \in mutexes, Relock(t, m)
    PROVE  /\ blockedBy' = [blockedBy EXCEPT ![t] = NotBlocked]
           /\ phase' = "run" /\ current' = t
           /\ owner'[m] = t
           /\ UNCHANGED mutexes
<1>1. RelockUnblockedMutex(t, m) /\ Dispatch(t)
  BY DEF Relock
<1>2. owner'[m] = t
  BY <1>1 DEF RelockUnblockedMutex, Take, TypeOK, MutexTypeOK
<1> QED
  BY <1>1, <1>2 DEF RelockUnblockedMutex, Dispatch

\* The two unwrap() calls of the Condition branch do not fail.
LEMMA CondGoneNever ==
    ASSUME TypeOK, LawfulInv, NEW t \in ThreadId, NEW c \in Conds, ScanCondGone(t, c)
    PROVE  FALSE
<1>1. BlockedOnCond(t, c)
  BY DEF ScanCondGone, ExaminesWaiter, BlockedOnCond
<1> QED
  BY <1>1, WaiterFrame DEF ScanCondGone

\* A signalled waiter that the scan lets through leaves the queues, and gets
\* its mutex.
LEMMA CondWakeLeaves ==
    ASSUME TypeOK, LawfulInv, NEW t \in ThreadId, NEW c \in Conds, ScanCondWake(t, c)
    PROVE  /\ BlockedOnCond(t, c) /\ phase = "schedule" /\ t \in Elems(waking[c])
           /\ ~ MutexIsLocked(currMutex[c]) /\ Relock(t, currMutex[c])
           /\ LeaveQueues(t, c, NotBlocked)
           /\ UNCHANGED <<conds, currMutex, timedOut, frame, semVars>>
<1>1. BlockedOnCond(t, c) /\ phase = "schedule"
  BY DEF ScanCondWake, ExaminesWaiter, Examines, BlockedOnCond
<1>2. /\ UNCHANGED <<conds, waiting, currMutex, timedOut, frame, semVars>>
      /\ waking' = [waking EXCEPT ![c] = Tail(@)]
      /\ waking[c] # <<>> /\ Head(waking[c]) = t
      /\ ~ MutexIsLocked(currMutex[c]) /\ Relock(t, currMutex[c])
  BY DEF ScanCondWake, MayWake
<1>3. blockedBy' = [blockedBy EXCEPT ![t] = NotBlocked]
  BY <1>1, <1>2, WaiterFrame, RelockGrants
<1>4. QueuesOf(c)
  BY DEF LawfulInv, CondQueuesConsistent, QueuesOf
<1>5. /\ Tail(waking[c]) \in Seq(ThreadId)
      /\ Distinct(Tail(waking[c]))
      /\ Elems(Tail(waking[c])) = Elems(waking[c]) \ {t}
      /\ t \in Elems(waking[c])
  BY <1>2, <1>4, QueueTypes, QueueTail DEF QueuesOf
<1>6. Elems(waiting[c]) = Elems(waiting[c]) \ {t}
  BY <1>4, <1>5 DEF QueuesOf
<1>7. /\ waiting' = [waiting EXCEPT ![c] = waiting[c]]
      /\ waking' = [waking EXCEPT ![c] = Tail(waking[c])]
  BY <1>2, QueueTypes DEF TypeOK, CondTypeOK
<1>8. waiting[c] \in Seq(ThreadId) /\ Distinct(waiting[c])
  BY <1>4, QueueTypes DEF QueuesOf
<1>9. LeaveQueues(t, c, NotBlocked)
  BY <1>3, <1>5, <1>6, <1>7, <1>8 DEF LeaveQueues
<1> QED
  BY <1>1, <1>2, <1>5, <1>9

\* It goes on as its owner.
LEMMA CondWakeLawful ==
    ASSUME TypeOK, LawfulInv, RunnerUnblocked',
           NEW t \in ThreadId, NEW c \in Conds, ScanCondWake(t, c)
    PROVE  LawfulInv'
<1>1. /\ BlockedOnCond(t, c) /\ phase = "schedule"
      /\ Relock(t, currMutex[c])
      /\ LeaveQueues(t, c, NotBlocked)
      /\ UNCHANGED <<conds, currMutex, timedOut, frame, semVars>>
  BY CondWakeLeaves
<1>2. /\ currMutex[c] \in mutexes /\ currMutex[c] \in MutexId
      /\ frame[t].mutex = currMutex[c] /\ frame[t] # NoFrame
      /\ frame[t].cond = c /\ c \in conds
  BY <1>1, WaiterFrame
<1>3. /\ blockedBy' = [blockedBy EXCEPT ![t] = NotBlocked]
      /\ phase' = "run" /\ current' = t
      /\ owner'[currMutex[c]] = t
      /\ UNCHANGED mutexes
  BY <1>1, <1>2, RelockGrants
<1>4. FramePlace(t)'
  BY <1>1, <1>2, <1>3 DEF FramePlace
<1>5. /\ ~ IsWaiter(NotBlocked)
      /\ \A m \in MutexId : NotBlocked # OnMutex(m)
      /\ \A s \in Sems : NotBlocked # OnSemaphore(s)
  BY BlockKinds
<1>6. UNCHANGED openSems
  BY <1>1 DEF semVars
<1> QED
  BY <1>1, <1>3, <1>4, <1>5, <1>6, LeaveKeeps

\* A waiter whose deadline passed leaves the queues, and gets the mutex if it is
\* free.
LEMMA CondTimeoutLeaves ==
    ASSUME TypeOK, LawfulInv, NEW t \in ThreadId, NEW c \in Conds, ScanCondTimeout(t, c)
    PROVE  /\ BlockedOnCond(t, c) /\ phase = "schedule" /\ frame[t].timed
           /\ timedOut' = [timedOut EXCEPT ![c] = @ \cup {t}]
           /\ UNCHANGED <<conds, currMutex, frame, openSems>>
           /\ IF MutexIsLocked(currMutex[c])
              THEN /\ LeaveQueues(t, c, OnMutex(currMutex[c]))
                   /\ KeepScanning(FALSE)
                   /\ UNCHANGED mutexVars
              ELSE /\ LeaveQueues(t, c, NotBlocked)
                   /\ Relock(t, currMutex[c])
<1>1. BlockedOnCond(t, c) /\ phase = "schedule" /\ blockedBy[t] = OnCond(c, TRUE)
  BY DEF ScanCondTimeout, ExaminesWaiter, Examines, BlockedOnCond
<1>2. /\ currMutex[c] \in mutexes /\ currMutex[c] \in MutexId
      /\ frame[t].timed
      /\ t \notin timedOut[c]
  BY <1>1, WaiterFrame
<1>3. /\ timedOut' = [timedOut EXCEPT ![c] = @ \cup {t}]
      /\ waking' = [waking EXCEPT ![c] = Without(@, t)]
      /\ waiting' = [waiting EXCEPT ![c] = Without(@, t)]
      /\ UNCHANGED <<conds, currMutex>>
      /\ IF MutexIsLocked(currMutex[c])
         THEN /\ blockedBy' = [blockedBy EXCEPT ![t] = OnMutex(currMutex[c])]
              /\ KeepScanning(FALSE)
              /\ UNCHANGED mutexVars
         ELSE Relock(t, currMutex[c])
  BY <1>2 DEF ScanCondTimeout
<1>4. UNCHANGED <<frame, openSems>>
  BY DEF ScanCondTimeout, semVars
<1>5. QueuesOf(c)
  BY DEF LawfulInv, CondQueuesConsistent, QueuesOf
<1>6. /\ Without(waking[c], t) \in Seq(ThreadId)
      /\ Distinct(Without(waking[c], t))
      /\ Elems(Without(waking[c], t)) = Elems(waking[c]) \ {t}
      /\ Without(waiting[c], t) \in Seq(ThreadId)
      /\ Distinct(Without(waiting[c], t))
      /\ Elems(Without(waiting[c], t)) = Elems(waiting[c]) \ {t}
  BY <1>5, QueueTypes, QueueWithout DEF QueuesOf
<1>7. ASSUME NEW b, blockedBy' = [blockedBy EXCEPT ![t] = b]
      PROVE  LeaveQueues(t, c, b)
  <2>1. /\ waiting' = [waiting EXCEPT ![c] = Without(waiting[c], t)]
        /\ waking' = [waking EXCEPT ![c] = Without(waking[c], t)]
    BY <1>3
  <2> QED
    BY <1>6, <1>7, <2>1 DEF LeaveQueues
<1>8. CASE MutexIsLocked(currMutex[c])
  <2>1. LeaveQueues(t, c, OnMutex(currMutex[c]))
    BY <1>3, <1>7, <1>8
  <2> QED
    BY <1>1, <1>2, <1>3, <1>4, <1>8, <2>1
<1>9. CASE ~ MutexIsLocked(currMutex[c])
  <2>1. LeaveQueues(t, c, NotBlocked)
    BY <1>2, <1>3, <1>7, <1>9, RelockGrants
  <2> QED
    BY <1>1, <1>2, <1>3, <1>4, <1>9, <2>1
<1> QED
  BY <1>8, <1>9

\* It is then where a waiter may be: blocked on the mutex, or its owner.
LEMMA CondTimeoutLawful ==
    ASSUME TypeOK, LawfulInv, RunnerUnblocked',
           NEW t \in ThreadId, NEW c \in Conds, ScanCondTimeout(t, c)
    PROVE  LawfulInv'
<1>1. /\ BlockedOnCond(t, c) /\ phase = "schedule"
      /\ timedOut' = [timedOut EXCEPT ![c] = @ \cup {t}]
      /\ UNCHANGED <<conds, currMutex, frame, openSems>>
      /\ IF MutexIsLocked(currMutex[c])
         THEN /\ LeaveQueues(t, c, OnMutex(currMutex[c]))
              /\ KeepScanning(FALSE)
              /\ UNCHANGED mutexVars
         ELSE /\ LeaveQueues(t, c, NotBlocked)
              /\ Relock(t, currMutex[c])
  BY CondTimeoutLeaves
<1>2. /\ currMutex[c] \in mutexes /\ currMutex[c] \in MutexId
      /\ frame[t].mutex = currMutex[c] /\ frame[t] # NoFrame
      /\ frame[t].timed
      /\ t \notin timedOut[c]
  BY <1>1, WaiterFrame, CondTimeoutLeaves
<1>3. CASE MutexIsLocked(currMutex[c])
  <2>1. /\ LeaveQueues(t, c, OnMutex(currMutex[c]))
        /\ blockedBy' = [blockedBy EXCEPT ![t] = OnMutex(currMutex[c])]
        /\ phase' = phase
        /\ UNCHANGED mutexes
    BY <1>1, <1>3 DEF KeepScanning, mutexVars, LeaveQueues
  <2>2. FramePlace(t)'
    BY <1>1, <1>2, <2>1, ThreadTypes DEF FramePlace
  <2>3. /\ ~ IsWaiter(OnMutex(currMutex[c]))
        /\ \A m \in MutexId : OnMutex(currMutex[c]) = OnMutex(m) => m \in mutexes
        /\ \A s \in Sems : OnMutex(currMutex[c]) # OnSemaphore(s)
    BY <1>2, BlockKinds
  <2> QED
    BY <1>1, <1>2, <2>1, <2>2, <2>3, LeaveKeeps
<1>4. CASE ~ MutexIsLocked(currMutex[c])
  <2>1. /\ LeaveQueues(t, c, NotBlocked)
        /\ blockedBy' = [blockedBy EXCEPT ![t] = NotBlocked]
        /\ phase' = "run" /\ current' = t
        /\ owner'[currMutex[c]] = t
        /\ UNCHANGED mutexes
    BY <1>1, <1>2, <1>4, RelockGrants
  <2>2. FramePlace(t)'
    BY <1>1, <1>2, <2>1 DEF FramePlace
  <2>3. /\ ~ IsWaiter(NotBlocked)
        /\ \A m \in MutexId : NotBlocked # OnMutex(m)
        /\ \A s \in Sems : NotBlocked # OnSemaphore(s)
    BY BlockKinds
  <2> QED
    BY <1>1, <1>2, <2>1, <2>2, <2>3, LeaveKeeps
<1> QED
  BY <1>3, <1>4

\* Every iteration of the scheduler.
LEMMA ScanStepLawful ==
    TypeOK /\ LawfulInv /\ RunnerUnblocked' /\ ScanStep => LawfulInv'
BY OtherScanStep, QuietScanStep, CondGoneNever, CondWakeLawful, CondTimeoutLawful
DEF ScanStep

-----------------------------------------------------------------------------
(***************************************************************************)
(* The calls of pthread_cond_*.                                            *)
(***************************************************************************)
LEMMA RequeueLawful ==
    ASSUME PosixGuest, TypeOK, LawfulInv, NEW c \in Conds,
           PthreadCondSignal(c) \/ PthreadCondBroadcast(c), UNCHANGED semVars
    PROVE  LawfulInv'
<1>c. c \in conds
  BY DEF PthreadCondSignal, PthreadCondBroadcast, Lawful, PosixGuest
<1>0. UNCHANGED <<conds, currMutex, timedOut, mutexVars, threadVars>>
  BY <1>c DEF PthreadCondSignal, PthreadCondBroadcast, CondGone
<1>1. PICK q, r \in Seq(ThreadId) :
        /\ waiting' = [waiting EXCEPT ![c] = q] /\ waking' = [waking EXCEPT ![c] = r]
        /\ Distinct(q) /\ Distinct(r) /\ Elems(q) \cap Elems(r) = {}
        /\ Elems(q) \cup Elems(r) = Elems(waiting[c]) \cup Elems(waking[c])
  <2>0. QueuesOf(c)
    BY DEF LawfulInv, CondQueuesConsistent, QueuesOf
  <2>1. CASE PthreadCondSignal(c)
    <3> DEFINE q == Tail(waiting[c])
               r == Append(waking[c], Head(waiting[c]))
    <3>1. waiting[c] # <<>> /\ waiting[c] \in Seq(ThreadId) /\ waking[c] \in Seq(ThreadId)
      BY <1>c, <2>1, QueueTypes DEF PthreadCondSignal, CondGone
    <3>2. /\ q \in Seq(ThreadId) /\ Distinct(q)
          /\ Elems(q) = Elems(waiting[c]) \ {Head(waiting[c])}
          /\ Head(waiting[c]) \in Elems(waiting[c]) /\ Head(waiting[c]) \in ThreadId
      BY <2>0, <3>1, QueueTail DEF QueuesOf
    <3>3. Head(waiting[c]) \notin Elems(waking[c])
      BY <2>0, <3>2 DEF QueuesOf
    <3>4. /\ r \in Seq(ThreadId) /\ Distinct(r)
          /\ Elems(r) = Elems(waking[c]) \cup {Head(waiting[c])}
      BY <2>0, <3>1, <3>2, <3>3, QueueAppend DEF QueuesOf
    <3>5. Elems(q) \cap Elems(r) = {}
          /\ Elems(q) \cup Elems(r) = Elems(waiting[c]) \cup Elems(waking[c])
      BY <2>0, <3>2, <3>4 DEF QueuesOf
    <3>6. waiting' = [waiting EXCEPT ![c] = q] /\ waking' = [waking EXCEPT ![c] = r]
      BY <1>c, <2>1 DEF PthreadCondSignal, CondGone
    <3> QED
      BY <3>2, <3>4, <3>5, <3>6
  <2>2. CASE PthreadCondBroadcast(c)
    <3> DEFINE r == waking[c] \o waiting[c]
    <3>1. waiting[c] \in Seq(ThreadId) /\ waking[c] \in Seq(ThreadId)
      BY QueueTypes
    <3>2. /\ r \in Seq(ThreadId) /\ Distinct(r)
          /\ Elems(r) = Elems(waking[c]) \cup Elems(waiting[c])
      BY <2>0, <3>1, QueueConcat DEF QueuesOf
    <3>3. waiting' = [waiting EXCEPT ![c] = <<>>] /\ waking' = [waking EXCEPT ![c] = r]
      BY <1>c, <2>2 DEF PthreadCondBroadcast, CondGone
    <3>4. <<>> \in Seq(ThreadId)
      OBVIOUS
    <3> QED
      BY <3>2, <3>3, <3>4, EmptyQueue
  <2> QED
    BY <2>1, <2>2
<1>2. CondQueuesConsistent'
  <2> SUFFICES ASSUME NEW d \in Conds PROVE QueuesOf(d)'
    BY DEF CondQueuesConsistent, QueuesOf
  <2>1. QueuesOf(d)
    BY DEF LawfulInv, CondQueuesConsistent, QueuesOf
  <2>2. \A t \in ThreadId : BlockedOnCond(t, d)' <=> BlockedOnCond(t, d)
    BY <1>0 DEF threadVars, BlockedOnCond
  <2>3. CASE d = c
    <3>1. waiting'[c] = q /\ waking'[c] = r
      BY <1>1, QueueTypes
    <3> QED
      BY <1>1, <2>1, <2>2, <2>3, <3>1 DEF QueuesOf
  <2>4. CASE d # c
    <3>1. waiting'[d] = waiting[d] /\ waking'[d] = waking[d]
      BY <1>1, <2>4, QueueTypes
    <3> QED
      BY <2>1, <2>2, <3>1 DEF QueuesOf
  <2> QED
    BY <2>3, <2>4
<1>3. UNCHANGED <<phase, current, active, blockedBy, suspended, frame, mutexes, owner>>
  BY <1>0 DEF threadVars, mutexVars
<1>4. NoHostPanic' /\ RunnerUnblocked'
  BY <1>3 DEF LawfulInv, NoHostPanic, RunnerUnblocked
<1>5. FramesConsistent'
  BY <1>0, <1>3 DEF LawfulInv, FramesConsistent, FramePlace, BlockedOnCond
<1>6. WaitersConsistent' /\ TimedOutConsistent'
  BY <1>0, <1>3
  DEF LawfulInv, WaitersConsistent, TimedOutConsistent, BlockedOnCond
<1>7. AwaitedExists'
  BY <1>0, <1>3 DEF LawfulInv, AwaitedExists, semVars
<1> QED
  BY <1>2, <1>4, <1>5, <1>6, <1>7 DEF LawfulInv

\* Nobody is blocked on a condition variable that was destroyed, or that no
\* call is waiting on.
LEMMA Unawaited ==
    ASSUME TypeOK, LawfulInv, NEW c \in Conds,
           c \notin conds \/ \A t \in Existing : frame[t].cond # c
    PROVE  /\ \A t \in ThreadId : ~ BlockedOnCond(t, c)
           /\ waiting[c] = <<>> /\ waking[c] = <<>>
<1>1. \A t \in ThreadId : ~ BlockedOnCond(t, c)
  <2>1. CASE c \notin conds
    BY <2>1, WaiterFrame
  <2>2. CASE \A t \in Existing : frame[t].cond # c
    <3>1. \A t \in ThreadId : frame[t] # NoFrame => frame[t].cond # c
      BY <2>2, ThreadTypes
    <3> QED
      BY <3>1, WaiterFrame
  <2> QED
    BY <2>1, <2>2
<1>2. QueuesOf(c)
  BY DEF LawfulInv, CondQueuesConsistent, QueuesOf
<1>3. waiting[c] = <<>> /\ waking[c] = <<>>
  BY <1>1, <1>2, QueueTypes, NonEmptyQueue DEF QueuesOf
<1> QED
  BY <1>1, <1>3

\* Nobody waits for a condition variable that is initialised again.
LEMMA CondInitLawful ==
    ASSUME PosixGuest, TypeOK, LawfulInv, RunnerUnblocked', NEW c \in Conds,
           PthreadCondInit(c), UNCHANGED semVars
    PROVE  LawfulInv'
<1>0. /\ \A t \in ThreadId : ~ BlockedOnCond(t, c)
      /\ waiting[c] = <<>> /\ waking[c] = <<>>
  BY Unawaited DEF PthreadCondInit, Lawful, PosixGuest
<1>1. /\ conds' = conds \cup {c}
      /\ waiting' = waiting /\ waking' = waking
      /\ currMutex' = [currMutex EXCEPT ![c] = NoObject]
      /\ timedOut' = [timedOut EXCEPT ![c] = {}]
      /\ UNCHANGED <<phase, current, blockedBy, frame, mutexes, owner, openSems>>
  <2>1. /\ waiting' = [waiting EXCEPT ![c] = <<>>]
        /\ waking' = [waking EXCEPT ![c] = <<>>]
    BY DEF PthreadCondInit
  <2>2. waiting' = waiting /\ waking' = waking
    BY <1>0, <2>1, QueueTypes DEF TypeOK, CondTypeOK
  <2> QED
    BY <2>2 DEF PthreadCondInit, threadVars, mutexVars, semVars
<1>2. CondQueuesConsistent'
  <2> SUFFICES ASSUME NEW d \in Conds PROVE QueuesOf(d)'
    BY DEF CondQueuesConsistent, QueuesOf
  <2>1. QueuesOf(d)
    BY DEF LawfulInv, CondQueuesConsistent, QueuesOf
  <2> QED
    BY <1>1, <2>1 DEF QueuesOf, BlockedOnCond
<1>3. FramesConsistent'
  BY <1>1 DEF LawfulInv, FramesConsistent, FramePlace, BlockedOnCond
<1>4. WaitersConsistent'
  <2> SUFFICES ASSUME NEW t \in ThreadId, NEW d \in Conds, BlockedOnCond(t, d)
               PROVE  /\ d \in conds
                      /\ frame[t] = Frame(d, currMutex'[d], blockedBy[t] = OnCond(d, TRUE))
                      /\ t \notin timedOut'[d]
    BY <1>1 DEF WaitersConsistent, BlockedOnCond
  <2>1. d # c
    BY <1>0
  <2>2. currMutex'[d] = currMutex[d] /\ timedOut'[d] = timedOut[d]
    BY <1>1, <2>1, QueueTypes
  <2>3. /\ d \in conds
        /\ frame[t] = Frame(d, currMutex[d], blockedBy[t] = OnCond(d, TRUE))
        /\ t \notin timedOut[d]
    BY DEF LawfulInv, WaitersConsistent
  <2> QED
    BY <2>2, <2>3
<1>5. TimedOutConsistent'
  <2>1. \A d \in Conds : timedOut'[d] \subseteq timedOut[d]
    BY <1>1, QueueTypes
  <2> QED
    BY <1>1, <2>1 DEF LawfulInv, TimedOutConsistent
<1>6. NoHostPanic' /\ AwaitedExists'
  BY <1>1 DEF LawfulInv, NoHostPanic, AwaitedExists
<1> QED
  BY <1>2, <1>3, <1>4, <1>5, <1>6 DEF LawfulInv

\* One that is destroyed while signalled waiters are left in `waking`.
LEMMA DestroyPanics ==
    ASSUME PosixGuest, TypeOK, LawfulInv, NEW c \in Conds,
           PthreadCondDestroy(c), waking[c] # <<>>
    PROVE  DestroyPanic
<1>1. /\ phase = "run" /\ frame[current] = NoFrame
      /\ c \in conds /\ waiting[c] = <<>>
  BY DEF PthreadCondDestroy, Calls, Lawful, PosixGuest
<1>2. /\ phase' = "panic" /\ conds' = conds \ {c}
      /\ UNCHANGED <<waiting, waking, currMutex, blockedBy, frame>>
  BY <1>1 DEF PthreadCondDestroy, CondGone, HostPanic
<1>3. DestroysSignalled
  BY <1>1, <1>2 DEF DestroysSignalled
<1>4. CondQueuesConsistent'
  <2> SUFFICES ASSUME NEW d \in Conds PROVE QueuesOf(d)'
    BY DEF CondQueuesConsistent, QueuesOf
  <2>1. QueuesOf(d)
    BY DEF LawfulInv, CondQueuesConsistent, QueuesOf
  <2> QED
    BY <1>2, <2>1 DEF QueuesOf, BlockedOnCond
<1>5. CondMutexAgree
  BY WaiterFrame DEF CondMutexAgree
<1>6. CondMutexAgree'
  BY <1>2, <1>5 DEF CondMutexAgree, BlockedOnCond
<1> QED
  BY <1>2, <1>3, <1>4, <1>6 DEF DestroyPanic, AfterPanic

\* One that is destroyed when nobody is left in its queues: a waiter that has
\* not returned yet is blocked on the mutex.
LEMMA CondDestroyLawful ==
    ASSUME PosixGuest, TypeOK, LawfulInv, RunnerUnblocked', NEW c \in Conds,
           PthreadCondDestroy(c), UNCHANGED semVars
    PROVE  LawfulInv' \/ DestroyPanic
<1> SUFFICES ASSUME waking[c] = <<>> PROVE LawfulInv'
  BY DestroyPanics
<1>0. /\ phase = "run" /\ frame[current] = NoFrame
      /\ c \in conds /\ waiting[c] = <<>>
  BY DEF PthreadCondDestroy, Calls, Lawful, PosixGuest
<1>1. /\ conds' = conds \ {c}
      /\ UNCHANGED <<phase, current, waiting, waking, currMutex, timedOut,
                     blockedBy, frame, mutexes, owner, openSems>>
  BY <1>0 DEF PthreadCondDestroy, CondGone, schedVars, mutexVars, semVars
<1>2. \A t \in ThreadId : ~ BlockedOnCond(t, c)
  <2>1. QueuesOf(c)
    BY DEF LawfulInv, CondQueuesConsistent, QueuesOf
  <2> QED
    BY <1>0, <2>1, EmptyQueue DEF QueuesOf
<1>3. CondQueuesConsistent'
  <2> SUFFICES ASSUME NEW d \in Conds PROVE QueuesOf(d)'
    BY DEF CondQueuesConsistent, QueuesOf
  <2>1. QueuesOf(d)
    BY DEF LawfulInv, CondQueuesConsistent, QueuesOf
  <2> QED
    BY <1>1, <2>1 DEF QueuesOf, BlockedOnCond
<1>4. FramesConsistent'
  BY <1>0, <1>1 DEF LawfulInv, FramesConsistent, FramePlace, BlockedOnCond
<1>5. WaitersConsistent'
  BY <1>1, <1>2 DEF LawfulInv, WaitersConsistent, BlockedOnCond
<1>6. TimedOutConsistent'
  BY <1>1 DEF LawfulInv, TimedOutConsistent
<1>7. NoHostPanic' /\ AwaitedExists'
  BY <1>1 DEF LawfulInv, NoHostPanic, AwaitedExists
<1> QED
  BY <1>3, <1>4, <1>5, <1>6, <1>7 DEF LawfulInv

\* All waiters of c gave up the same mutex, so the assertion holds.
LEMMA WaitersShareMutex ==
    ASSUME TypeOK, LawfulInv, NEW c \in Conds, NEW m,
           \A t \in Existing : BlockedOnCond(t, c) => frame[t].mutex = m
    PROVE  /\ SameMutex(c, m)
           /\ \A t \in ThreadId : BlockedOnCond(t, c) => currMutex[c] = m
<1>1. ASSUME NEW t \in ThreadId, BlockedOnCond(t, c)
      PROVE  currMutex[c] = m
  <2>1. blockedBy[t] # NotBlocked
    BY <1>1, WaiterKinds DEF BlockedOnCond
  <2>2. t \in Existing
    BY <2>1, ThreadTypes
  <2> QED
    BY <1>1, <2>2, WaiterFrame
<1>2. ASSUME waiting[c] # <<>> \/ waking[c] # <<>>
      PROVE  currMutex[c] = m
  <2>1. QueuesOf(c)
    BY DEF LawfulInv, CondQueuesConsistent, QueuesOf
  <2>2. PICK t \in ThreadId : t \in Elems(waiting[c]) \cup Elems(waking[c])
    BY <1>2, QueueTypes, NonEmptyQueue
  <2> QED
    BY <1>1, <2>1, <2>2 DEF QueuesOf
<1> QED
  BY <1>1, <1>2 DEF SameMutex

\* A wait: the caller is queued and gives up its mutex in one step.
LEMMA CondWaitLawful ==
    ASSUME PosixGuest, TypeOK, LawfulInv, RunnerUnblocked',
           NEW c \in Conds, NEW m \in MutexId, NEW timed \in BOOLEAN,
           PthreadCondWait(c, m, timed), UNCHANGED semVars
    PROVE  LawfulInv'
<1>0. /\ phase = "run" /\ frame[current] = NoFrame
      /\ c \in conds /\ m \in mutexes
      /\ blockedBy[current] = NotBlocked
      /\ current \in ThreadId
  BY ThreadTypes
  DEF PthreadCondWait, Calls, LawfulInv, RunnerUnblocked, Lawful, PosixGuest
<1>1. /\ SameMutex(c, m)
      /\ \A t \in ThreadId : BlockedOnCond(t, c) => currMutex[c] = m
  <2>1. \A t \in Existing : BlockedOnCond(t, c) => frame[t].mutex = m
    BY DEF PthreadCondWait, Lawful, BlockedOnCond, PosixGuest
  <2> QED
    BY <2>1, WaitersShareMutex
<1>2. /\ currMutex' = [currMutex EXCEPT ![c] = m]
      /\ waiting' = [waiting EXCEPT ![c] = Append(@, current)]
      /\ frame' = [frame EXCEPT ![current] = Frame(c, m, timed)]
      /\ blockedBy' = [blockedBy EXCEPT ![current] = OnCond(c, timed)]
      /\ phase' = "schedule"
      /\ UNCHANGED <<conds, waking, timedOut, mutexes, openSems>>
  BY <1>0, <1>1
  DEF PthreadCondWait, CondGone, YieldThread, EnterScheduler, lockVars, semVars
<1>3. /\ \A t \in ThreadId \ {current} : /\ blockedBy'[t] = blockedBy[t]
                                         /\ frame'[t] = frame[t]
      /\ blockedBy'[current] = OnCond(c, timed)
      /\ frame'[current] = Frame(c, m, timed)
  BY <1>0, <1>2, ThreadTypes
<1>4. /\ currMutex'[c] = m
      /\ \A d \in Conds \ {c} : currMutex'[d] = currMutex[d] /\ waiting'[d] = waiting[d]
      /\ waiting'[c] = Append(waiting[c], current)
  BY <1>2, QueueTypes
<1>5. \A d \in Conds : ~ BlockedOnCond(current, d)
  BY <1>0, WaiterKinds DEF BlockedOnCond
<1>6. \A t \in ThreadId, d \in Conds :
        BlockedOnCond(t, d)' <=> IF t = current THEN d = c ELSE BlockedOnCond(t, d)
  <2> SUFFICES ASSUME NEW t \in ThreadId, NEW d \in Conds
               PROVE  BlockedOnCond(t, d)' <=>
                          IF t = current THEN d = c ELSE BlockedOnCond(t, d)
    OBVIOUS
  <2>1. CASE t = current
    <3>1. BlockedOnCond(t, d)' <=> OnCond(c, timed) \in {OnCond(d, TRUE), OnCond(d, FALSE)}
      BY <1>3, <2>1 DEF BlockedOnCond
    <3> QED
      BY <2>1, <3>1, WaiterKinds
  <2>2. CASE t # current
    BY <1>3, <2>2 DEF BlockedOnCond
  <2> QED
    BY <2>1, <2>2
<1>7. CondQueuesConsistent'
  <2> SUFFICES ASSUME NEW d \in Conds PROVE QueuesOf(d)'
    BY DEF CondQueuesConsistent, QueuesOf
  <2>1. QueuesOf(d)
    BY DEF LawfulInv, CondQueuesConsistent, QueuesOf
  <2>2. CASE d # c
    BY <1>2, <1>4, <1>5, <1>6, <2>1, <2>2 DEF QueuesOf
  <2>3. CASE d = c
    <3>1. current \notin Elems(waiting[c]) \cup Elems(waking[c])
      BY <1>0, <1>5, <2>1, <2>3 DEF QueuesOf
    <3>2. /\ Elems(waiting'[c]) = Elems(waiting[c]) \cup {current}
          /\ Distinct(waiting'[c])
      BY <1>0, <1>4, <2>1, <2>3, <3>1, QueueTypes, QueueAppend DEF QueuesOf
    <3> QED
      BY <1>0, <1>2, <1>6, <2>1, <2>3, <3>1, <3>2 DEF QueuesOf
  <2> QED
    BY <2>2, <2>3
<1>8. FramesConsistent'
  <2> SUFFICES ASSUME NEW t \in ThreadId, frame'[t] # NoFrame
               PROVE  /\ frame'[t].cond \in Conds /\ frame'[t].mutex \in mutexes
                      /\ FramePlace(t)'
    BY <1>2 DEF FramesConsistent
  <2>1. CASE t = current
    <3>1. frame'[t].cond = c /\ frame'[t].mutex = m
      BY <1>3, <2>1, FrameIsFrame
    <3> QED
      BY <1>0, <1>6, <2>1, <3>1 DEF FramePlace
  <2>2. CASE t # current
    <3>1. blockedBy'[t] = blockedBy[t] /\ frame'[t] = frame[t]
      BY <1>3, <2>2
    <3>2. frame[t].cond \in Conds /\ frame[t].mutex \in mutexes /\ FramePlace(t)
      BY <3>1 DEF LawfulInv, FramesConsistent
    <3> QED
      BY <2>2, <3>1, <3>2 DEF FramePlace, BlockedOnCond
  <2> QED
    BY <2>1, <2>2
<1>9. WaitersConsistent'
  <2> SUFFICES ASSUME NEW t \in ThreadId, NEW d \in Conds, BlockedOnCond(t, d)'
               PROVE  /\ d \in conds
                      /\ frame'[t] = Frame(d, currMutex'[d], blockedBy'[t] = OnCond(d, TRUE))
                      /\ t \notin timedOut[d]
    BY <1>2 DEF WaitersConsistent
  <2>1. CASE t = current
    <3>1. d = c
      BY <1>6, <2>1
    <3>2. (blockedBy'[t] = OnCond(d, TRUE)) = timed
      <4>1. OnCond(d, FALSE) # OnCond(d, TRUE)
        BY DEF OnCond
      <4>2. blockedBy'[t] = OnCond(d, timed)
        BY <1>3, <2>1, <3>1
      <4>3. CASE timed = TRUE
        BY <4>2, <4>3
      <4>4. CASE timed = FALSE
        BY <4>1, <4>2, <4>4
      <4> QED
        BY <4>3, <4>4
    <3>3. t \notin timedOut[d]
      BY <1>0, <2>1, CondAssumption DEF LawfulInv, TimedOutConsistent, NoFrame
    <3> QED
      BY <1>0, <1>3, <1>4, <2>1, <3>1, <3>2, <3>3
  <2>2. CASE t # current
    <3>1. blockedBy'[t] = blockedBy[t] /\ frame'[t] = frame[t] /\ BlockedOnCond(t, d)
      BY <1>3, <1>6, <2>2
    <3>2. currMutex'[d] = currMutex[d]
      BY <1>1, <1>4, <3>1
    <3>3. /\ d \in conds
          /\ frame[t] = Frame(d, currMutex[d], blockedBy[t] = OnCond(d, TRUE))
          /\ t \notin timedOut[d]
      BY <3>1 DEF LawfulInv, WaitersConsistent
    <3> QED
      BY <3>1, <3>2, <3>3
  <2> QED
    BY <2>1, <2>2
<1>10. TimedOutConsistent'
  <2>1. \A d \in Conds : current \notin timedOut[d]
    BY <1>0, CondAssumption DEF LawfulInv, TimedOutConsistent, NoFrame
  <2> QED
    BY <1>2, <1>3, <2>1 DEF LawfulInv, TimedOutConsistent
<1>11. AwaitedExists'
  <2>1. \A x : OnCond(c, timed) # OnMutex(x) /\ OnCond(c, timed) # OnSemaphore(x)
    BY WaiterKinds
  <2> QED
    BY <1>2, <1>3, <2>1 DEF LawfulInv, AwaitedExists
<1> QED
  BY <1>2, <1>7, <1>8, <1>9, <1>10, <1>11 DEF LawfulInv, NoHostPanic

\* A wait that timed out returns to a condition variable that was destroyed.
LEMMA ReturnPanics ==
    ASSUME TypeOK, LawfulInv, PthreadCondReturn, frame[current].cond \notin conds
    PROVE  DestroyPanic
<1>1. /\ phase = "run" /\ frame[current] # NoFrame /\ current \in ThreadId
      /\ blockedBy[current] = NotBlocked
  BY ThreadTypes DEF PthreadCondReturn, LawfulInv, RunnerUnblocked
<1>2. phase' = "panic" /\ UNCHANGED <<waiting, waking, currMutex, blockedBy, frame>>
  BY DEF PthreadCondReturn, HostPanic
<1>3. frame[current].timed
  <2>1. FramePlace(current)
    BY <1>1 DEF LawfulInv, FramesConsistent
  <2> QED
    BY <1>1, <2>1, WaiterKinds, BlockKinds DEF FramePlace, BlockedOnCond
<1>4. ReturnsToDestroyed
  BY <1>1, <1>3 DEF ReturnsToDestroyed
<1>5. CondQueuesConsistent'
  <2> SUFFICES ASSUME NEW d \in Conds PROVE QueuesOf(d)'
    BY DEF CondQueuesConsistent, QueuesOf
  <2>1. QueuesOf(d)
    BY DEF LawfulInv, CondQueuesConsistent, QueuesOf
  <2> QED
    BY <1>2, <2>1 DEF QueuesOf, BlockedOnCond
<1>6. CondMutexAgree
  BY WaiterFrame DEF CondMutexAgree
<1>7. CondMutexAgree'
  BY <1>2, <1>6 DEF CondMutexAgree, BlockedOnCond
<1> QED
  BY <1>2, <1>4, <1>5, <1>7 DEF DestroyPanic, AfterPanic

\* The tail of any other wait: its assertions hold.
LEMMA CondReturnLawful ==
    ASSUME TypeOK, LawfulInv, RunnerUnblocked', PthreadCondReturn, UNCHANGED semVars
    PROVE  LawfulInv' \/ DestroyPanic
<1> SUFFICES ASSUME frame[current].cond \in conds PROVE LawfulInv'
  BY ReturnPanics
<1> DEFINE c == frame[current].cond
<1>0. /\ phase = "run" /\ frame[current] # NoFrame /\ current \in ThreadId
      /\ blockedBy[current] = NotBlocked
  BY ThreadTypes DEF PthreadCondReturn, LawfulInv, RunnerUnblocked
<1>1. c \in conds /\ c \in Conds /\ (frame[current].timed \/ current \notin timedOut[c])
  <2>1. c \in conds /\ conds \subseteq Conds
    BY DEF TypeOK, CondTypeOK
  <2> QED
    BY <1>0, <2>1 DEF LawfulInv, TimedOutConsistent
<1>2. /\ timedOut' = [timedOut EXCEPT ![c] = @ \ {current}]
      /\ frame' = [frame EXCEPT ![current] = NoFrame]
      /\ UNCHANGED <<phase, current, conds, waiting, waking, currMutex,
                     blockedBy, mutexes, owner, openSems>>
  BY <1>1 DEF PthreadCondReturn, schedVars, mutexVars, semVars
<1>3. /\ \A t \in ThreadId \ {current} : frame'[t] = frame[t]
      /\ frame'[current] = NoFrame
      /\ \A d \in Conds : timedOut'[d] \subseteq timedOut[d]
      /\ current \notin timedOut'[c]
  BY <1>0, <1>1, <1>2, ThreadTypes, QueueTypes
<1>4. \A d \in Conds : ~ BlockedOnCond(current, d)
  BY <1>0, WaiterKinds DEF BlockedOnCond
<1>5. CondQueuesConsistent'
  <2> SUFFICES ASSUME NEW d \in Conds PROVE QueuesOf(d)'
    BY DEF CondQueuesConsistent, QueuesOf
  <2>1. QueuesOf(d)
    BY DEF LawfulInv, CondQueuesConsistent, QueuesOf
  <2> QED
    BY <1>2, <2>1 DEF QueuesOf, BlockedOnCond
<1>6. FramesConsistent'
  <2> SUFFICES ASSUME NEW t \in ThreadId, frame'[t] # NoFrame
               PROVE  /\ frame'[t].cond \in Conds /\ frame'[t].mutex \in mutexes
                      /\ FramePlace(t)'
    BY <1>2 DEF FramesConsistent
  <2>1. t # current /\ frame'[t] = frame[t]
    BY <1>3
  <2>2. frame[t].cond \in Conds /\ frame[t].mutex \in mutexes /\ FramePlace(t)
    BY <2>1 DEF LawfulInv, FramesConsistent
  <2> QED
    BY <1>2, <2>1, <2>2 DEF FramePlace, BlockedOnCond
<1>7. WaitersConsistent'
  <2> SUFFICES ASSUME NEW t \in ThreadId, NEW d \in Conds, BlockedOnCond(t, d)
               PROVE  /\ d \in conds
                      /\ frame'[t] = Frame(d, currMutex[d], blockedBy[t] = OnCond(d, TRUE))
                      /\ t \notin timedOut'[d]
    BY <1>2 DEF WaitersConsistent, BlockedOnCond
  <2>1. frame'[t] = frame[t] /\ timedOut'[d] \subseteq timedOut[d]
    BY <1>3, <1>4
  <2>2. /\ d \in conds
        /\ frame[t] = Frame(d, currMutex[d], blockedBy[t] = OnCond(d, TRUE))
        /\ t \notin timedOut[d]
    BY DEF LawfulInv, WaitersConsistent
  <2> QED
    BY <2>1, <2>2
<1>8. TimedOutConsistent'
  <2> SUFFICES ASSUME NEW t \in ThreadId, NEW d \in Conds, t \in timedOut'[d]
               PROVE  frame'[t].cond = d /\ frame'[t].timed
    BY DEF TimedOutConsistent
  <2>1. t \in timedOut[d]
    BY <1>3
  <2>2. frame[t].cond = d /\ frame[t].timed
    BY <2>1 DEF LawfulInv, TimedOutConsistent
  <2>3. t # current
    BY <1>3, <2>2
  <2> QED
    BY <1>3, <2>2, <2>3
<1>9. NoHostPanic' /\ AwaitedExists'
  BY <1>2 DEF LawfulInv, NoHostPanic, AwaitedExists
<1> QED
  BY <1>5, <1>6, <1>7, <1>8, <1>9 DEF LawfulInv

\* The calls on condition variables.
LEMMA CondStepLawful ==
    ASSUME PosixGuest, TypeOK, LawfulInv, RunnerUnblocked', CondStep, UNCHANGED semVars
    PROVE  LawfulInv' \/ DestroyPanic
BY CondInitLawful, CondDestroyLawful, CondWaitLawful, CondReturnLawful, RequeueLawful
DEF CondStep

-----------------------------------------------------------------------------
(***************************************************************************)
(* The invariant and what follows from it.                                 *)
(***************************************************************************)
LEMMA InitLawful == TypeOK /\ Init => LawfulInv
<1> SUFFICES ASSUME TypeOK, Init PROVE LawfulInv
  OBVIOUS
<1>1. /\ phase = "run" /\ current = 0 /\ 0 \in ThreadId
      /\ \A t \in ThreadId : blockedBy[t] = NotBlocked /\ frame[t] = NoFrame
      /\ suspended[0] = 0 /\ active[0]
  <2>1. 0 \in ThreadId
    BY ThreadsAssumption DEF ThreadId
  <2> QED
    BY <2>1 DEF Init, ThreadsInit
<1>2. \A c \in Conds : waiting[c] = <<>> /\ waking[c] = <<>> /\ timedOut[c] = {}
  BY DEF Init, CondInit
<1>3. \A t \in ThreadId, c \in Conds : ~ BlockedOnCond(t, c)
  <2>1. \A t \in ThreadId : blockedBy[t] = NotBlocked
    BY <1>1
  <2> QED
    BY <2>1, WaiterKinds DEF BlockedOnCond
<1>4. CondQueuesConsistent
  BY <1>2, <1>3, EmptyQueue DEF CondQueuesConsistent
<1>5. RunnerUnblocked /\ NoHostPanic /\ FramesConsistent
  BY <1>1 DEF RunnerUnblocked, NoHostPanic, FramesConsistent
<1>6. WaitersConsistent /\ TimedOutConsistent
  BY <1>2, <1>3 DEF WaitersConsistent, TimedOutConsistent
<1>7. AwaitedExists
  BY <1>1, BlockKinds DEF AwaitedExists
<1> QED
  BY <1>4, <1>5, <1>6, <1>7 DEF LawfulInv

\* Every step.
LEMMA LawfulStep ==
    ASSUME PosixGuest, TypeOK, LawfulInv, [Next]_vars
    PROVE  LawfulInv' \/ DestroyPanic
<1>1. RunnerUnblocked'
  BY RunnerStep DEF LawfulInv
<1>2. CASE ScanStep
  BY <1>1, <1>2, ScanStepLawful
<1>3. CASE ThreadStep /\ UNCHANGED <<mutexVars, condVars, semVars, grace>>
  BY <1>1, <1>3, ThreadStepLawful
<1>4. CASE MutexStep /\ UNCHANGED <<condVars, semVars, grace>>
  BY <1>1, <1>4, MutexStepLawful
<1>5. CASE CondStep /\ UNCHANGED <<semVars, grace>>
  BY <1>1, <1>5, CondStepLawful
<1>6. CASE SemStep /\ UNCHANGED <<mutexVars, condVars, grace>>
  BY <1>1, <1>6, SemStepLawful
<1>7. CASE UNCHANGED vars
  <2>1. /\ UNCHANGED <<phase, current, blockedBy, frame, condVars, mutexes, owner, openSems>>
        /\ phase # "panic"
    BY <1>7 DEF vars, threadVars, mutexVars, semVars, LawfulInv, NoHostPanic
  <2>2. Quiet
    BY <2>1 DEF Quiet, SameWaiters
  <2>3. KeepsPlaces
    BY <2>1
    DEF KeepsPlaces, LawfulInv, FramesConsistent, FramePlace, BlockedOnCond, condVars
  <2>4. AwaitedExists'
    BY <2>1 DEF LawfulInv, AwaitedExists
  <2> QED
    BY <1>1, <2>2, <2>3, <2>4, QuietKeeps
<1> QED
  BY <1>2, <1>3, <1>4, <1>5, <1>6, <1>7 DEF Next, GuestStep

\* A panic is final.
LEMMA PanicStays == ASSUME phase = "panic", [Next]_vars PROVE UNCHANGED vars
<1>1. CASE ScanStep
  BY <1>1 DEF ScanStep, ScanSkip, SleepUntilAwakening, DeclareDeadlock, ScanDone,
              ScanNotBlocked, ScanSleeping, ScanMutex, ScanSemaphore, ScanJoining,
              ScanCondGone, ScanCondWake, ScanCondTimeout, ScanCondWait,
              ExaminesWaiter, Examines
<1>2. CASE ThreadStep
  BY <1>2 DEF ThreadStep, Preempt, NewThread, ThreadExit, Sleep, JoinWithThread,
              SuspendThread, ResumeThread, Calls
<1>3. CASE MutexStep
  BY <1>3 DEF MutexStep, InitMutex, DestroyMutex, LockMutex, UnlockMutex, Calls
<1>4. CASE CondStep
  BY <1>4 DEF CondStep, PthreadCondInit, PthreadCondDestroy, PthreadCondSignal,
              PthreadCondBroadcast, PthreadCondWait, PthreadCondReturn, Calls
<1>5. CASE SemStep
  BY <1>5 DEF SemStep, SemInit, SemDestroy, SemPost, SemWait, Calls
<1> QED
  BY <1>1, <1>2, <1>3, <1>4, <1>5 DEF Next, GuestStep

\* Of a guest that keeps the documented preconditions, LawfulInv holds until
\* one of the two panics.
THEOREM PosixInvariant == ASSUME PosixGuest PROVE Spec => [](LawfulInv \/ AfterPanic)
<1>1. TypeOK /\ Init => LawfulInv
  BY InitLawful
<1>2. TypeOK /\ (LawfulInv \/ AfterPanic) /\ [Next]_vars => (LawfulInv \/ AfterPanic)'
  <2> SUFFICES ASSUME TypeOK, LawfulInv \/ AfterPanic, [Next]_vars
               PROVE  LawfulInv' \/ AfterPanic'
    OBVIOUS
  <2>1. CASE LawfulInv
    BY <2>1, LawfulStep DEF DestroyPanic
  <2>2. CASE AfterPanic
    <3>1. UNCHANGED <<phase, condVars, blockedBy, frame>>
      BY <2>2, PanicStays DEF AfterPanic, vars, threadVars
    <3>2. CondQueuesConsistent'
      <4> SUFFICES ASSUME NEW d \in Conds PROVE QueuesOf(d)'
        BY DEF CondQueuesConsistent, QueuesOf
      <4>1. QueuesOf(d)
        BY <2>2 DEF AfterPanic, CondQueuesConsistent, QueuesOf
      <4> QED
        BY <3>1, <4>1 DEF QueuesOf, BlockedOnCond, condVars
    <3>3. CondMutexAgree'
      BY <2>2, <3>1 DEF AfterPanic, CondMutexAgree, BlockedOnCond, condVars
    <3> QED
      BY <2>2, <3>1, <3>2, <3>3 DEF AfterPanic
  <2> QED
    BY <2>1, <2>2
<1>3. Init => TypeOK
  BY InitType
<1> QED
  BY <1>1, <1>2, <1>3, TypeCorrect, PTL DEF Spec

\* Of the guests POSIX allows, only those make an assertion or an unwrap() of
\* the scheduler, the mutexes or the condition variables fail that destroy a
\* condition variable whose last waiters are signalled or timed out but have
\* not returned: cond.rs does not wait for them.
THEOREM DestroyPanicsOnly == ASSUME PosixGuest PROVE Spec => OnlyDestroyPanics
<1>1. TypeOK /\ (LawfulInv \/ AfterPanic) /\ [Next]_vars => [OnlyDestroyPanicsStep]_vars
  <2> SUFFICES ASSUME TypeOK, LawfulInv \/ AfterPanic, [Next]_vars,
                      phase # "panic", phase' = "panic"
               PROVE  DestroysSignalled \/ ReturnsToDestroyed
    BY DEF OnlyDestroyPanicsStep
  <2>1. LawfulInv
    BY DEF AfterPanic
  <2>2. ~ LawfulInv'
    BY DEF LawfulInv, NoHostPanic
  <2> QED
    BY <2>1, <2>2, LawfulStep DEF DestroyPanic
<1> QED
  BY <1>1, PosixInvariant, TypeCorrect, PTL DEF Spec, OnlyDestroyPanics

-----------------------------------------------------------------------------
\* Nobody is inside a wait on a condition variable that was destroyed.
FramedConds ==
    \A t \in ThreadId : frame[t] # NoFrame => frame[t].cond \in conds

LEMMA FramedCondsStep ==
    ASSUME Misuse = {}, TypeOK, FramedConds, [Next]_vars PROVE FramedConds'
<1>0. DOMAIN frame = ThreadId
  BY DEF TypeOK, ThreadsTypeOK, TableTypeOK
<1>1. CASE UNCHANGED frame /\ conds \subseteq conds'
  BY <1>1 DEF FramedConds
<1>2. ASSUME NEW c \in Conds, NEW m \in MutexId, NEW timed \in BOOLEAN,
             PthreadCondWait(c, m, timed)
      PROVE  FramedConds'
  <2>1. c \in conds /\ UNCHANGED conds
    BY <1>2 DEF PthreadCondWait, CondGone, Lawful
  <2>2. UNCHANGED frame \/ frame' = [frame EXCEPT ![current] = Frame(c, m, timed)]
    BY <1>2 DEF PthreadCondWait, CondGone
  <2> QED
    BY <1>0, <2>1, <2>2, FrameIsFrame DEF FramedConds
<1>3. ASSUME NEW c \in Conds, PthreadCondDestroy(c) PROVE FramedConds'
  <2>1. \A t \in Existing : frame[t].cond # c
    BY <1>3 DEF PthreadCondDestroy, Lawful
  <2>2. UNCHANGED frame /\ conds \ {c} \subseteq conds'
    BY <1>3 DEF PthreadCondDestroy, CondGone, condVars
  <2> QED
    BY <2>1, <2>2, ThreadTypes DEF FramedConds
<1>4. CASE PthreadCondReturn
  <2>1. UNCHANGED conds
    BY <1>4 DEF PthreadCondReturn
  <2>2. UNCHANGED frame \/ frame' = [frame EXCEPT ![current] = NoFrame]
    BY <1>4 DEF PthreadCondReturn
  <2> QED
    BY <1>0, <2>1, <2>2 DEF FramedConds
<1>5. ASSUME NEW c \in Conds,
             PthreadCondInit(c) \/ PthreadCondSignal(c) \/ PthreadCondBroadcast(c)
      PROVE  FramedConds'
  BY <1>1, <1>5 DEF PthreadCondInit, PthreadCondSignal, PthreadCondBroadcast,
                    CondGone, threadVars, condVars
<1>6. CASE CondStep
  BY <1>2, <1>3, <1>4, <1>5, <1>6 DEF CondStep
<1>7. CASE MutexStep /\ UNCHANGED condVars
  BY <1>1, <1>7
  DEF MutexStep, InitMutex, DestroyMutex, LockMutex, UnlockMutex, threadVars, condVars
<1>8. CASE ThreadStep /\ UNCHANGED condVars
  BY <1>1, <1>8 DEF ThreadStep, Preempt, NewThread, ThreadExit, Sleep, JoinWithThread,
                    SuspendThread, ResumeThread, condVars
<1>9. CASE SemStep /\ UNCHANGED condVars
  BY <1>1, <1>9 DEF SemStep, SemInit, SemDestroy, SemPost, SemWait, threadVars, condVars
<1>10. CASE ScanStep
  <2>1. UNCHANGED <<frame, conds>>
    BY <1>10
    DEF ScanStep, ScanSkip, SleepUntilAwakening, DeclareDeadlock, ScanNotBlocked,
        ScanSleeping, ScanMutex, ScanSemaphore, ScanJoining, ScanCondGone, ScanCondWake,
        ScanCondTimeout, ScanCondWait, condVars
  <2> QED BY <1>1, <2>1
<1>11. CASE UNCHANGED vars
  BY <1>1, <1>11 DEF vars, threadVars, condVars
<1> QED
  BY <1>6, <1>7, <1>8, <1>9, <1>10, <1>11 DEF Next, GuestStep

LEMMA FramedInvariant == ASSUME Misuse = {} PROVE Spec => []FramedConds
<1>1. Init => FramedConds
  BY DEF Init, ThreadsInit, FramedConds
<1>2. TypeOK /\ FramedConds /\ [Next]_vars => FramedConds'
  BY FramedCondsStep
<1> QED
  BY <1>1, <1>2, TypeCorrect, PTL DEF Spec

\* A destroy that comes after all waiters have returned finds none signalled.
LEMMA NothingSignalled ==
    ASSUME Misuse = {}, TypeOK, LawfulInv, [Next]_vars PROVE ~ DestroysSignalled
<1> SUFFICES ASSUME phase = "run", NEW c \in conds \ conds' PROVE waking[c] = <<>>
  BY DEF DestroysSignalled
<1>1. c \in Conds
  BY DEF TypeOK, CondTypeOK
<1>2. PthreadCondDestroy(c)
  <2>1. CondStep
    BY DEF Next, GuestStep, ScanStep, ScanSkip, SleepUntilAwakening, DeclareDeadlock,
           ScanDone, ScanNotBlocked, ScanSleeping, ScanMutex, ScanSemaphore,
           ScanJoining, ScanCondGone, ScanCondWake, ScanCondTimeout, ScanCondWait,
           ExaminesWaiter, Examines, condVars, vars
  <2>2. PICK d \in Conds : PthreadCondDestroy(d)
    BY <2>1 DEF CondStep, PthreadCondReturn, PthreadCondInit, PthreadCondSignal,
                PthreadCondBroadcast, PthreadCondWait, CondGone, condVars
  <2>3. conds \ {d} \subseteq conds'
    BY <2>2 DEF PthreadCondDestroy, CondGone, condVars
  <2> QED
    BY <2>2, <2>3
<1>3. \A t \in Existing : frame[t].cond # c
  BY <1>2 DEF PthreadCondDestroy, Lawful
<1> QED
  BY <1>1, <1>3, Unawaited

\* Of a guest whose pthread_cond_destroy comes after all waiters have returned,
\* LawfulInv is an invariant.
THEOREM LawfulInvariant == ASSUME Misuse = {} PROVE Spec => []LawfulInv
<1>1. TypeOK /\ Init => LawfulInv
  BY InitLawful
<1>2. TypeOK /\ FramedConds /\ LawfulInv /\ [Next]_vars => LawfulInv'
  <2> SUFFICES ASSUME TypeOK, FramedConds, LawfulInv, [Next]_vars PROVE LawfulInv'
    OBVIOUS
  <2>1. ~ ReturnsToDestroyed
    BY ThreadTypes DEF ReturnsToDestroyed, FramedConds
  <2>2. ~ DestroysSignalled
    BY NothingSignalled
  <2>3. PosixGuest
    BY DEF PosixGuest
  <2> QED
    BY <2>1, <2>2, <2>3, LawfulStep DEF DestroyPanic
<1>3. Init => TypeOK
  BY InitType
<1> QED
  BY <1>1, <1>2, <1>3, FramedInvariant, TypeCorrect, PTL DEF Spec

\* No assertion, unwrap() or checked subtraction of the scheduler, the mutexes
\* and the condition variables fails, if the guest keeps the documented
\* preconditions and, beyond them, destroys a condition variable only after
\* all its waiters have returned.
THEOREM NoPanic == ASSUME Misuse = {} PROVE Spec => []NoHostPanic
<1>1. LawfulInv => NoHostPanic
  BY DEF LawfulInv
<1> QED
  BY <1>1, LawfulInvariant, PTL

-----------------------------------------------------------------------------
\* Every waiter is in exactly one queue of its condition variable, once, and
\* the queues hold nobody else: no waiter is forgotten, and no signal goes to a
\* thread that left.
THEOREM QueuesConsistent == ASSUME PosixGuest PROVE Spec => []CondQueuesConsistent
<1>1. LawfulInv \/ AfterPanic => CondQueuesConsistent
  BY DEF LawfulInv, AfterPanic
<1> QED
  BY <1>1, PosixInvariant, PTL

\* The one curr_mutex of a condition variable is the mutex of each waiter.
THEOREM WaitersAgree == ASSUME PosixGuest PROVE Spec => []CondMutexAgree
<1>1. TypeOK /\ (LawfulInv \/ AfterPanic) => CondMutexAgree
  BY WaiterFrame DEF CondMutexAgree, AfterPanic
<1> QED
  BY <1>1, PosixInvariant, TypeCorrect, PTL

\* pthread_cond_wait and pthread_cond_timedwait return with the mutex locked.
THEOREM WaitRelocks == ASSUME PosixGuest PROVE Spec => []ReturnsWithMutex
<1>1. TypeOK /\ (LawfulInv \/ AfterPanic) => ReturnsWithMutex
  <2> SUFFICES ASSUME TypeOK, LawfulInv, phase = "run", frame[current] # NoFrame
               PROVE  owner[frame[current].mutex] = current
    BY DEF ReturnsWithMutex, AfterPanic
  <2>1. blockedBy[current] = NotBlocked /\ current \in ThreadId
    BY ThreadTypes DEF LawfulInv, RunnerUnblocked
  <2>2. FramePlace(current)
    BY <2>1 DEF LawfulInv, FramesConsistent
  <2> QED
    BY <2>1, <2>2, WaiterKinds, BlockKinds DEF FramePlace, BlockedOnCond
<1> QED
  BY <1>1, PosixInvariant, TypeCorrect, PTL

-----------------------------------------------------------------------------
(***************************************************************************)
(* Deadlock.  A thread that stays where it is could not be released, as    *)
(* long as the head of a condition variable's queue of woken threads can   *)
(* go on: a suspended head would keep those behind it from the mutex.      *)
(***************************************************************************)
\* A thread that is blocked has not exited.
BlockedAlive == \A t \in ThreadId : blockedBy[t] # NotBlocked => active[t]

NobodySuspended == \A t \in ThreadId : suspended[t] = 0

LEMMA AliveStep ==
    ASSUME TypeOK, RunnerUnblocked, BlockedAlive, [Next]_vars PROVE BlockedAlive'
<1>0. /\ current \in ThreadId /\ blockedBy \in [ThreadId -> ThreadBlock]
      /\ active \in [ThreadId -> BOOLEAN]
  BY ThreadTypes DEF TypeOK, ThreadsTypeOK, TableTypeOK
<1>1. ASSUME UNCHANGED active, NEW t \in ThreadId, active[t], NEW b,
             UNCHANGED blockedBy \/ blockedBy' = [blockedBy EXCEPT ![t] = b]
      PROVE  BlockedAlive'
  BY <1>0, <1>1 DEF BlockedAlive
<1>2. ASSUME phase = "run", UNCHANGED active, NEW b,
             UNCHANGED blockedBy \/ blockedBy' = [blockedBy EXCEPT ![current] = b]
      PROVE  BlockedAlive'
  BY <1>0, <1>1, <1>2 DEF RunnerUnblocked
<1>3. CASE ThreadStep
  <2>1. CASE Preempt
    BY <1>2, <2>1 DEF Preempt, YieldThread
  <2>2. CASE NewThread
    BY <1>0, <2>2 DEF NewThread, BlockedAlive
  <2>3. CASE ThreadExit
    BY <1>0, <2>3 DEF ThreadExit, BlockedAlive, RunnerUnblocked, Calls
  <2>4. CASE Sleep
    BY <1>2, <2>4 DEF Sleep, YieldThread, Calls
  <2>5. ASSUME NEW u \in ThreadId, JoinWithThread(u) PROVE BlockedAlive'
    BY <1>2, <2>5 DEF JoinWithThread, YieldThread, Calls
  <2>6. ASSUME NEW u \in ThreadId, SuspendThread(u) \/ ResumeThread(u) PROVE BlockedAlive'
    BY <2>6 DEF SuspendThread, ResumeThread, BlockedAlive
  <2> QED BY <1>3, <2>1, <2>2, <2>3, <2>4, <2>5, <2>6 DEF ThreadStep
<1>4. CASE MutexStep
  BY <1>2, <1>4
  DEF MutexStep, InitMutex, DestroyMutex, LockMutex, UnlockMutex, Calls, YieldThread,
      threadVars
<1>5. CASE SemStep
  BY <1>2, <1>5
  DEF SemStep, SemInit, SemDestroy, SemPost, SemWait, Calls, YieldThread, threadVars
<1>6. CASE CondStep
  <2>1. CASE PthreadCondReturn
    BY <1>2, <2>1 DEF PthreadCondReturn
  <2>2. ASSUME NEW c \in Conds,
               \/ PthreadCondInit(c)
               \/ PthreadCondDestroy(c)
               \/ PthreadCondSignal(c)
               \/ PthreadCondBroadcast(c)
        PROVE  BlockedAlive'
    BY <1>2, <2>2
    DEF PthreadCondInit, PthreadCondDestroy, PthreadCondSignal, PthreadCondBroadcast,
        CondGone, Calls, threadVars
  <2>3. ASSUME NEW c \in Conds, NEW m \in MutexId, NEW timed \in BOOLEAN,
               PthreadCondWait(c, m, timed)
        PROVE  BlockedAlive'
    BY <1>2, <2>3 DEF PthreadCondWait, CondGone, Calls, YieldThread
  <2> QED BY <1>6, <2>1, <2>2, <2>3 DEF CondStep
<1>7. CASE ScanSkip \/ SleepUntilAwakening \/ DeclareDeadlock
  BY <1>7 DEF ScanSkip, SleepUntilAwakening, DeclareDeadlock, BlockedAlive
<1>8. ASSUME NEW t \in ThreadId,
             \/ ScanNotBlocked(t)
             \/ \E expired \in BOOLEAN : ScanSleeping(t, expired)
             \/ ScanMutex(t)
             \/ ScanSemaphore(t)
             \/ ScanJoining(t)
      PROVE  BlockedAlive'
  <2>1. /\ UNCHANGED active /\ active[t]
        /\ UNCHANGED blockedBy \/ blockedBy' = [blockedBy EXCEPT ![t] = NotBlocked]
    BY <1>8
    DEF ScanNotBlocked, ScanSleeping, ScanMutex, ScanSemaphore, ScanJoining, Dispatch,
        Relock, Examines
  <2> QED BY <1>1, <2>1
<1>9. ASSUME NEW t \in ThreadId, NEW c \in Conds,
             \/ ScanCondGone(t, c)
             \/ ScanCondWake(t, c)
             \/ ScanCondTimeout(t, c)
             \/ ScanCondWait(t, c)
      PROVE  BlockedAlive'
  <2>1. UNCHANGED active /\ active[t]
    BY <1>9 DEF ScanCondGone, ScanCondWake, ScanCondTimeout, ScanCondWait, ExaminesWaiter,
                Examines
  <2>2. \/ UNCHANGED blockedBy
        \/ blockedBy' = [blockedBy EXCEPT ![t] = NotBlocked]
        \/ blockedBy' = [blockedBy EXCEPT ![t] = OnMutex(currMutex[c])]
    BY <1>9
    DEF ScanCondGone, ScanCondWake, ScanCondTimeout, ScanCondWait, Relock, Dispatch
  <2> QED BY <1>1, <2>1, <2>2
<1>10. CASE ScanStep
  BY <1>7, <1>8, <1>9, <1>10 DEF ScanStep
<1>11. CASE UNCHANGED vars
  BY <1>11 DEF vars, threadVars, BlockedAlive
<1> QED BY <1>3, <1>4, <1>5, <1>6, <1>10, <1>11 DEF Next, GuestStep

LEMMA AliveInvariant == Spec => []BlockedAlive
<1>1. Init => BlockedAlive
  BY DEF Init, ThreadsInit, BlockedAlive
<1>2. TypeOK /\ RunnerUnblocked /\ BlockedAlive /\ [Next]_vars => BlockedAlive'
  BY AliveStep
<1> QED BY <1>1, <1>2, TypeCorrect, RunnerIsUnblocked, PTL DEF Spec

LEMMA SuspendedInvariant == ASSUME "suspend" \notin GuestOps PROVE Spec => []NobodySuspended
<1>1. Init => NobodySuspended
  BY DEF Init, ThreadsInit, NobodySuspended
<1>2. ASSUME TypeOK, NobodySuspended, [Next]_vars PROVE UNCHANGED suspended
  <2>1. CASE ThreadStep
    <3>1. ASSUME NEW u \in ThreadId PROVE ~ SuspendThread(u) /\ ~ ResumeThread(u)
      BY <1>2 DEF SuspendThread, ResumeThread, Calls, NobodySuspended
    <3> QED BY <2>1, <3>1
            DEF ThreadStep, Preempt, NewThread, ThreadExit, Sleep, JoinWithThread
  <2>2. CASE MutexStep
    BY <2>2 DEF MutexStep, InitMutex, DestroyMutex, LockMutex, UnlockMutex, threadVars
  <2>3. CASE SemStep
    BY <2>3 DEF SemStep, SemInit, SemDestroy, SemPost, SemWait, threadVars
  <2>4. CASE CondStep
    <3>1. ASSUME NEW c \in Conds, PthreadCondInit(c) \/ PthreadCondDestroy(c)
          PROVE  UNCHANGED suspended
      BY <3>1 DEF PthreadCondInit, PthreadCondDestroy, threadVars
    <3>2. ASSUME NEW c \in Conds, PthreadCondSignal(c) \/ PthreadCondBroadcast(c)
          PROVE  UNCHANGED suspended
      BY <3>2 DEF PthreadCondSignal, PthreadCondBroadcast, CondGone, threadVars
    <3>3. ASSUME NEW c \in Conds, NEW m \in MutexId, NEW timed \in BOOLEAN,
                 PthreadCondWait(c, m, timed)
          PROVE  UNCHANGED suspended
      BY <3>3 DEF PthreadCondWait
    <3> QED
      BY <2>4, <3>1, <3>2, <3>3 DEF CondStep, PthreadCondReturn
  <2>5. CASE ScanStep
    BY <2>5
    DEF ScanStep, ScanSkip, SleepUntilAwakening, DeclareDeadlock, ScanNotBlocked,
        ScanSleeping, ScanMutex, ScanSemaphore, ScanJoining, ScanCondGone, ScanCondWake,
        ScanCondTimeout, ScanCondWait
  <2>6. CASE UNCHANGED vars
    BY <2>6 DEF vars, threadVars
  <2> QED BY <1>2, <2>1, <2>2, <2>3, <2>4, <2>5, <2>6 DEF Next, GuestStep
<1>3. TypeOK /\ NobodySuspended /\ [Next]_vars => NobodySuspended'
  BY <1>2 DEF NobodySuspended
<1> QED BY <1>1, <1>3, TypeCorrect, PTL DEF Spec

\* In a deadlock that is one, no thread could go on.
LEMMA NobodyReleasable ==
    ASSUME TypeOK, NobodyMoves,
           \/ Conds = {}
           \/ LawfulInv /\ BlockedAlive /\ NobodySuspended
    PROVE  \A t \in ThreadId : ~ Releasable(t)
<1> SUFFICES ASSUME NEW t \in ThreadId, Releasable(t) PROVE FALSE
  OBVIOUS
<1>1. ASSUME NEW u \in ThreadId, active[u], suspended[u] = 0 PROVE StaysBlocked(u)
  <2>1. u \in Existing /\ ~ (suspended[u] > 0)
    BY <1>1 DEF TypeOK, ThreadsTypeOK, TableTypeOK
  <2> QED BY <1>1, <2>1 DEF NobodyMoves, Stays
<1>2. active[t] /\ suspended[t] = 0
  BY DEF Releasable
<1>3. StaysBlocked(t)
  BY <1>1, <1>2
<1>4. PICK c \in Conds : /\ blockedBy[t] = OnCond(c, FALSE)
                         /\ t \in Elems(waking[c])
                         /\ ~ MutexIsLocked(currMutex[c])
  <2>1. \A m \in MutexId : owner[m] = NoThread => ~ MutexIsLocked(m)
    BY DEF MutexIsLocked
  <2>2. \A s \in Sems : semValue[s] > 0 => ~ (s \in openSems /\ semValue[s] = 0)
    BY DEF TypeOK, SemTypeOK
  <2> QED BY <1>3, <2>1, <2>2, StayKinds DEF Releasable
<1> DEFINE h == Head(waking[c])
<1>5. h \in Elems(waking[c])
  <2>1. waking[c] \in Seq(ThreadId) /\ waking[c] # <<>>
    BY <1>4, QueueTypes, EmptyQueue
  <2> QED BY <2>1, QueueTail
<1>6. h \in ThreadId /\ blockedBy[h] \in {OnCond(c, TRUE), OnCond(c, FALSE)}
  BY <1>4, <1>5, QueueTypes DEF LawfulInv, CondQueuesConsistent, BlockedOnCond
<1>7. StaysBlocked(h)
  <2>1. active[h] /\ suspended[h] = 0
    BY <1>4, <1>6, WaiterKinds DEF BlockedAlive, NobodySuspended
  <2> QED BY <1>1, <1>6, <2>1
<1>8. blockedBy[h] = OnCond(c, FALSE) /\ ~ MayWake(h, c)
  BY <1>6, <1>7, StayKinds
<1>9. MayWake(h, c)
  <2>1. waking[c] # <<>>
    BY <1>4, EmptyQueue
  <2> QED BY <1>4, <2>1 DEF MayWake
<1> QED BY <1>8, <1>9

\* "No active threads, program has deadlocked!" is true when the scheduler
\* says it, of programs without condition variables and of those that keep
\* the preconditions and suspend nobody.
THEOREM DeadlockSound ==
    ASSUME Conds = {} \/ (PosixGuest /\ "suspend" \notin GuestOps)
    PROVE  Spec => []DeadlockPanicSound
<1>1. DeadlockInv /\ phase = "deadlock" => NobodyMoves
  BY DEF DeadlockInv, RetriesStay
<1>2. CASE Conds = {}
  <2>1. TypeOK /\ DeadlockInv => DeadlockPanicSound
    BY <1>1, <1>2, NobodyReleasable DEF DeadlockPanicSound
  <2> QED BY <2>1, TypeCorrect, DeadlockInvariant, PTL
<1>3. CASE PosixGuest /\ "suspend" \notin GuestOps
  <2>1. ASSUME TypeOK, DeadlockInv, LawfulInv \/ AfterPanic, BlockedAlive,
               NobodySuspended
        PROVE  DeadlockPanicSound
    <3> SUFFICES ASSUME phase = "deadlock" PROVE \A t \in ThreadId : ~ Releasable(t)
      BY DEF DeadlockPanicSound
    <3>1. LawfulInv
      BY <2>1 DEF AfterPanic
    <3> QED
      BY <1>1, <2>1, <3>1, NobodyReleasable
  <2>2. Spec => [](LawfulInv \/ AfterPanic)
    BY <1>3, PosixInvariant
  <2>3. Spec => []NobodySuspended
    BY <1>3, SuspendedInvariant
  <2> QED BY <2>1, <2>2, <2>3, TypeCorrect, DeadlockInvariant, AliveInvariant, PTL
<1> QED BY <1>2, <1>3

\* The scheduler gives up exactly when nothing can change any more.
THEOREM DeadlockVerdicts ==
    ASSUME Conds = {} \/ (PosixGuest /\ "suspend" \notin GuestOps)
    PROVE  Spec => []DeadlockVerdict
<1>1. DeadlockPanicSound /\ DeadlockIsFinal => DeadlockVerdict
  BY DEF DeadlockVerdict
<1> QED BY <1>1, DeadlockSound, DeadlockFinal, PTL

-----------------------------------------------------------------------------
(***************************************************************************)
(* Scheduler implements Monitor, for every guest that keeps the documented *)
(* preconditions.  The mapping reads a wait off the frame, the block and   *)
(* the queues of its thread; that it is a wait of the monitor at every     *)
(* step needs LawfulInv, which says where such a thread can be.            *)
(***************************************************************************)
\* A thread that is in no wait.
LEMMA OutsideWait ==
    ASSUME NEW t, frame[t] = NoFrame
    PROVE  WaitOf(t) = Mesa!Outside
<1>1. /\ frame[t].cond = NoObject /\ frame[t].mutex = NoObject
      /\ frame[t].timed = FALSE
  BY DEF NoFrame
<1>2. WaitAt(t) = "outside"
  BY DEF WaitAt
<1> QED
  BY <1>1, <1>2 DEF WaitOf, Mesa!Outside, Mesa!Visit

\* A thread whose call of pthread_cond_wait has not been signalled or timed
\* out, or has been signalled.
LEMMA QueuedWait ==
    ASSUME TypeOK, LawfulInv, NEW t \in ThreadId, NEW c \in Conds, BlockedOnCond(t, c)
    PROVE  /\ WaitOf(t).at = IF t \in Elems(waking[c]) THEN "woken" ELSE "waiting"
           /\ WaitOf(t).cond = c /\ WaitOf(t).mutex = currMutex[c]
           /\ WaitOf(t).timed = frame[t].timed
           /\ WaitOf(t).expired = FALSE
<1>1. /\ frame[t] # NoFrame
      /\ frame[t].cond = c /\ frame[t].mutex = currMutex[c]
      /\ t \notin timedOut[c]
  BY WaiterFrame
<1>2. WaitAt(t) = IF t \in Elems(waking[c]) THEN "woken" ELSE "waiting"
  BY <1>1 DEF WaitAt
<1> QED
  BY <1>1, <1>2 DEF WaitOf

\* Nothing that the wait of u is read off changes.
SameWait(u) ==
    /\ frame'[u] = frame[u]
    /\ frame[u] # NoFrame =>
        /\ \A c \in Conds :
            /\ BlockedOnCond(u, c)' <=> BlockedOnCond(u, c)
            /\ u \in Elems(waking'[c]) <=> u \in Elems(waking[c])
            /\ u \in timedOut'[c] <=> u \in timedOut[c]
        /\ \A m \in MutexId : blockedBy'[u] = OnMutex(m) <=> blockedBy[u] = OnMutex(m)

\* Where a thread inside a wait has its condition variable and its mutex.
LEMMA FrameTypes ==
    ASSUME TypeOK, LawfulInv, NEW t \in ThreadId, frame[t] # NoFrame
    PROVE  /\ frame[t].cond \in Conds
           /\ frame[t].mutex \in MutexId /\ frame[t].mutex \in mutexes
           /\ FramePlace(t)
<1>1. frame[t].cond \in Conds /\ frame[t].mutex \in mutexes /\ FramePlace(t)
  BY DEF LawfulInv, FramesConsistent
<1> QED
  BY <1>1, MutexIdTypes

\* Then the wait is the same.
LEMMA WaitKept ==
    ASSUME TypeOK, LawfulInv, NEW u \in ThreadId, SameWait(u)
    PROVE  WaitOf(u)' = WaitOf(u)
<1>1. CASE frame[u] = NoFrame
  <2>1. frame'[u] = NoFrame
    BY <1>1 DEF SameWait
  <2>2. WaitOf(u) = [at |-> "outside", cond |-> NoFrame.cond, mutex |-> NoFrame.mutex,
                     timed |-> NoFrame.timed, expired |-> FALSE]
    BY <1>1 DEF WaitOf, WaitAt
  <2>3. WaitOf(u)' = [at |-> "outside", cond |-> NoFrame.cond, mutex |-> NoFrame.mutex,
                      timed |-> NoFrame.timed, expired |-> FALSE]
    BY <2>1 DEF WaitOf, WaitAt
  <2> QED
    BY <2>2, <2>3
<1>2. CASE frame[u] # NoFrame
  <2>1. PICK c \in Conds, m \in MutexId : c = frame[u].cond /\ m = frame[u].mutex
    BY <1>2, FrameTypes
  <2>2. /\ frame'[u] = frame[u]
        /\ BlockedOnCond(u, c)' <=> BlockedOnCond(u, c)
        /\ u \in Elems(waking'[c]) <=> u \in Elems(waking[c])
        /\ u \in timedOut'[c] <=> u \in timedOut[c]
        /\ blockedBy'[u] = OnMutex(m) <=> blockedBy[u] = OnMutex(m)
    BY <1>2 DEF SameWait
  <2>3. WaitAt(u)' = WaitAt(u)
    BY <1>2, <2>1, <2>2 DEF WaitAt, BlockedOnCond
  <2>4. (u \in timedOut'[c]) = (u \in timedOut[c])
    BY <2>2
  <2> QED
    BY <1>2, <2>1, <2>2, <2>3, <2>4 DEF WaitOf
<1> QED
  BY <1>1, <1>2

\* One wait changes.
LEMMA OneWait ==
    ASSUME TypeOK, LawfulInv, NEW t \in ThreadId, NEW v, WaitOf(t)' = v,
           \A u \in ThreadId \ {t} : SameWait(u)
    PROVE  waits' = [waits EXCEPT ![t] = v]
<1>1. \A u \in ThreadId \ {t} : WaitOf(u)' = WaitOf(u)
  BY WaitKept
<1> QED
  BY <1>1 DEF waits

\* None does.
LEMMA NoWait ==
    ASSUME TypeOK, LawfulInv, \A u \in ThreadId : SameWait(u)
    PROVE  waits' = waits
<1>1. \A u \in ThreadId : WaitOf(u)' = WaitOf(u)
  BY WaitKept
<1> QED
  BY <1>1 DEF waits

-----------------------------------------------------------------------------
(***************************************************************************)
(* What threads cannot observe: the steps that stutter.                    *)
(***************************************************************************)
Hidden ==
    /\ UNCHANGED <<owner, lockCount, frame, condVars>>
    /\ \A u \in ThreadId : blockedBy'[u] = blockedBy[u] \/ frame[u] = NoFrame

\* They change nothing the mapping looks at.
LEMMA HiddenStutters ==
    ASSUME TypeOK, LawfulInv, Hidden
    PROVE  UNCHANGED Mesa!vars
<1>1. ASSUME NEW u \in ThreadId
      PROVE  SameWait(u)
  <2>1. /\ UNCHANGED <<frame, waking, timedOut>>
        /\ blockedBy'[u] = blockedBy[u] \/ frame[u] = NoFrame
    BY DEF Hidden, condVars
  <2> QED
    BY <2>1 DEF SameWait, BlockedOnCond
<1>2. waits' = waits
  BY <1>1, NoWait
<1> QED
  BY <1>2 DEF Hidden, Mesa!vars

\* The calls that start, end, suspend and join threads.
LEMMA ThreadStepHidden ==
    ASSUME TypeOK, LawfulInv, ThreadStep, UNCHANGED <<mutexVars, condVars>>
    PROVE  Hidden
<1>0. current \in ThreadId /\ DOMAIN blockedBy = ThreadId
  BY ThreadTypes
<1>1. /\ UNCHANGED frame
      /\ \/ /\ frame[current] = NoFrame
            /\ \E b : blockedBy' = [blockedBy EXCEPT ![current] = b]
         \/ UNCHANGED blockedBy
         \/ NewThread
  BY DEF ThreadStep, Preempt, NewThread, ThreadExit, Sleep, JoinWithThread,
         SuspendThread, ResumeThread, Calls, YieldThread
<1>2. \A u \in ThreadId : blockedBy'[u] = blockedBy[u] \/ frame[u] = NoFrame
  <2>1. CASE NewThread
    <3>1. len \notin Existing
      BY DEF Existing, TypeOK, ThreadsTypeOK, PositionTypeOK
    <3>2. blockedBy' = [blockedBy EXCEPT ![len] = NotBlocked]
      BY <2>1 DEF NewThread
    <3> QED
      BY <1>0, <3>1, <3>2, ThreadTypes
  <2> QED
    BY <1>0, <1>1, <2>1
<1> QED
  BY <1>1, <1>2 DEF Hidden, mutexVars

\* The calls on semaphores.
LEMMA SemStepHidden ==
    ASSUME TypeOK, LawfulInv, SemStep, UNCHANGED <<mutexVars, condVars>>
    PROVE  Hidden
<1>1. /\ UNCHANGED frame
      /\ \/ /\ frame[current] = NoFrame
            /\ \E b : blockedBy' = [blockedBy EXCEPT ![current] = b]
         \/ UNCHANGED blockedBy
  BY DEF SemStep, SemInit, SemDestroy, SemPost, SemWait, Calls, YieldThread, threadVars
<1> QED
  BY <1>1, ThreadTypes DEF Hidden, mutexVars

\* The iterations of the scan that grant no mutex and end no wait.
LEMMA ScanHidden ==
    ASSUME TypeOK, LawfulInv, NEW t \in ThreadId,
           \/ ScanSkip \/ SleepUntilAwakening \/ DeclareDeadlock
           \/ ScanNotBlocked(t)
           \/ \E expired \in BOOLEAN : ScanSleeping(t, expired)
           \/ ScanSemaphore(t)
           \/ ScanJoining(t)
           \/ \E c \in Conds : ScanCondWait(t, c)
    PROVE  Hidden
<1>1. CASE \/ ScanSkip \/ SleepUntilAwakening \/ DeclareDeadlock
           \/ \E c \in Conds : ScanCondWait(t, c)
  BY <1>1 DEF ScanSkip, SleepUntilAwakening, DeclareDeadlock, ScanCondWait, Hidden, mutexVars
<1>2. CASE \/ ScanNotBlocked(t)
           \/ \E expired \in BOOLEAN : ScanSleeping(t, expired)
           \/ ScanSemaphore(t)
           \/ ScanJoining(t)
  <2>1. /\ phase = "schedule"
        /\ \/ blockedBy[t] \in {NotBlocked, Sleeping}
           \/ \E x : blockedBy[t] = OnSemaphore(x) \/ blockedBy[t] = Joining(x)
    BY <1>2 DEF ScanNotBlocked, ScanSleeping, ScanSemaphore, ScanJoining, Examines
  <2>2. ~ IsWaiter(blockedBy[t]) /\ \A m \in MutexId : blockedBy[t] # OnMutex(m)
    BY <2>1, BlockKinds
  <2>3. frame[t] = NoFrame
    BY <2>1, <2>2, Frameless
  <2>4. /\ UNCHANGED <<frame, mutexVars, condVars>>
        /\ UNCHANGED blockedBy \/ blockedBy' = [blockedBy EXCEPT ![t] = NotBlocked]
    BY <1>2 DEF ScanNotBlocked, ScanSleeping, ScanSemaphore, ScanJoining, Dispatch
  <2> QED
    BY <2>3, <2>4, ThreadTypes DEF Hidden, mutexVars
<1> QED
  BY <1>1, <1>2

-----------------------------------------------------------------------------
(***************************************************************************)
(* Locks and unlocks.                                                      *)
(***************************************************************************)
\* The wait of a thread, and that of one outside.
LEMMA WaitsAt ==
    ASSUME NEW t \in ThreadId
    PROVE  waits[t] = WaitOf(t) /\ (frame[t] = NoFrame => waits[t] = Mesa!Outside)
BY OutsideWait DEF waits

\* A free mutex is locked, by the caller of lock_mutex or by the scheduler.
LEMMA TakeGrants ==
    ASSUME NEW t, NEW m, owner[m] = NoThread, Take(t, m)
    PROVE  Mesa!Grant(t, m)
BY DEF Take, Mesa!Grant

\* The calls on mutexes.
LEMMA MutexStepMaps ==
    ASSUME Misuse = {}, TypeOK, LawfulInv, MutexStep, UNCHANGED condVars
    PROVE  Hidden \/ \E m \in MutexId : Mesa!Lock(current, m) \/ Mesa!Unlock(current, m)
<1>0. current \in ThreadId
  BY ThreadTypes
<1>1. CASE \/ \E type \in MutexTypes : InitMutex(type)
           \/ \E m \in MutexId : DestroyMutex(m)
  BY <1>1 DEF InitMutex, DestroyMutex, Hidden, threadVars
<1>2. ASSUME NEW m \in MutexId, LockMutex(m)
      PROVE  Hidden \/ Mesa!Lock(current, m)
  <2>1. frame[current] = NoFrame
    BY <1>2 DEF LockMutex, Calls
  <2>2. CASE blockedBy' = blockedBy /\ UNCHANGED frame
    <3>1. /\ \A u \in ThreadId : SameWait(u)
          /\ waits[current] = Mesa!Outside
      BY <1>0, <2>1, <2>2, WaitsAt DEF SameWait, BlockedOnCond, condVars
    <3>2. UNCHANGED waits
      BY <3>1, NoWait
    <3>3. CASE owner[m] = NoThread /\ Take(current, m)
      BY <3>1, <3>2, <3>3, TakeGrants DEF Mesa!Lock
    <3>4. CASE /\ owner[m] = current
               /\ lockCount' = [lockCount EXCEPT ![m] = @ + 1]
               /\ UNCHANGED owner
      BY <3>1, <3>2, <3>4 DEF Mesa!Lock
    <3>5. CASE UNCHANGED <<owner, lockCount>>
      BY <2>2, <3>5 DEF Hidden
    <3> QED
      BY <1>2, <3>3, <3>4, <3>5 DEF LockMutex
  <2>3. CASE blockedBy' = [blockedBy EXCEPT ![current] = OnMutex(m)]
             /\ UNCHANGED <<frame, owner, lockCount>>
    BY <1>0, <2>1, <2>3, ThreadTypes DEF Hidden
  <2> QED
    BY <1>2, <2>2, <2>3 DEF LockMutex, YieldThread, threadVars
<1>3. ASSUME NEW m \in MutexId, UnlockMutex(m)
      PROVE  Mesa!Unlock(current, m)
  <2>1. /\ owner[m] = current /\ Release(m)
        /\ frame[current] = NoFrame
        /\ UNCHANGED <<blockedBy, frame>>
    BY <1>3 DEF UnlockMutex, Calls, Lawful, threadVars
  <2>2. /\ \A u \in ThreadId : SameWait(u)
        /\ waits[current] = Mesa!Outside
    BY <1>0, <2>1, WaitsAt DEF SameWait, BlockedOnCond, condVars
  <2>3. UNCHANGED waits
    BY <2>2, NoWait
  <2> QED
    BY <2>1, <2>2, <2>3 DEF Release, Mesa!Unlock, Mesa!GiveUp
<1> QED
  BY <1>1, <1>2, <1>3 DEF MutexStep

-----------------------------------------------------------------------------
(***************************************************************************)
(* The scheduler grants mutexes and ends waits.                            *)
(***************************************************************************)
\* A free mutex is granted to the thread the scan examines.
LEMMA RelockMaps ==
    ASSUME TypeOK, NEW t \in ThreadId, NEW m \in MutexId, m \in mutexes,
           ~ MutexIsLocked(m), Relock(t, m)
    PROVE  /\ Mesa!Grant(t, m)
           /\ blockedBy' = [blockedBy EXCEPT ![t] = NotBlocked]
<1>1. owner[m] = NoThread /\ Take(t, m)
  BY DEF MutexIsLocked, Relock, RelockUnblockedMutex
<1> QED
  BY <1>1, TakeGrants, RelockGrants

\* The wait of a thread that has been given its mutex.
LEMMA BackWait ==
    ASSUME NEW t, frame[t] # NoFrame, UNCHANGED <<frame, timedOut>>,
           blockedBy'[t] = NotBlocked
    PROVE  WaitOf(t)' = Mesa!Stage(WaitOf(t), "back", WaitOf(t).expired)
<1>1. WaitAt(t)' = "back"
  <2>1. /\ \A c, timed : NotBlocked # OnCond(c, timed)
        /\ \A m : NotBlocked # OnMutex(m)
    BY WaiterKinds, BlockKinds
  <2> QED
    BY <2>1 DEF WaitAt, BlockedOnCond
<1> QED
  BY <1>1 DEF WaitOf, Mesa!Stage, Mesa!Visit

\* A thread that is blocked on a mutex and goes on when it is free: it called
\* lock_mutex, or its deadline passed while the mutex was locked.
LEMMA ScanMutexMaps ==
    ASSUME TypeOK, LawfulInv, NEW t \in ThreadId, ScanMutex(t)
    PROVE  Hidden \/ \E m \in MutexId : Mesa!Lock(t, m) \/ Mesa!Resume(t, m)
<1>0. UNCHANGED <<frame, condVars>> /\ phase = "schedule"
  BY DEF ScanMutex, Examines
<1>1. PICK m \in MutexId :
        /\ blockedBy[t] = OnMutex(m)
        /\ IF MutexIsLocked(m)
           THEN KeepScanning(FALSE) /\ UNCHANGED <<blockedBy, mutexVars>>
           ELSE Relock(t, m)
  BY DEF ScanMutex
<1>2. CASE MutexIsLocked(m)
  BY <1>0, <1>1, <1>2 DEF Hidden, mutexVars
<1>3. CASE ~ MutexIsLocked(m)
  <2>1. m \in mutexes
    BY <1>1 DEF LawfulInv, AwaitedExists
  <2>2. Mesa!Grant(t, m) /\ blockedBy' = [blockedBy EXCEPT ![t] = NotBlocked]
    BY <1>1, <1>3, <2>1, RelockMaps
  <2>3. \A u \in ThreadId \ {t} : SameWait(u)
    <3>1. \A u \in ThreadId \ {t} : blockedBy'[u] = blockedBy[u]
      BY <2>2, ThreadTypes
    <3> QED
      BY <1>0, <3>1 DEF SameWait, BlockedOnCond, condVars
  <2>4. CASE frame[t] = NoFrame
    <3>1. SameWait(t)
      BY <1>0, <2>4 DEF SameWait
    <3>2. UNCHANGED waits /\ waits[t] = Mesa!Outside
      BY <2>3, <2>4, <3>1, NoWait, WaitsAt
    <3> QED
      BY <2>2, <3>2 DEF Mesa!Lock
  <2>5. CASE frame[t] # NoFrame
    <3>0. \A c : ~ BlockedOnCond(t, c)
      BY <1>1, WaiterKinds DEF BlockedOnCond
    <3>1. frame[t].mutex = m
      BY <1>0, <1>1, <2>5, <3>0, BlockKinds, FrameTypes DEF FramePlace
    <3>2. WaitOf(t).at = "late" /\ WaitOf(t).mutex = m
      <4>1. WaitAt(t) = "late"
        BY <1>1, <2>5, <3>0, <3>1 DEF WaitAt
      <4> QED
        BY <3>1, <4>1 DEF WaitOf
    <3>3. WaitOf(t)' = Mesa!Stage(WaitOf(t), "back", WaitOf(t).expired)
      <4>1. blockedBy'[t] = NotBlocked
        BY <2>2, ThreadTypes
      <4> QED
        BY <1>0, <2>5, <4>1, BackWait DEF condVars
    <3>4. /\ waits[t] = WaitOf(t)
          /\ waits' = [waits EXCEPT ![t] = Mesa!Stage(WaitOf(t), "back", WaitOf(t).expired)]
      BY <2>3, <3>3, OneWait, WaitsAt
    <3> QED
      BY <2>2, <3>2, <3>4 DEF Mesa!Resume
  <2> QED
    BY <2>4, <2>5
<1> QED
  BY <1>2, <1>3

\* The other threads' waits are the same when one leaves the queues.
LEMMA LeavesOthers ==
    ASSUME TypeOK, NEW t \in ThreadId, NEW c \in Conds, NEW b, LeaveQueues(t, c, b),
           UNCHANGED frame,
           timedOut' \in {timedOut, [timedOut EXCEPT ![c] = @ \cup {t}]}
    PROVE  \A u \in ThreadId \ {t} : SameWait(u)
<1>1. \A u \in ThreadId \ {t} : blockedBy'[u] = blockedBy[u]
  BY ThreadTypes DEF LeaveQueues
<1>2. PICK q : waking' = [waking EXCEPT ![c] = q] /\ Elems(q) = Elems(waking[c]) \ {t}
  BY DEF LeaveQueues
<1>3. \A u \in ThreadId \ {t}, d \in Conds :
        /\ u \in Elems(waking'[d]) <=> u \in Elems(waking[d])
        /\ u \in timedOut'[d] <=> u \in timedOut[d]
  <2> SUFFICES ASSUME NEW u \in ThreadId \ {t}, NEW d \in Conds
               PROVE  /\ u \in Elems(waking'[d]) <=> u \in Elems(waking[d])
                      /\ u \in timedOut'[d] <=> u \in timedOut[d]
    OBVIOUS
  <2>1. CASE d = c
    BY <1>2, <2>1, QueueTypes
  <2>2. CASE d # c
    BY <1>2, <2>2, QueueTypes
  <2> QED
    BY <2>1, <2>2
<1> QED
  BY <1>1, <1>3 DEF SameWait, BlockedOnCond

\* A signalled waiter goes on with its mutex.
LEMMA CondWakeMaps ==
    ASSUME TypeOK, LawfulInv, NEW t \in ThreadId, NEW c \in Conds, ScanCondWake(t, c)
    PROVE  \E m \in MutexId : Mesa!Resume(t, m)
<1>1. /\ BlockedOnCond(t, c) /\ t \in Elems(waking[c])
      /\ ~ MutexIsLocked(currMutex[c]) /\ Relock(t, currMutex[c])
      /\ LeaveQueues(t, c, NotBlocked)
      /\ UNCHANGED <<timedOut, frame>>
  BY CondWakeLeaves
<1>2. /\ frame[t] # NoFrame
      /\ currMutex[c] \in mutexes /\ currMutex[c] \in MutexId
  BY <1>1, WaiterFrame
<1>3. WaitOf(t).at = "woken" /\ WaitOf(t).mutex = currMutex[c]
  BY <1>1, QueuedWait
<1>4. Mesa!Grant(t, currMutex[c])
  BY <1>1, <1>2, RelockMaps
<1>5. /\ waits[t] = WaitOf(t)
      /\ waits' = [waits EXCEPT ![t] = Mesa!Stage(WaitOf(t), "back", WaitOf(t).expired)]
  <2>1. blockedBy'[t] = NotBlocked
    BY <1>1, ThreadTypes DEF LeaveQueues
  <2>2. WaitOf(t)' = Mesa!Stage(WaitOf(t), "back", WaitOf(t).expired)
    BY <1>1, <1>2, <2>1, BackWait
  <2> QED
    BY <1>1, <2>2, LeavesOthers, OneWait, WaitsAt
<1> QED
  BY <1>2, <1>3, <1>4, <1>5 DEF Mesa!Resume

\* A waiter goes on, or wants its mutex, because its deadline passed.
LEMMA CondTimeoutMaps ==
    ASSUME TypeOK, LawfulInv, NEW t \in ThreadId, NEW c \in Conds, ScanCondTimeout(t, c)
    PROVE  \E m \in MutexId : Mesa!Expire(t, m)
<1> DEFINE m == currMutex[c]
<1>1. /\ BlockedOnCond(t, c) /\ frame[t].timed
      /\ timedOut' = [timedOut EXCEPT ![c] = @ \cup {t}]
      /\ UNCHANGED frame
      /\ IF MutexIsLocked(m)
         THEN LeaveQueues(t, c, OnMutex(m)) /\ UNCHANGED mutexVars
         ELSE LeaveQueues(t, c, NotBlocked) /\ Relock(t, m)
  BY CondTimeoutLeaves
<1>2. /\ frame[t] # NoFrame /\ frame[t].cond = c /\ frame[t].mutex = m
      /\ m \in mutexes /\ m \in MutexId
  BY <1>1, WaiterFrame
<1>3. /\ WaitOf(t).at \in {"waiting", "woken"} /\ WaitOf(t).mutex = m
      /\ WaitOf(t).timed = frame[t].timed
  BY <1>1, QueuedWait
<1>4. /\ frame'[t] = frame[t]
      /\ t \in timedOut'[c]
  BY <1>1, QueueTypes
<1>5. ASSUME NEW b, NEW at, LeaveQueues(t, c, b), WaitAt(t)' = at
      PROVE  /\ waits[t] = WaitOf(t)
             /\ waits' = [waits EXCEPT ![t] = Mesa!Stage(WaitOf(t), at, TRUE)]
  <2>1. (frame'[t] # NoFrame /\ t \in timedOut'[frame'[t].cond]) = TRUE
    BY <1>2, <1>4
  <2>2. WaitOf(t)' = Mesa!Stage(WaitOf(t), at, TRUE)
    BY <1>4, <1>5, <2>1 DEF WaitOf, Mesa!Stage, Mesa!Visit
  <2> QED
    BY <1>1, <1>5, <2>2, LeavesOthers, OneWait, WaitsAt
<1>6. CASE MutexIsLocked(m)
  <2>1. blockedBy'[t] = OnMutex(frame'[t].mutex)
    BY <1>1, <1>2, <1>4, <1>6, ThreadTypes DEF LeaveQueues
  <2>2. WaitAt(t)' = "late"
    <3>1. \A d, timed : OnMutex(frame'[t].mutex) # OnCond(d, timed)
      BY WaiterKinds
    <3> QED
      BY <1>2, <1>4, <2>1, <3>1 DEF WaitAt, BlockedOnCond
  <2>3. UNCHANGED <<owner, lockCount>>
    BY <1>1, <1>6 DEF mutexVars
  <2> QED
    BY <1>1, <1>2, <1>3, <1>5, <1>6, <2>2, <2>3 DEF Mesa!Expire, Mesa!lockVars
<1>7. CASE ~ MutexIsLocked(m)
  <2>1. Mesa!Grant(t, m) /\ blockedBy'[t] = NotBlocked
    BY <1>1, <1>2, <1>7, RelockMaps, ThreadTypes
  <2>2. WaitAt(t)' = "back"
    <3>1. /\ \A d, timed : NotBlocked # OnCond(d, timed)
          /\ \A x : NotBlocked # OnMutex(x)
      BY WaiterKinds, BlockKinds
    <3> QED
      BY <1>2, <1>4, <2>1, <3>1 DEF WaitAt, BlockedOnCond
  <2> QED
    BY <1>1, <1>2, <1>3, <1>5, <1>7, <2>1, <2>2 DEF Mesa!Expire
<1> QED
  BY <1>6, <1>7

-----------------------------------------------------------------------------
(***************************************************************************)
(* The calls of pthread_cond_*.                                            *)
(***************************************************************************)
\* The threads that wait on c, and those that have been signalled, are those in
\* its two queues.
LEMMA SleepersQueued ==
    ASSUME TypeOK, LawfulInv, NEW c \in Conds
    PROVE  /\ Mesa!Sleepers(c) = Elems(waiting[c])
           /\ Mesa!Woken(c) = Elems(waking[c])
<1>1. QueuesOf(c)
  BY DEF LawfulInv, CondQueuesConsistent, QueuesOf
<1>2. Elems(waiting[c]) \subseteq ThreadId /\ Elems(waking[c]) \subseteq ThreadId
  BY QueueTypes
<1>3. ASSUME NEW t \in ThreadId
      PROVE  /\ waits[t].at = "waiting" /\ waits[t].cond = c <=> t \in Elems(waiting[c])
             /\ waits[t].at = "woken" /\ waits[t].cond = c <=> t \in Elems(waking[c])
  <2>0. waits[t] = WaitOf(t)
    BY WaitsAt
  <2>1. CASE BlockedOnCond(t, c)
    <3>1. /\ t \in Elems(waiting[c]) \/ t \in Elems(waking[c])
          /\ t \notin Elems(waiting[c]) \/ t \notin Elems(waking[c])
      BY <1>1, <2>1 DEF QueuesOf
    <3>2. /\ WaitOf(t).at = IF t \in Elems(waking[c]) THEN "woken" ELSE "waiting"
          /\ WaitOf(t).cond = c
      BY <2>1, QueuedWait
    <3>3. CASE t \in Elems(waking[c])
      BY <2>0, <3>1, <3>2, <3>3
    <3>4. CASE t \notin Elems(waking[c])
      BY <2>0, <3>1, <3>2, <3>4
    <3> QED
      BY <3>3, <3>4
  <2>2. CASE ~ BlockedOnCond(t, c)
    <3>1. t \notin Elems(waiting[c]) /\ t \notin Elems(waking[c])
      BY <1>1, <2>2 DEF QueuesOf
    <3>2. WaitOf(t).at \in {"waiting", "woken"} => WaitOf(t).cond # c
      BY <2>2 DEF WaitOf, WaitAt
    <3> QED
      BY <2>0, <3>1, <3>2
  <2> QED
    BY <2>1, <2>2
<1> QED
  BY <1>2, <1>3 DEF Mesa!Sleepers, Mesa!Woken

\* A signal or a broadcast that moves the threads S to `waking`.
LEMMA WakesMaps ==
    ASSUME TypeOK, LawfulInv, NEW c \in Conds, NEW S, S \subseteq Elems(waiting[c]),
           UNCHANGED <<frame, blockedBy, timedOut>>,
           \A d \in Conds \ {c} : waking'[d] = waking[d],
           Elems(waking'[c]) = Elems(waking[c]) \cup S
    PROVE  Mesa!Wakes(S)
<1>1. QueuesOf(c)
  BY DEF LawfulInv, CondQueuesConsistent, QueuesOf
<1>2. ASSUME NEW t \in ThreadId, t \in S
      PROVE  WaitOf(t)' = Mesa!Stage(WaitOf(t), "woken", FALSE)
  <2>1. BlockedOnCond(t, c)
    BY <1>1, <1>2 DEF QueuesOf
  <2>2. /\ frame[t] # NoFrame /\ frame[t].cond = c
        /\ t \notin timedOut[c]
    BY <2>1, WaiterFrame
  <2>3. WaitAt(t)' = "woken"
    BY <1>2, <2>1, <2>2 DEF WaitAt, BlockedOnCond
  <2> QED
    BY <2>2, <2>3 DEF WaitOf, Mesa!Stage, Mesa!Visit
<1>3. ASSUME NEW t \in ThreadId, t \notin S
      PROVE  WaitOf(t)' = WaitOf(t)
  <2>1. \A d \in Conds : t \in Elems(waking'[d]) <=> t \in Elems(waking[d])
    BY <1>3
  <2>2. SameWait(t)
    BY <2>1 DEF SameWait, BlockedOnCond
  <2> QED
    BY <2>2, WaitKept
<1> QED
  BY <1>2, <1>3 DEF Mesa!Wakes, waits

\* A signal reaches the front of `waiting`, a broadcast all of it.
LEMMA RequeueMaps ==
    ASSUME Misuse = {}, TypeOK, LawfulInv, NEW c \in Conds,
           PthreadCondSignal(c) \/ PthreadCondBroadcast(c)
    PROVE  Mesa!Signal(c) \/ Mesa!Broadcast(c)
<1>c. c \in conds /\ ~ CondGone(c)
  BY DEF PthreadCondSignal, PthreadCondBroadcast, CondGone, Lawful
<1>0. /\ UNCHANGED <<timedOut, mutexVars, threadVars>>
      /\ waiting[c] \in Seq(ThreadId) /\ waking[c] \in Seq(ThreadId)
  BY <1>c, QueueTypes DEF PthreadCondSignal, PthreadCondBroadcast
<1>1. UNCHANGED <<frame, blockedBy, owner, lockCount>>
  BY <1>0 DEF mutexVars, threadVars
<1>2. CASE PthreadCondSignal(c)
  <2>1. waiting[c] # <<>> /\ waking' = [waking EXCEPT ![c] = Append(@, Head(waiting[c]))]
    BY <1>c, <1>2 DEF PthreadCondSignal
  <2>2. Head(waiting[c]) \in Elems(waiting[c]) /\ Head(waiting[c]) \in ThreadId
    BY <1>0, <2>1, QueueTail
  <2>3. /\ Elems(waking'[c]) = Elems(waking[c]) \cup {Head(waiting[c])}
        /\ \A d \in Conds \ {c} : waking'[d] = waking[d]
    BY <1>0, <2>1, <2>2, QueueTypes, QueueAppend
  <2>4. Mesa!Wakes({Head(waiting[c])})
    BY <1>0, <1>1, <2>2, <2>3, WakesMaps
  <2> QED
    BY <1>1, <2>2, <2>4, SleepersQueued DEF Mesa!Signal, Mesa!lockVars
<1>3. CASE PthreadCondBroadcast(c)
  <2>1. waking' = [waking EXCEPT ![c] = @ \o waiting[c]]
    BY <1>c, <1>3 DEF PthreadCondBroadcast
  <2>2. /\ Elems(waking'[c]) = Elems(waking[c]) \cup Elems(waiting[c])
        /\ \A d \in Conds \ {c} : waking'[d] = waking[d]
    BY <1>0, <2>1, QueueTypes, QueueConcat
  <2>3. Mesa!Wakes(Elems(waiting[c]))
    BY <1>0, <1>1, <2>2, WakesMaps
  <2> QED
    BY <1>1, <2>3, SleepersQueued DEF Mesa!Broadcast, Mesa!lockVars
<1> QED
  BY <1>2, <1>3

\* Nobody waits on a condition variable that is initialised or destroyed.
LEMMA CondLifeStutters ==
    ASSUME Misuse = {}, TypeOK, LawfulInv, FramedConds, NEW c \in Conds,
           PthreadCondInit(c) \/ PthreadCondDestroy(c)
    PROVE  UNCHANGED Mesa!vars
<1>1. \A t \in Existing : frame[t].cond # c
  <2>1. c \notin conds => \A t \in ThreadId : frame[t].cond # c
    BY CondAssumption DEF FramedConds, NoFrame
  <2> QED
    BY <2>1, ThreadTypes DEF PthreadCondInit, PthreadCondDestroy, Lawful
<1>2. /\ UNCHANGED <<owner, lockCount, frame, blockedBy>>
      /\ waking' \in {waking, [waking EXCEPT ![c] = <<>>]}
      /\ timedOut' \in {timedOut, [timedOut EXCEPT ![c] = {}]}
  BY DEF PthreadCondInit, PthreadCondDestroy, CondGone, condVars, mutexVars, threadVars
<1>3. waking[c] = <<>> /\ timedOut[c] = {}
  <2>1. \A t \in ThreadId : t \notin timedOut[c]
    BY <1>1, ThreadTypes, CondAssumption DEF LawfulInv, TimedOutConsistent, NoFrame
  <2>2. timedOut[c] \subseteq ThreadId
    BY DEF TypeOK, CondTypeOK
  <2> QED
    BY <1>1, <2>1, <2>2, Unawaited
<1>4. UNCHANGED <<waking, timedOut>>
  <2>1. waking = [waking EXCEPT ![c] = <<>>] /\ timedOut = [timedOut EXCEPT ![c] = {}]
    BY <1>3 DEF TypeOK, CondTypeOK
  <2> QED
    BY <1>2, <2>1
<1>5. \A t \in ThreadId : SameWait(t)
  BY <1>2, <1>4 DEF SameWait, BlockedOnCond
<1> QED
  BY <1>2, <1>5, NoWait DEF Mesa!vars

\* A wait starts: the caller gives up its mutex, whose other waiters are those
\* of the same mutex.
LEMMA CondWaitMaps ==
    ASSUME Misuse = {}, TypeOK, LawfulInv, RunnerUnblocked,
           NEW t \in ThreadId, t = current,
           NEW c \in Conds, NEW m \in MutexId, NEW timed \in BOOLEAN,
           PthreadCondWait(c, m, timed)
    PROVE  Mesa!Wait(t, c, m, timed)
<1>0. /\ frame[t] = NoFrame /\ blockedBy[t] = NotBlocked
      /\ owner[m] = t /\ Release(m)
  BY DEF PthreadCondWait, Calls, Lawful, RunnerUnblocked
<1>1. \A u \in Existing : BlockedOnCond(u, c) => frame[u].mutex = m
  BY DEF PthreadCondWait, Lawful, BlockedOnCond
<1>2. /\ waits[t] = Mesa!Outside
      /\ Mesa!GiveUp(t, m)
  BY <1>0, WaitsAt DEF Release, Mesa!GiveUp
<1>3. \A u \in Mesa!Sleepers(c) \cup Mesa!Woken(c) : waits[u].mutex = m
  <2> SUFFICES ASSUME NEW u \in Mesa!Sleepers(c) \cup Mesa!Woken(c)
               PROVE  waits[u].mutex = m
    OBVIOUS
  <2>1. QueuesOf(c)
    BY DEF LawfulInv, CondQueuesConsistent, QueuesOf
  <2>2. u \in ThreadId /\ BlockedOnCond(u, c)
    BY <2>1, SleepersQueued, QueueTypes DEF QueuesOf
  <2>3. waits[u] = WaitOf(u) /\ WaitOf(u).mutex = currMutex[c]
    BY <2>2, QueuedWait, WaitsAt
  <2> QED
    BY <1>1, <2>2, <2>3, WaitersShareMutex
<1>4. /\ frame' = [frame EXCEPT ![t] = Frame(c, m, timed)]
      /\ blockedBy' = [blockedBy EXCEPT ![t] = OnCond(c, timed)]
      /\ UNCHANGED <<waking, timedOut>>
  <2>1. c \in conds
    BY DEF PthreadCondWait, Lawful
  <2> QED
    BY <1>1, <2>1, WaitersShareMutex DEF PthreadCondWait, CondGone, YieldThread
<1>5. /\ frame'[t] = Frame(c, m, timed)
      /\ blockedBy'[t] = OnCond(c, timed)
      /\ \A u \in ThreadId \ {t} : frame'[u] = frame[u] /\ blockedBy'[u] = blockedBy[u]
  BY <1>0, <1>4, ThreadTypes
<1>6. WaitOf(t)' = Mesa!Visit("waiting", c, m, timed, FALSE)
  <2>1. \A d \in Conds : t \notin Elems(waking[d]) /\ t \notin timedOut[d]
    <3>1. \A d \in Conds : ~ BlockedOnCond(t, d)
      BY <1>0, WaiterKinds DEF BlockedOnCond
    <3>2. \A d \in Conds : QueuesOf(d)
      BY DEF LawfulInv, CondQueuesConsistent, QueuesOf
    <3> QED
      BY <1>0, <3>1, <3>2 DEF QueuesOf, LawfulInv, TimedOutConsistent, NoFrame
  <2>2. /\ Frame(c, m, timed) # NoFrame
        /\ Frame(c, m, timed).cond = c /\ Frame(c, m, timed).mutex = m
        /\ Frame(c, m, timed).timed = timed
    BY FrameIsFrame
  <2>3. OnCond(c, timed) \in {OnCond(c, TRUE), OnCond(c, FALSE)}
    OBVIOUS
  <2>4. WaitAt(t)' = "waiting"
    BY <1>0, <1>4, <1>5, <2>1, <2>2, <2>3 DEF WaitAt, BlockedOnCond
  <2>5. (frame'[t] # NoFrame /\ t \in timedOut'[frame'[t].cond]) = FALSE
    BY <1>4, <1>5, <2>1, <2>2
  <2> QED
    BY <1>5, <2>2, <2>4, <2>5 DEF WaitOf, Mesa!Visit
<1>7. \A u \in ThreadId \ {t} : SameWait(u)
  BY <1>4, <1>5 DEF SameWait, BlockedOnCond
<1>8. waits' = [waits EXCEPT ![t] = Mesa!Visit("waiting", c, m, timed, FALSE)]
  BY <1>0, <1>6, <1>7, OneWait
<1> QED
  BY <1>2, <1>3, <1>8 DEF Mesa!Wait

\* A call of pthread_cond_wait returns, with its mutex.
LEMMA CondReturnMaps ==
    ASSUME TypeOK, LawfulInv, FramedConds, RunnerUnblocked,
           NEW t \in ThreadId, t = current, PthreadCondReturn
    PROVE  Mesa!Return(t)
<1>0. /\ phase = "run" /\ frame[t] # NoFrame /\ blockedBy[t] = NotBlocked
  BY DEF PthreadCondReturn, RunnerUnblocked
<1>1. /\ \A d, timed : NotBlocked # OnCond(d, timed)
      /\ \A m : NotBlocked # OnMutex(m)
  BY WaiterKinds, BlockKinds
<1>2. WaitOf(t).at = "back" /\ WaitOf(t).mutex = frame[t].mutex
  BY <1>0, <1>1 DEF WaitOf, WaitAt, BlockedOnCond
<1>3. owner[frame[t].mutex] = t
  BY <1>0, <1>1, FrameTypes DEF FramePlace, BlockedOnCond
<1>4. PICK c \in Conds : c = frame[t].cond
  BY <1>0, FrameTypes
<1>5. /\ c \in conds
      /\ frame[t].timed \/ t \notin timedOut[c]
  BY <1>0, <1>4, FrameTypes DEF LawfulInv, TimedOutConsistent, FramedConds
<1>6. /\ timedOut' = [timedOut EXCEPT ![c] = @ \ {t}]
      /\ frame' = [frame EXCEPT ![t] = NoFrame]
      /\ UNCHANGED <<waking, mutexVars, blockedBy>>
  BY <1>4, <1>5 DEF PthreadCondReturn
<1>7. \A u \in ThreadId \ {t} : SameWait(u)
  <2>1. \A u \in ThreadId \ {t}, d \in Conds : u \in timedOut'[d] <=> u \in timedOut[d]
    <3> SUFFICES ASSUME NEW u \in ThreadId \ {t}, NEW d \in Conds
                 PROVE  u \in timedOut'[d] <=> u \in timedOut[d]
      OBVIOUS
    <3>1. CASE d = c
      BY <1>6, <3>1, QueueTypes
    <3>2. CASE d # c
      BY <1>6, <3>2, QueueTypes
    <3> QED
      BY <3>1, <3>2
  <2>2. \A u \in ThreadId \ {t} : frame'[u] = frame[u]
    BY <1>6, ThreadTypes
  <2> QED
    BY <1>6, <2>1, <2>2 DEF SameWait, BlockedOnCond
<1>8. WaitOf(t)' = Mesa!Outside
  <2>1. frame'[t] = NoFrame
    BY <1>0, <1>6, ThreadTypes
  <2>2. NoFrame.cond = NoObject /\ NoFrame.mutex = NoObject /\ NoFrame.timed = FALSE
    BY DEF NoFrame
  <2>3. WaitAt(t)' = "outside"
    BY <2>1 DEF WaitAt
  <2> QED
    BY <2>1, <2>2, <2>3 DEF WaitOf, Mesa!Outside, Mesa!Visit
<1>9. waits' = [waits EXCEPT ![t] = Mesa!Outside] /\ waits[t] = WaitOf(t)
  BY <1>0, <1>7, <1>8, OneWait, WaitsAt
<1>10. UNCHANGED <<owner, lockCount>>
  BY <1>6 DEF mutexVars
<1> QED
  BY <1>2, <1>3, <1>9, <1>10 DEF Mesa!Return, Mesa!lockVars

-----------------------------------------------------------------------------
(***************************************************************************)
(* Scheduler implements Monitor.                                           *)
(***************************************************************************)
\* At the start nobody holds a mutex or waits.
LEMMA InitMaps == Init => Mesa!Init
<1> SUFFICES ASSUME Init PROVE Mesa!Init
  OBVIOUS
<1>1. owner = [m \in MutexId |-> NoThread] /\ lockCount = [m \in MutexId |-> 0]
  BY DEF Init, MutexInit
<1>2. \A t \in ThreadId : frame[t] = NoFrame
  BY DEF Init, ThreadsInit
<1>3. waits = [t \in ThreadId |-> Mesa!Outside]
  BY <1>2, OutsideWait DEF waits
<1> QED
  BY <1>1, <1>3 DEF Mesa!Init

\* An iteration of the scan stutters, grants a mutex or ends a wait.
LEMMA ScanStepMaps ==
    ASSUME TypeOK, LawfulInv, ScanStep
    PROVE  Mesa!Next \/ UNCHANGED Mesa!vars
<1>1. CASE ScanSkip \/ SleepUntilAwakening \/ DeclareDeadlock
  BY <1>1, ThreadTypes, ScanHidden, HiddenStutters
<1>2. ASSUME NEW t \in ThreadId,
             \/ ScanNotBlocked(t)
             \/ \E expired \in BOOLEAN : ScanSleeping(t, expired)
             \/ ScanSemaphore(t)
             \/ ScanJoining(t)
             \/ \E c \in Conds : ScanCondWait(t, c)
      PROVE  UNCHANGED Mesa!vars
  BY <1>2, ScanHidden, HiddenStutters
<1>3. ASSUME NEW t \in ThreadId, ScanMutex(t)
      PROVE  Mesa!Next \/ UNCHANGED Mesa!vars
  BY <1>3, ScanMutexMaps, HiddenStutters DEF Mesa!Next
<1>4. ASSUME NEW t \in ThreadId, NEW c \in Conds, ScanCondWake(t, c)
      PROVE  Mesa!Next
  BY <1>4, CondWakeMaps DEF Mesa!Next
<1>5. ASSUME NEW t \in ThreadId, NEW c \in Conds, ScanCondTimeout(t, c)
      PROVE  Mesa!Next
  BY <1>5, CondTimeoutMaps DEF Mesa!Next
<1> QED
  BY <1>1, <1>2, <1>3, <1>4, <1>5, CondGoneNever DEF ScanStep

\* A call of pthread_cond_* is the call of the monitor.
LEMMA CondStepMaps ==
    ASSUME Misuse = {}, TypeOK, LawfulInv, FramedConds, CondStep
    PROVE  Mesa!Next \/ UNCHANGED Mesa!vars
<1> PICK t \in ThreadId : t = current
  BY ThreadTypes
<1>0. RunnerUnblocked
  BY DEF LawfulInv
<1>1. CASE PthreadCondReturn
  BY <1>0, <1>1, CondReturnMaps DEF Mesa!Next
<1>2. ASSUME NEW c \in Conds, PthreadCondInit(c) \/ PthreadCondDestroy(c)
      PROVE  UNCHANGED Mesa!vars
  BY <1>2, CondLifeStutters
<1>3. ASSUME NEW c \in Conds, PthreadCondSignal(c) \/ PthreadCondBroadcast(c)
      PROVE  Mesa!Next
  BY <1>3, RequeueMaps DEF Mesa!Next
<1>4. ASSUME NEW c \in Conds, NEW m \in MutexId, NEW timed \in BOOLEAN,
             PthreadCondWait(c, m, timed)
      PROVE  Mesa!Next
  BY <1>0, <1>4, CondWaitMaps DEF Mesa!Next
<1> QED
  BY <1>1, <1>2, <1>3, <1>4 DEF CondStep

\* Every step is one of the monitor, or one that threads do not observe.
LEMMA StepMaps ==
    Misuse = {} /\ TypeOK /\ LawfulInv /\ FramedConds /\ [Next]_vars
        => [Mesa!Next]_(Mesa!vars)
<1> SUFFICES ASSUME Misuse = {}, TypeOK, LawfulInv, FramedConds, [Next]_vars
             PROVE  Mesa!Next \/ UNCHANGED Mesa!vars
  OBVIOUS
<1>1. CASE ScanStep
  BY <1>1, ScanStepMaps
<1>2. CASE ThreadStep /\ UNCHANGED <<mutexVars, condVars, semVars, grace>>
  BY <1>2, ThreadStepHidden, HiddenStutters
<1>3. CASE MutexStep /\ UNCHANGED <<condVars, semVars, grace>>
  <2>1. current \in ThreadId
    BY ThreadTypes
  <2> QED
    BY <1>3, <2>1, MutexStepMaps, HiddenStutters DEF Mesa!Next
<1>4. CASE CondStep /\ UNCHANGED <<semVars, grace>>
  BY <1>4, CondStepMaps
<1>5. CASE SemStep /\ UNCHANGED <<mutexVars, condVars, grace>>
  BY <1>5, SemStepHidden, HiddenStutters
<1>6. CASE UNCHANGED vars
  <2>1. Hidden
    BY <1>6 DEF vars, threadVars, mutexVars, Hidden
  <2> QED
    BY <2>1, HiddenStutters
<1> QED
  BY <1>1, <1>2, <1>3, <1>4, <1>5, <1>6 DEF Next, GuestStep

\* However many threads share however many mutexes and condition variables, and
\* whatever else they do, what they observe of them is a Mesa monitor, as long
\* as they keep the documented preconditions and destroy a condition variable
\* only after all its waiters have returned.
THEOREM MonitorImplemented == ASSUME Misuse = {} PROVE Spec => ImplementsMonitor
<1>1. Init => Mesa!Init
  BY InitMaps
<1>2. TypeOK /\ LawfulInv /\ FramedConds /\ [Next]_vars => [Mesa!Next]_(Mesa!vars)
  BY StepMaps
<1> QED
  BY <1>1, <1>2, TypeCorrect, LawfulInvariant, FramedInvariant, PTL
  DEF Spec, ImplementsMonitor, Mesa!Spec
=============================================================================
