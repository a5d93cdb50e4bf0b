----------------------------- MODULE DaemonProofs -----------------------------
(***************************************************************************)
(* What the daemon's owner thread guarantees whatever the number of        *)
(* workers, the order they are spawned in and the order they are joined    *)
(* in, as long as the join order names every worker.                       *)
(***************************************************************************)
EXTENDS Daemon, TLAPS

Idle(w) == worker[w] \in {"none", "ended"}
NoneLive == \A w \in Workers : Idle(w)

\* Where main is after the last join.
Joined == {"shutdownBridges", "release", "returned", "done"}

\* No worker exists before the spawn loop; behind the join cursor every worker
\* has ended, and after the last join all of them have.
JoinInv ==
  /\ main \in {"boot", "selfCheck"} \cup Joined => NoneLive
  /\ main = "join" => \A i \in 1 .. Len(JoinOrder) : i < at => Idle(JoinOrder[i])

\* The published states tie the owner's position down.
PublishInv ==
  /\ sys = "stopped" => main \in {"boot"} \cup Joined
  /\ scm = "STOPPED" => main = "done"
  /\ sys = "running" =>
       main \notin {"boot", "selfCheck", "spawn", "publish", "publishSystem"}

\* What is allocated between which steps.
DataInv ==
  /\ main \notin {"boot", "returned", "done"} => data
  /\ main \notin {"boot", "selfCheck", "release", "returned", "done"} => bridges

IInv == TypeOK /\ JoinInv /\ PublishInv /\ DataInv /\ RunningMeansProcessing

-----------------------------------------------------------------------------

\* Nothing runs before the spawn loop.
LEMMA InitInv == Init => IInv
<1> SUFFICES ASSUME Init PROVE IInv
  OBVIOUS
<1>1. {stop, shutdown, answer, bridges, data} \subseteq BOOLEAN
  BY Zenon DEF Init
<1>2. TypeOK
  BY <1>1 DEF Init, TypeOK, MainPcs
<1>3. JoinInv /\ PublishInv /\ RunningMeansProcessing
  BY DEF Init, JoinInv, PublishInv, RunningMeansProcessing, NoneLive, Idle, Joined
<1>4. DataInv
  BY DEF Init, DataInv
<1> QED
  BY <1>2, <1>3, <1>4 DEF IInv

\* Each action preserves the invariant; the ones that move a worker or a
\* cursor need the conjunct about the join cursor, the others keep it as it is.
LEMMA StepInv == IInv /\ [Next]_vars => IInv'
<1> SUFFICES ASSUME IInv, [Next]_vars PROVE IInv'
  OBVIOUS
<1> USE DEF IInv, TypeOK, JoinInv, PublishInv, DataInv, RunningMeansProcessing,
        MainPcs, NoneLive, Idle, Joined, Goto, flags, report, conn, owned,
        ClosePipe, DropClient, Break
<1>1. ASSUME Boot PROVE IInv'
  BY <1>1 DEF Boot
<1>2. ASSUME StartupFails PROVE IInv'
  <2>1. data' \in BOOLEAN
    BY <1>2, Zenon DEF StartupFails
  <2>2. TypeOK'
    BY <1>2, <2>1 DEF StartupFails
  <2>3. JoinInv'
    BY <1>2 DEF StartupFails
  <2>4. PublishInv'
    BY <1>2 DEF StartupFails
  <2>5. DataInv'
    BY <1>2 DEF StartupFails
  <2>6. RunningMeansProcessing'
    BY <1>2 DEF StartupFails
  <2> QED
    BY <2>2, <2>3, <2>4, <2>5, <2>6
<1>3. ASSUME InitBridges PROVE IInv'
  BY <1>3 DEF InitBridges
<1>4. ASSUME Spawn PROVE IInv'
  <2>1. SpawnOrder[at] \in Workers
    BY <1>4, DaemonAssumption DEF Spawn
  <2>2. TypeOK'
    BY <1>4, <2>1 DEF Spawn
  <2>3. JoinInv'
    BY <1>4, <2>1 DEF Spawn
  <2>4. PublishInv'
    BY <1>4, <2>1 DEF Spawn
  <2>5. DataInv'
    BY <1>4, <2>1 DEF Spawn
  <2>6. RunningMeansProcessing'
    BY <1>4, <2>1 DEF Spawn
  <2> QED
    BY <2>2, <2>3, <2>4, <2>5, <2>6
<1>5. ASSUME SpawnFails PROVE IInv'
  <2>1. SpawnOrder[at] \in Workers
    BY <1>5, DaemonAssumption DEF SpawnFails
  <2>2. TypeOK'
    BY <1>5, <2>1 DEF SpawnFails
  <2>3. JoinInv'
    BY <1>5, <2>1 DEF SpawnFails
  <2>4. PublishInv'
    BY <1>5, <2>1 DEF SpawnFails
  <2>5. DataInv'
    BY <1>5, <2>1 DEF SpawnFails
  <2>6. RunningMeansProcessing'
    BY <1>5, <2>1 DEF SpawnFails
  <2> QED
    BY <2>2, <2>3, <2>4, <2>5, <2>6
<1>6. ASSUME Barrier PROVE IInv'
  BY <1>6 DEF Barrier
<1>7. ASSUME PublishSubsystems PROVE IInv'
  BY <1>7 DEF PublishSubsystems
<1>8. ASSUME PublishSystem PROVE IInv'
  BY <1>8 DEF PublishSystem
<1>9. ASSUME ReportRunning PROVE IInv'
  BY <1>9 DEF ReportRunning
<1>10. ASSUME CreatePipe PROVE IInv'
  BY <1>10 DEF CreatePipe
<1>11. ASSUME LoopTest PROVE IInv'
  <2>1. answer' \in BOOLEAN
    <3>1. CASE UNCHANGED answer
      BY <3>1
    <3>2. CASE answer' = FALSE
      BY <3>2, Zenon
    <3> QED
      BY <1>11, <3>1, <3>2 DEF LoopTest
  <2>2. TypeOK'
    BY <1>11, <2>1 DEF LoopTest
  <2>3. JoinInv'
    BY <1>11 DEF LoopTest
  <2>4. PublishInv'
    BY <1>11 DEF LoopTest
  <2>5. DataInv'
    BY <1>11 DEF LoopTest
  <2>6. RunningMeansProcessing'
    BY <1>11 DEF LoopTest
  <2> QED
    BY <2>2, <2>3, <2>4, <2>5, <2>6
<1>12. ASSUME Connect PROVE IInv'
  BY <1>12 DEF Connect
<1>13. ASSUME ConnectReturns PROVE IInv'
  BY <1>13 DEF ConnectReturns
<1>14. ASSUME ReadRequest PROVE IInv'
  <2>1. answer' \in BOOLEAN
    <3>1. CASE UNCHANGED answer
      BY <3>1
    <3>2. CASE answer' = FALSE
      BY <3>2, Zenon
    <3> QED
      BY <1>14, <3>1, <3>2 DEF ReadRequest
  <2>2. TypeOK'
    BY <1>14, <2>1 DEF ReadRequest
  <2>3. JoinInv'
    BY <1>14 DEF ReadRequest
  <2>4. PublishInv'
    BY <1>14 DEF ReadRequest
  <2>5. DataInv'
    BY <1>14 DEF ReadRequest
  <2>6. RunningMeansProcessing'
    BY <1>14 DEF ReadRequest
  <2> QED
    BY <2>2, <2>3, <2>4, <2>5, <2>6
<1>15. ASSUME HandleRequest PROVE IInv'
  <2>1. stop' \in BOOLEAN /\ shutdown' \in BOOLEAN
    <3>1. CASE request = "query"
      BY <1>15, <3>1, Zenon DEF HandleRequest
    <3>2. CASE request = "shutdown"
      BY <1>15, <3>2, Zenon DEF HandleRequest
    <3> QED
      BY <1>15, <3>1, <3>2 DEF HandleRequest
  <2>2. TypeOK'
    BY <1>15, <2>1 DEF HandleRequest
  <2>3. JoinInv'
    BY <1>15 DEF HandleRequest
  <2>4. PublishInv'
    BY <1>15 DEF HandleRequest
  <2>5. DataInv'
    BY <1>15 DEF HandleRequest
  <2>6. RunningMeansProcessing'
    BY <1>15 DEF HandleRequest
  <2> QED
    BY <2>2, <2>3, <2>4, <2>5, <2>6
<1>16. ASSUME Disconnect PROVE IInv'
  BY <1>16 DEF Disconnect
<1>17. ASSUME LoopTail PROVE IInv'
  <2>1. answer' \in BOOLEAN
    <3>1. CASE UNCHANGED answer
      BY <3>1
    <3>2. CASE answer' = FALSE
      BY <3>2, Zenon
    <3> QED
      BY <1>17, <3>1, <3>2 DEF LoopTail
  <2>2. TypeOK'
    BY <1>17, <2>1 DEF LoopTail
  <2>3. JoinInv'
    BY <1>17 DEF LoopTail
  <2>4. PublishInv'
    BY <1>17 DEF LoopTail
  <2>5. DataInv'
    BY <1>17 DEF LoopTail
  <2>6. RunningMeansProcessing'
    BY <1>17 DEF LoopTail
  <2> QED
    BY <2>2, <2>3, <2>4, <2>5, <2>6
<1>18. ASSUME RequestStop PROVE IInv'
  BY <1>18 DEF RequestStop
<1>19. ASSUME Join PROVE IInv'
  <2>1. Idle(JoinOrder[at])
    BY <1>19, DaemonAssumption DEF Join, Live
  <2> QED
    BY <1>19, <2>1 DEF Join
<1>20. ASSUME TransitionStopped PROVE IInv'
  <2>1. NoneLive
    <3> SUFFICES ASSUME NEW w \in Workers PROVE Idle(w)
      BY DEF NoneLive
    <3>1. PICK i \in 1 .. Len(JoinOrder) : JoinOrder[i] = w
      BY DaemonAssumption
    <3>2. i < at
      BY <1>20, DaemonAssumption DEF TransitionStopped
    <3> QED
      BY <1>20, <3>1, <3>2 DEF TransitionStopped
  <2>2. TypeOK'
    BY <1>20, <2>1 DEF TransitionStopped
  <2>3. JoinInv'
    BY <1>20, <2>1 DEF TransitionStopped
  <2>4. PublishInv'
    BY <1>20, <2>1 DEF TransitionStopped
  <2>5. DataInv'
    BY <1>20, <2>1 DEF TransitionStopped
  <2>6. RunningMeansProcessing'
    BY <1>20, <2>1 DEF TransitionStopped
  <2> QED
    BY <2>2, <2>3, <2>4, <2>5, <2>6
<1>21. ASSUME ShutdownBridges PROVE IInv'
  <2>1. bridges' \in BOOLEAN
    BY <1>21, Zenon DEF ShutdownBridges
  <2>2. TypeOK'
    BY <1>21, <2>1 DEF ShutdownBridges
  <2>3. JoinInv'
    BY <1>21 DEF ShutdownBridges
  <2>4. PublishInv'
    BY <1>21 DEF ShutdownBridges
  <2>5. DataInv'
    BY <1>21 DEF ShutdownBridges
  <2>6. RunningMeansProcessing'
    BY <1>21 DEF ShutdownBridges
  <2> QED
    BY <2>2, <2>3, <2>4, <2>5, <2>6
<1>22. ASSUME Release PROVE IInv'
  <2>1. data' \in BOOLEAN
    BY <1>22, Zenon DEF Release
  <2>2. TypeOK'
    BY <1>22, <2>1 DEF Release
  <2>3. JoinInv'
    BY <1>22 DEF Release
  <2>4. PublishInv'
    BY <1>22 DEF Release
  <2>5. DataInv'
    BY <1>22 DEF Release
  <2>6. RunningMeansProcessing'
    BY <1>22 DEF Release
  <2> QED
    BY <2>2, <2>3, <2>4, <2>5, <2>6
<1>23. ASSUME ReportStopped PROVE IInv'
  BY <1>23 DEF ReportStopped
<1>24. ASSUME ScmStop PROVE IInv'
  BY <1>24 DEF ScmStop
<1>25. ASSUME ScmRequestShutdown PROVE IInv'
  BY <1>25 DEF ScmRequestShutdown
<1>26. ASSUME ScmReport PROVE IInv'
  BY <1>26 DEF ScmReport
<1>27. ASSUME ScmWake PROVE IInv'
  BY <1>27 DEF ScmWake
<1>28. ASSUME ClientConnects PROVE IInv'
  BY <1>28 DEF ClientConnects
<1>29. ASSUME ClientSends PROVE IInv'
  BY <1>29 DEF ClientSends
<1>30. ASSUME ClientCloses PROVE IInv'
  <2>1. answer' \in BOOLEAN
    BY <1>30, Zenon DEF ClientCloses
  <2>2. TypeOK'
    BY <1>30, <2>1 DEF ClientCloses
  <2>3. JoinInv'
    BY <1>30 DEF ClientCloses
  <2>4. PublishInv'
    BY <1>30 DEF ClientCloses
  <2>5. DataInv'
    BY <1>30 DEF ClientCloses
  <2>6. RunningMeansProcessing'
    BY <1>30 DEF ClientCloses
  <2> QED
    BY <2>2, <2>3, <2>4, <2>5, <2>6
<1>31. ASSUME NEW w \in Workers, WorkerStarts(w) PROVE IInv'
  <2>1. TypeOK'
    BY <1>31 DEF WorkerStarts
  <2>2. JoinInv'
    <3>1. \A i \in 1 .. Len(JoinOrder) : JoinOrder[i] \in Workers
      BY DaemonAssumption
    <3>2. ~ Idle(w) /\ \A v \in Workers \ {w} : worker'[v] = worker[v]
      BY <1>31 DEF WorkerStarts
    <3> QED
      BY <1>31, <3>1, <3>2 DEF WorkerStarts
  <2>3. PublishInv'
    BY <1>31 DEF WorkerStarts
  <2>4. DataInv'
    BY <1>31 DEF WorkerStarts
  <2>5. RunningMeansProcessing'
    BY <1>31, DaemonAssumption DEF WorkerStarts
  <2> QED
    BY <2>1, <2>2, <2>3, <2>4, <2>5
<1>32. ASSUME NEW w \in Workers, WorkerStops(w) PROVE IInv'
  <2>1. TypeOK'
    BY <1>32 DEF WorkerStops
  <2>2. JoinInv'
    BY <1>32 DEF WorkerStops
  <2>3. PublishInv'
    BY <1>32 DEF WorkerStops
  <2>4. DataInv'
    BY <1>32 DEF WorkerStops
  <2>5. RunningMeansProcessing'
    BY <1>32, DaemonAssumption DEF WorkerStops
  <2> QED
    BY <2>1, <2>2, <2>3, <2>4, <2>5
<1>33. ASSUME NEW w \in Workers, SourceEnds(w) PROVE IInv'
  <2>1. TypeOK'
    BY <1>33 DEF SourceEnds
  <2>2. JoinInv'
    BY <1>33 DEF SourceEnds
  <2>3. PublishInv'
    BY <1>33 DEF SourceEnds
  <2>4. DataInv'
    BY <1>33 DEF SourceEnds
  <2>5. RunningMeansProcessing'
    BY <1>33, DaemonAssumption DEF SourceEnds
  <2> QED
    BY <2>1, <2>2, <2>3, <2>4, <2>5
<1>34. ASSUME NEW w \in Workers, WorkerWaits(w) PROVE IInv'
  <2>1. TypeOK'
    BY <1>34 DEF WorkerWaits
  <2>2. JoinInv'
    <3>1. \A i \in 1 .. Len(JoinOrder) : JoinOrder[i] \in Workers
      BY DaemonAssumption
    <3>2. ~ Idle(w) /\ \A v \in Workers \ {w} : worker'[v] = worker[v]
      BY <1>34 DEF WorkerWaits
    <3> QED
      BY <1>34, <3>1, <3>2 DEF WorkerWaits
  <2>3. PublishInv'
    BY <1>34 DEF WorkerWaits
  <2>4. DataInv'
    BY <1>34 DEF WorkerWaits
  <2>5. RunningMeansProcessing'
    BY <1>34, DaemonAssumption DEF WorkerWaits
  <2> QED
    BY <2>1, <2>2, <2>3, <2>4, <2>5
<1>35. ASSUME NEW w \in Workers, WorkerWoken(w) PROVE IInv'
  <2>1. TypeOK'
    BY <1>35 DEF WorkerWoken
  <2>2. JoinInv'
    <3>1. \A i \in 1 .. Len(JoinOrder) : JoinOrder[i] \in Workers
      BY DaemonAssumption
    <3>2. ~ Idle(w) /\ \A v \in Workers \ {w} : worker'[v] = worker[v]
      BY <1>35 DEF WorkerWoken
    <3> QED
      BY <1>35, <3>1, <3>2 DEF WorkerWoken
  <2>3. PublishInv'
    BY <1>35 DEF WorkerWoken
  <2>4. DataInv'
    BY <1>35 DEF WorkerWoken
  <2>5. RunningMeansProcessing'
    BY <1>35, DaemonAssumption DEF WorkerWoken
  <2> QED
    BY <2>1, <2>2, <2>3, <2>4, <2>5
<1>36. ASSUME FlushAnswer PROVE IInv'
  BY <1>36 DEF FlushAnswer
<1>37. ASSUME ClientReads PROVE IInv'
  <2>1. answer' \in BOOLEAN
    BY <1>37, Zenon DEF ClientReads
  <2>2. TypeOK'
    BY <1>37, <2>1 DEF ClientReads
  <2>3. JoinInv'
    BY <1>37 DEF ClientReads
  <2>4. PublishInv'
    BY <1>37 DEF ClientReads
  <2>5. DataInv'
    BY <1>37 DEF ClientReads
  <2>6. RunningMeansProcessing'
    BY <1>37 DEF ClientReads
  <2> QED
    BY <2>2, <2>3, <2>4, <2>5, <2>6
<1>38. ASSUME UNCHANGED vars PROVE IInv'
  BY <1>38 DEF vars
<1> QED
  BY <1>1, <1>2, <1>3, <1>4, <1>5, <1>6, <1>7, <1>8, <1>9, <1>10, <1>11, <1>12,
     <1>13, <1>14, <1>15, <1>16, <1>17, <1>18, <1>19, <1>20, <1>21, <1>22, <1>23, <1>24,
     <1>25, <1>26, <1>27, <1>28, <1>29, <1>30, <1>31, <1>32, <1>33, <1>34, <1>35, <1>36,
     <1>37, <1>38
     DEF Next, StartUp, Serve, ShutDown, Handler, Client, Worker

\* The inductive invariant holds in every reachable state.
THEOREM Invariance == Spec => []IInv
BY InitInv, StepInv, PTL DEF Spec

\* Type correctness of the daemon for any set of workers.
THEOREM TypeCorrect == Spec => []TypeOK
BY Invariance, PTL DEF IInv

\* STOPPED, whoever is told, comes after the last join.
THEOREM StoppedIsAPostcondition == Spec => []StoppedMeansJoined
<1>1. IInv => StoppedMeansJoined
  BY DEF IInv, JoinInv, PublishInv, NoneLive, Idle, Joined, StoppedMeansJoined, Live
<1> QED
  BY <1>1, Invariance, PTL

\* No path out of runDaemon frees what a worker still uses.
THEOREM DataOutlivesWorkers == Spec => []WorkersHaveTheirData
<1>1. IInv => WorkersHaveTheirData
  BY DEF IInv, TypeOK, MainPcs, JoinInv, DataInv, NoneLive, Idle, Joined,
     WorkersHaveTheirData, Live
<1> QED
  BY <1>1, Invariance, PTL

\* RUNNING is never published for a pipeline thread that is not consuming.
THEOREM RunningIsTrue == Spec => []RunningMeansProcessing
BY Invariance, PTL DEF IInv
=============================================================================
