---------------------------- MODULE PlaybackProofs ----------------------------
(***************************************************************************)
(* The playback side, for any number of runs whose threads overlap, any    *)
(* number of helper processes that die or stick, any queue and any cap on  *)
(* respawns: no helper is left behind, the writer of a run is there as     *)
(* long as its loop, and every live helper in use has its stderr drained.  *)
(***************************************************************************)
EXTENDS Playback, TLAPS

-----------------------------------------------------------------------------
(* The inductive invariant, part by part.                                  *)

MainTypes ==
  /\ main \in {"off", "open", "prime", "spawn", "loop"} \cup Teardown
  /\ run \in Runs
  /\ stopEvent \in BOOLEAN /\ deadEvent \in BOOLEAN /\ hasQueue \in BOOLEAN
  /\ pacatProc \in Procs \cup {NoProc} /\ final \in Procs \cup {NoProc}
QueueTypes == queue \in Seq({"chunk", "tail"}) /\ Len(queue) <= QueueSize
ProcTypes ==
  /\ proc \in [Procs -> {"dead", "alive", "stuck"}]
  /\ told \subseteq Procs /\ closed \subseteq Procs /\ readers \subseteq Procs
  /\ children \in [{"main", "dog"} \X Runs -> SUBSET Procs]
ThreadTypes ==
  /\ writer \in [Runs -> {"none", "check", "get", "took", "write"}]
  /\ target \in [Runs -> Procs \cup {NoProc}]
  /\ dog \in [Runs -> {"none", "check", "look", "open", "opened", "install", "attach"}]
  /\ opened \in [Runs -> Procs \cup {NoProc}]
  /\ respawns \in [Runs -> 0..RespawnCap]

Parts == /\ MainTypes /\ QueueTypes /\ ProcTypes /\ ThreadTypes
         /\ HandlesKept /\ OpenedAreFresh /\ StdinsOpen /\ HelpersOwned
         /\ WriterServes /\ StderrIsDrained

LEMMA TypesAre == PlaybackTypeOK <=> MainTypes /\ QueueTypes /\ ProcTypes /\ ThreadTypes
  BY DEF PlaybackTypeOK, MainTypes, QueueTypes, ProcTypes, ThreadTypes

LEMMA PartsNext ==
  Parts' <=> /\ MainTypes' /\ QueueTypes' /\ ProcTypes' /\ ThreadTypes'
             /\ HandlesKept' /\ OpenedAreFresh' /\ StdinsOpen' /\ HelpersOwned'
             /\ WriterServes' /\ StderrIsDrained'
  BY DEF Parts

\* A live helper belongs to a thread that lives, or has been told to end.
LEMMA OwnedIsNoOrphan == HelpersOwned => NoOrphans
  BY DEF HelpersOwned, NoOrphans

-----------------------------------------------------------------------------
(* The steps.                                                              *)

\* A run begins.
LEMMA BeginKeeps ==
  ASSUME Parts, NEW r \in Runs, Begin(r)
  PROVE  Parts'
  <1> USE NoProcAssumption, SizesAssumption DEF Begin, MainGoto, 
      mainVars, sharedVars, queueVars, procVars, writerVars, dogVars
  <1>1. /\ MainTypes /\ QueueTypes /\ ProcTypes /\ ThreadTypes
        /\ HandlesKept /\ OpenedAreFresh /\ StdinsOpen /\ HelpersOwned
        /\ WriterServes /\ StderrIsDrained
    BY DEF Parts
  <1>2. MainTypes'
    BY <1>1 DEF MainTypes, HandlesKept, Teardown
  <1>3. QueueTypes'
    BY <1>1 DEF QueueTypes
  <1>4. ProcTypes'
    BY <1>1 DEF ProcTypes, MainTypes, HandlesKept, ThreadTypes
  <1>5. ThreadTypes'
    BY <1>1 DEF ThreadTypes, MainTypes
  <1>6. HandlesKept'
    BY <1>1 DEF HandlesKept, ThreadTypes, MainTypes, Teardown
  <1>7. OpenedAreFresh'
    BY <1>1 DEF OpenedAreFresh, HandlesKept, ThreadTypes, MainTypes
  <1>8. StdinsOpen'
    BY <1>1 DEF StdinsOpen, OpenedAreFresh, HandlesKept, ProcTypes, ThreadTypes, MainTypes
  <1>9. HelpersOwned'
    BY <1>1 DEF HelpersOwned, ProcTypes, ThreadTypes, MainTypes
  <1>10. WriterServes'
    BY <1>1 DEF WriterServes, HandlesKept, StdinsOpen, ThreadTypes, MainTypes
  <1>11. StderrIsDrained'
    BY <1>1 DEF StderrIsDrained, HandlesKept, OpenedAreFresh, ProcTypes, ThreadTypes, MainTypes
  <1> QED
    BY <1>2, <1>3, <1>4, <1>5, <1>6, <1>7, <1>8,
       <1>9, <1>10, <1>11, PartsNext

\* Somebody stops the engine.
LEMMA StopKeeps ==
  ASSUME Parts, Stop
  PROVE  Parts'
  <1> USE NoProcAssumption, SizesAssumption DEF Stop, 
      mainVars, sharedVars, queueVars, procVars, writerVars, dogVars
  <1>1. /\ MainTypes /\ QueueTypes /\ ProcTypes /\ ThreadTypes
        /\ HandlesKept /\ OpenedAreFresh /\ StdinsOpen /\ HelpersOwned
        /\ WriterServes /\ StderrIsDrained
    BY DEF Parts
  <1>2. MainTypes'
    BY <1>1 DEF MainTypes, HandlesKept, Teardown
  <1>3. QueueTypes'
    BY <1>1 DEF QueueTypes
  <1>4. ProcTypes'
    BY <1>1 DEF ProcTypes, MainTypes, HandlesKept, ThreadTypes
  <1>5. ThreadTypes'
    BY <1>1 DEF ThreadTypes, MainTypes
  <1>6. HandlesKept'
    BY <1>1 DEF HandlesKept, ThreadTypes, MainTypes, Teardown
  <1>7. OpenedAreFresh'
    BY <1>1 DEF OpenedAreFresh, HandlesKept, ThreadTypes, MainTypes
  <1>8. StdinsOpen'
    BY <1>1 DEF StdinsOpen, OpenedAreFresh, HandlesKept, ProcTypes, ThreadTypes, MainTypes
  <1>9. HelpersOwned'
    BY <1>1 DEF HelpersOwned, ProcTypes, ThreadTypes, MainTypes
  <1>10. WriterServes'
    BY <1>1 DEF WriterServes, HandlesKept, StdinsOpen, ThreadTypes, MainTypes
  <1>11. StderrIsDrained'
    BY <1>1 DEF StderrIsDrained, HandlesKept, OpenedAreFresh, ProcTypes, ThreadTypes, MainTypes
  <1> QED
    BY <1>2, <1>3, <1>4, <1>5, <1>6, <1>7, <1>8,
       <1>9, <1>10, <1>11, PartsNext

\* No helper can be opened.
LEMMA MainOpenFailsKeeps ==
  ASSUME Parts, MainOpenFails
  PROVE  Parts'
  <1> USE NoProcAssumption, SizesAssumption DEF MainOpenFails, MainGoto, 
      mainVars, sharedVars, queueVars, procVars, writerVars, dogVars
  <1>1. /\ MainTypes /\ QueueTypes /\ ProcTypes /\ ThreadTypes
        /\ HandlesKept /\ OpenedAreFresh /\ StdinsOpen /\ HelpersOwned
        /\ WriterServes /\ StderrIsDrained
    BY DEF Parts
  <1>2. MainTypes'
    BY <1>1 DEF MainTypes, HandlesKept, Teardown
  <1>3. QueueTypes'
    BY <1>1 DEF QueueTypes
  <1>4. ProcTypes'
    BY <1>1 DEF ProcTypes, MainTypes, HandlesKept, ThreadTypes
  <1>5. ThreadTypes'
    BY <1>1 DEF ThreadTypes, MainTypes
  <1>6. HandlesKept'
    BY <1>1 DEF HandlesKept, ThreadTypes, MainTypes, Teardown
  <1>7. OpenedAreFresh'
    BY <1>1 DEF OpenedAreFresh, HandlesKept, ThreadTypes, MainTypes
  <1>8. StdinsOpen'
    BY <1>1 DEF StdinsOpen, OpenedAreFresh, HandlesKept, ProcTypes, ThreadTypes, MainTypes
  <1>9. HelpersOwned'
    BY <1>1 DEF HelpersOwned, ProcTypes, ThreadTypes, MainTypes
  <1>10. WriterServes'
    BY <1>1 DEF WriterServes, HandlesKept, StdinsOpen, ThreadTypes, MainTypes
  <1>11. StderrIsDrained'
    BY <1>1 DEF StderrIsDrained, HandlesKept, OpenedAreFresh, ProcTypes, ThreadTypes, MainTypes
  <1> QED
    BY <1>2, <1>3, <1>4, <1>5, <1>6, <1>7, <1>8,
       <1>9, <1>10, <1>11, PartsNext

\* The helper is primed with silence.
LEMMA MainPrimesKeeps ==
  ASSUME Parts, MainPrimes
  PROVE  Parts'
  <1> USE NoProcAssumption, SizesAssumption DEF MainPrimes, MainGoto, 
      mainVars, sharedVars, queueVars, procVars, writerVars, dogVars
  <1>1. /\ MainTypes /\ QueueTypes /\ ProcTypes /\ ThreadTypes
        /\ HandlesKept /\ OpenedAreFresh /\ StdinsOpen /\ HelpersOwned
        /\ WriterServes /\ StderrIsDrained
    BY DEF Parts
  <1>2. MainTypes'
    BY <1>1 DEF MainTypes, HandlesKept, Teardown
  <1>3. QueueTypes'
    BY <1>1 DEF QueueTypes
  <1>4. ProcTypes'
    BY <1>1 DEF ProcTypes, MainTypes, HandlesKept, ThreadTypes
  <1>5. ThreadTypes'
    BY <1>1 DEF ThreadTypes, MainTypes
  <1>6. HandlesKept'
    BY <1>1 DEF HandlesKept, ThreadTypes, MainTypes, Teardown
  <1>7. OpenedAreFresh'
    BY <1>1 DEF OpenedAreFresh, HandlesKept, ThreadTypes, MainTypes
  <1>8. StdinsOpen'
    BY <1>1 DEF StdinsOpen, OpenedAreFresh, HandlesKept, ProcTypes, ThreadTypes, MainTypes
  <1>9. HelpersOwned'
    BY <1>1 DEF HelpersOwned, ProcTypes, ThreadTypes, MainTypes
  <1>10. WriterServes'
    BY <1>1 DEF WriterServes, HandlesKept, StdinsOpen, ThreadTypes, MainTypes
  <1>11. StderrIsDrained'
    BY <1>1 DEF StderrIsDrained, HandlesKept, OpenedAreFresh, ProcTypes, ThreadTypes, MainTypes
  <1> QED
    BY <1>2, <1>3, <1>4, <1>5, <1>6, <1>7, <1>8,
       <1>9, <1>10, <1>11, PartsNext

\* The engine thread starts the threads of its run.
LEMMA MainSpawnsKeeps ==
  ASSUME Parts, MainSpawns
  PROVE  Parts'
  <1> USE NoProcAssumption, SizesAssumption DEF MainSpawns, MainGoto, WriterGoto, DogGoto, 
      mainVars, sharedVars, queueVars, procVars, writerVars, dogVars
  <1>1. /\ MainTypes /\ QueueTypes /\ ProcTypes /\ ThreadTypes
        /\ HandlesKept /\ OpenedAreFresh /\ StdinsOpen /\ HelpersOwned
        /\ WriterServes /\ StderrIsDrained
    BY DEF Parts
  <1>2. MainTypes'
    BY <1>1 DEF MainTypes, HandlesKept, Teardown
  <1>3. QueueTypes'
    BY <1>1 DEF QueueTypes
  <1>4. ProcTypes'
    BY <1>1 DEF ProcTypes, MainTypes, HandlesKept, ThreadTypes
  <1>5. ThreadTypes'
    BY <1>1 DEF ThreadTypes, MainTypes
  <1>6. HandlesKept'
    BY <1>1 DEF HandlesKept, ThreadTypes, MainTypes, Teardown
  <1>7. OpenedAreFresh'
    BY <1>1 DEF OpenedAreFresh, HandlesKept, ThreadTypes, MainTypes
  <1>8. StdinsOpen'
    BY <1>1 DEF StdinsOpen, OpenedAreFresh, HandlesKept, ProcTypes, ThreadTypes, MainTypes
  <1>9. HelpersOwned'
    BY <1>1 DEF HelpersOwned, ProcTypes, ThreadTypes, MainTypes
  <1>10. WriterServes'
    BY <1>1 DEF WriterServes, HandlesKept, StdinsOpen, ThreadTypes, MainTypes
  <1>11. StderrIsDrained'
    BY <1>1 DEF StderrIsDrained, HandlesKept, OpenedAreFresh, ProcTypes, ThreadTypes, MainTypes
  <1> QED
    BY <1>2, <1>3, <1>4, <1>5, <1>6, <1>7, <1>8,
       <1>9, <1>10, <1>11, PartsNext

\* A chunk is queued, or dropped.
LEMMA MainChunkKeeps ==
  ASSUME Parts, MainChunk
  PROVE  Parts'
  <1> USE NoProcAssumption, SizesAssumption DEF MainChunk, Enqueued, 
      mainVars, sharedVars, queueVars, procVars, writerVars, dogVars
  <1>1. /\ MainTypes /\ QueueTypes /\ ProcTypes /\ ThreadTypes
        /\ HandlesKept /\ OpenedAreFresh /\ StdinsOpen /\ HelpersOwned
        /\ WriterServes /\ StderrIsDrained
    BY DEF Parts
  <1>2. MainTypes'
    BY <1>1 DEF MainTypes, HandlesKept, Teardown
  <1>3. QueueTypes'
    BY <1>1 DEF QueueTypes
  <1>4. ProcTypes'
    BY <1>1 DEF ProcTypes, MainTypes, HandlesKept, ThreadTypes
  <1>5. ThreadTypes'
    BY <1>1 DEF ThreadTypes, MainTypes
  <1>6. HandlesKept'
    BY <1>1 DEF HandlesKept, ThreadTypes, MainTypes, Teardown
  <1>7. OpenedAreFresh'
    BY <1>1 DEF OpenedAreFresh, HandlesKept, ThreadTypes, MainTypes
  <1>8. StdinsOpen'
    BY <1>1 DEF StdinsOpen, OpenedAreFresh, HandlesKept, ProcTypes, ThreadTypes, MainTypes
  <1>9. HelpersOwned'
    BY <1>1 DEF HelpersOwned, ProcTypes, ThreadTypes, MainTypes
  <1>10. WriterServes'
    BY <1>1 DEF WriterServes, HandlesKept, StdinsOpen, ThreadTypes, MainTypes
  <1>11. StderrIsDrained'
    BY <1>1 DEF StderrIsDrained, HandlesKept, OpenedAreFresh, ProcTypes, ThreadTypes, MainTypes
  <1> QED
    BY <1>2, <1>3, <1>4, <1>5, <1>6, <1>7, <1>8,
       <1>9, <1>10, <1>11, PartsNext

\* The chunk loop ends.
LEMMA MainLeavesLoopKeeps ==
  ASSUME Parts, MainLeavesLoop
  PROVE  Parts'
  <1> USE NoProcAssumption, SizesAssumption DEF MainLeavesLoop, MainGoto, 
      mainVars, sharedVars, queueVars, procVars, writerVars, dogVars
  <1>1. /\ MainTypes /\ QueueTypes /\ ProcTypes /\ ThreadTypes
        /\ HandlesKept /\ OpenedAreFresh /\ StdinsOpen /\ HelpersOwned
        /\ WriterServes /\ StderrIsDrained
    BY DEF Parts
  <1>2. MainTypes'
    BY <1>1 DEF MainTypes, HandlesKept, Teardown
  <1>3. QueueTypes'
    BY <1>1 DEF QueueTypes
  <1>4. ProcTypes'
    BY <1>1 DEF ProcTypes, MainTypes, HandlesKept, ThreadTypes
  <1>5. ThreadTypes'
    BY <1>1 DEF ThreadTypes, MainTypes
  <1>6. HandlesKept'
    BY <1>1 DEF HandlesKept, ThreadTypes, MainTypes, Teardown
  <1>7. OpenedAreFresh'
    BY <1>1 DEF OpenedAreFresh, HandlesKept, ThreadTypes, MainTypes
  <1>8. StdinsOpen'
    BY <1>1 DEF StdinsOpen, OpenedAreFresh, HandlesKept, ProcTypes, ThreadTypes, MainTypes
  <1>9. HelpersOwned'
    BY <1>1 DEF HelpersOwned, ProcTypes, ThreadTypes, MainTypes
  <1>10. WriterServes'
    BY <1>1 DEF WriterServes, HandlesKept, StdinsOpen, ThreadTypes, MainTypes
  <1>11. StderrIsDrained'
    BY <1>1 DEF StderrIsDrained, HandlesKept, OpenedAreFresh, ProcTypes, ThreadTypes, MainTypes
  <1> QED
    BY <1>2, <1>3, <1>4, <1>5, <1>6, <1>7, <1>8,
       <1>9, <1>10, <1>11, PartsNext

\* The tail is queued.
LEMMA MainFlushesKeeps ==
  ASSUME Parts, MainFlushes
  PROVE  Parts'
  <1> USE NoProcAssumption, SizesAssumption DEF MainFlushes, MainGoto, Enqueued, 
      mainVars, sharedVars, queueVars, procVars, writerVars, dogVars
  <1>1. /\ MainTypes /\ QueueTypes /\ ProcTypes /\ ThreadTypes
        /\ HandlesKept /\ OpenedAreFresh /\ StdinsOpen /\ HelpersOwned
        /\ WriterServes /\ StderrIsDrained
    BY DEF Parts
  <1>2. MainTypes'
    BY <1>1 DEF MainTypes, HandlesKept, Teardown
  <1>3. QueueTypes'
    BY <1>1 DEF QueueTypes
  <1>4. ProcTypes'
    BY <1>1 DEF ProcTypes, MainTypes, HandlesKept, ThreadTypes
  <1>5. ThreadTypes'
    BY <1>1 DEF ThreadTypes, MainTypes
  <1>6. HandlesKept'
    BY <1>1 DEF HandlesKept, ThreadTypes, MainTypes, Teardown
  <1>7. OpenedAreFresh'
    BY <1>1 DEF OpenedAreFresh, HandlesKept, ThreadTypes, MainTypes
  <1>8. StdinsOpen'
    BY <1>1 DEF StdinsOpen, OpenedAreFresh, HandlesKept, ProcTypes, ThreadTypes, MainTypes
  <1>9. HelpersOwned'
    BY <1>1 DEF HelpersOwned, ProcTypes, ThreadTypes, MainTypes
  <1>10. WriterServes'
    BY <1>1 DEF WriterServes, HandlesKept, StdinsOpen, ThreadTypes, MainTypes
  <1>11. StderrIsDrained'
    BY <1>1 DEF StderrIsDrained, HandlesKept, OpenedAreFresh, ProcTypes, ThreadTypes, MainTypes
  <1> QED
    BY <1>2, <1>3, <1>4, <1>5, <1>6, <1>7, <1>8,
       <1>9, <1>10, <1>11, PartsNext

\* The engine thread has waited for the queue.
LEMMA MainDrainsKeeps ==
  ASSUME Parts, MainDrains
  PROVE  Parts'
  <1> USE NoProcAssumption, SizesAssumption DEF MainDrains, MainGoto, EventSetByLoop, 
      mainVars, sharedVars, queueVars, procVars, writerVars, dogVars
  <1>1. /\ MainTypes /\ QueueTypes /\ ProcTypes /\ ThreadTypes
        /\ HandlesKept /\ OpenedAreFresh /\ StdinsOpen /\ HelpersOwned
        /\ WriterServes /\ StderrIsDrained
    BY DEF Parts
  <1>2. MainTypes'
    BY <1>1 DEF MainTypes, HandlesKept, Teardown
  <1>3. QueueTypes'
    BY <1>1 DEF QueueTypes
  <1>4. ProcTypes'
    BY <1>1 DEF ProcTypes, MainTypes, HandlesKept, ThreadTypes
  <1>5. ThreadTypes'
    BY <1>1 DEF ThreadTypes, MainTypes
  <1>6. HandlesKept'
    BY <1>1 DEF HandlesKept, ThreadTypes, MainTypes, Teardown
  <1>7. OpenedAreFresh'
    BY <1>1 DEF OpenedAreFresh, HandlesKept, ThreadTypes, MainTypes
  <1>8. StdinsOpen'
    BY <1>1 DEF StdinsOpen, OpenedAreFresh, HandlesKept, ProcTypes, ThreadTypes, MainTypes
  <1>9. HelpersOwned'
    BY <1>1 DEF HelpersOwned, ProcTypes, ThreadTypes, MainTypes
  <1>10. WriterServes'
    BY <1>1 DEF WriterServes, HandlesKept, StdinsOpen, ThreadTypes, MainTypes
  <1>11. StderrIsDrained'
    BY <1>1 DEF StderrIsDrained, HandlesKept, OpenedAreFresh, ProcTypes, ThreadTypes, MainTypes
  <1> QED
    BY <1>2, <1>3, <1>4, <1>5, <1>6, <1>7, <1>8,
       <1>9, <1>10, <1>11, PartsNext

\* The engine thread takes the helper out of use.
LEMMA MainTakesKeeps ==
  ASSUME Parts, MainTakes
  PROVE  Parts'
  <1> USE NoProcAssumption, SizesAssumption DEF MainTakes, MainGoto, 
      mainVars, sharedVars, queueVars, procVars, writerVars, dogVars
  <1>1. /\ MainTypes /\ QueueTypes /\ ProcTypes /\ ThreadTypes
        /\ HandlesKept /\ OpenedAreFresh /\ StdinsOpen /\ HelpersOwned
        /\ WriterServes /\ StderrIsDrained
    BY DEF Parts
  <1>2. MainTypes'
    BY <1>1 DEF MainTypes, HandlesKept, Teardown
  <1>3. QueueTypes'
    BY <1>1 DEF QueueTypes
  <1>4. ProcTypes'
    BY <1>1 DEF ProcTypes, MainTypes, HandlesKept, ThreadTypes
  <1>5. ThreadTypes'
    BY <1>1 DEF ThreadTypes, MainTypes
  <1>6. HandlesKept'
    BY <1>1 DEF HandlesKept, ThreadTypes, MainTypes, Teardown
  <1>7. OpenedAreFresh'
    BY <1>1 DEF OpenedAreFresh, HandlesKept, ThreadTypes, MainTypes
  <1>8. StdinsOpen'
    BY <1>1 DEF StdinsOpen, OpenedAreFresh, HandlesKept, ProcTypes, ThreadTypes, MainTypes
  <1>9. HelpersOwned'
    BY <1>1 DEF HelpersOwned, ProcTypes, ThreadTypes, MainTypes
  <1>10. WriterServes'
    BY <1>1 DEF WriterServes, HandlesKept, StdinsOpen, ThreadTypes, MainTypes
  <1>11. StderrIsDrained'
    BY <1>1 DEF StderrIsDrained, HandlesKept, OpenedAreFresh, ProcTypes, ThreadTypes, MainTypes
  <1> QED
    BY <1>2, <1>3, <1>4, <1>5, <1>6, <1>7, <1>8,
       <1>9, <1>10, <1>11, PartsNext

\* It closes the helper's stdin.
LEMMA MainClosesKeeps ==
  ASSUME Parts, MainCloses
  PROVE  Parts'
  <1> USE NoProcAssumption, SizesAssumption DEF MainCloses, MainGoto, 
      mainVars, sharedVars, queueVars, procVars, writerVars, dogVars
  <1>1. /\ MainTypes /\ QueueTypes /\ ProcTypes /\ ThreadTypes
        /\ HandlesKept /\ OpenedAreFresh /\ StdinsOpen /\ HelpersOwned
        /\ WriterServes /\ StderrIsDrained
    BY DEF Parts
  <1>2. MainTypes'
    BY <1>1 DEF MainTypes, HandlesKept, Teardown
  <1>3. QueueTypes'
    BY <1>1 DEF QueueTypes
  <1>4. ProcTypes'
    BY <1>1 DEF ProcTypes, MainTypes, HandlesKept, ThreadTypes
  <1>5. ThreadTypes'
    BY <1>1 DEF ThreadTypes, MainTypes
  <1>6. HandlesKept'
    BY <1>1 DEF HandlesKept, ThreadTypes, MainTypes, Teardown
  <1>7. OpenedAreFresh'
    BY <1>1 DEF OpenedAreFresh, HandlesKept, ThreadTypes, MainTypes
  <1>8. StdinsOpen'
    BY <1>1 DEF StdinsOpen, OpenedAreFresh, HandlesKept, ProcTypes, ThreadTypes, MainTypes
  <1>9. HelpersOwned'
    BY <1>1 DEF HelpersOwned, ProcTypes, ThreadTypes, MainTypes
  <1>10. WriterServes'
    BY <1>1 DEF WriterServes, HandlesKept, StdinsOpen, ThreadTypes, MainTypes
  <1>11. StderrIsDrained'
    BY <1>1 DEF StderrIsDrained, HandlesKept, OpenedAreFresh, ProcTypes, ThreadTypes, MainTypes
  <1> QED
    BY <1>2, <1>3, <1>4, <1>5, <1>6, <1>7, <1>8,
       <1>9, <1>10, <1>11, PartsNext

\* The writer looks at the event.
LEMMA WriterChecksKeeps ==
  ASSUME Parts, NEW r \in Runs, WriterChecks(r)
  PROVE  Parts'
  <1> USE NoProcAssumption, SizesAssumption DEF WriterChecks, WriterGoto, 
      mainVars, sharedVars, queueVars, procVars, writerVars, dogVars
  <1>1. /\ MainTypes /\ QueueTypes /\ ProcTypes /\ ThreadTypes
        /\ HandlesKept /\ OpenedAreFresh /\ StdinsOpen /\ HelpersOwned
        /\ WriterServes /\ StderrIsDrained
    BY DEF Parts
  <1>2. MainTypes'
    BY <1>1 DEF MainTypes, HandlesKept, Teardown
  <1>3. QueueTypes'
    BY <1>1 DEF QueueTypes
  <1>4. ProcTypes'
    BY <1>1 DEF ProcTypes, MainTypes, HandlesKept, ThreadTypes
  <1>5. ThreadTypes'
    BY <1>1 DEF ThreadTypes, MainTypes
  <1>6. HandlesKept'
    BY <1>1 DEF HandlesKept, ThreadTypes, MainTypes, Teardown
  <1>7. OpenedAreFresh'
    BY <1>1 DEF OpenedAreFresh, HandlesKept, ThreadTypes, MainTypes
  <1>8. StdinsOpen'
    BY <1>1 DEF StdinsOpen, OpenedAreFresh, HandlesKept, ProcTypes, ThreadTypes, MainTypes
  <1>9. HelpersOwned'
    BY <1>1 DEF HelpersOwned, ProcTypes, ThreadTypes, MainTypes
  <1>10. WriterServes'
    BY <1>1 DEF WriterServes, HandlesKept, StdinsOpen, ThreadTypes, MainTypes
  <1>11. StderrIsDrained'
    BY <1>1 DEF StderrIsDrained, HandlesKept, OpenedAreFresh, ProcTypes, ThreadTypes, MainTypes
  <1> QED
    BY <1>2, <1>3, <1>4, <1>5, <1>6, <1>7, <1>8,
       <1>9, <1>10, <1>11, PartsNext

\* The writer finds the queue empty.
LEMMA WriterTimesOutKeeps ==
  ASSUME Parts, NEW r \in Runs, WriterTimesOut(r)
  PROVE  Parts'
  <1> USE NoProcAssumption, SizesAssumption DEF WriterTimesOut, WriterGoto, 
      mainVars, sharedVars, queueVars, procVars, writerVars, dogVars
  <1>1. /\ MainTypes /\ QueueTypes /\ ProcTypes /\ ThreadTypes
        /\ HandlesKept /\ OpenedAreFresh /\ StdinsOpen /\ HelpersOwned
        /\ WriterServes /\ StderrIsDrained
    BY DEF Parts
  <1>2. MainTypes'
    BY <1>1 DEF MainTypes, HandlesKept, Teardown
  <1>3. QueueTypes'
    BY <1>1 DEF QueueTypes
  <1>4. ProcTypes'
    BY <1>1 DEF ProcTypes, MainTypes, HandlesKept, ThreadTypes
  <1>5. ThreadTypes'
    BY <1>1 DEF ThreadTypes, MainTypes
  <1>6. HandlesKept'
    BY <1>1 DEF HandlesKept, ThreadTypes, MainTypes, Teardown
  <1>7. OpenedAreFresh'
    BY <1>1 DEF OpenedAreFresh, HandlesKept, ThreadTypes, MainTypes
  <1>8. StdinsOpen'
    BY <1>1 DEF StdinsOpen, OpenedAreFresh, HandlesKept, ProcTypes, ThreadTypes, MainTypes
  <1>9. HelpersOwned'
    BY <1>1 DEF HelpersOwned, ProcTypes, ThreadTypes, MainTypes
  <1>10. WriterServes'
    BY <1>1 DEF WriterServes, HandlesKept, StdinsOpen, ThreadTypes, MainTypes
  <1>11. StderrIsDrained'
    BY <1>1 DEF StderrIsDrained, HandlesKept, OpenedAreFresh, ProcTypes, ThreadTypes, MainTypes
  <1> QED
    BY <1>2, <1>3, <1>4, <1>5, <1>6, <1>7, <1>8,
       <1>9, <1>10, <1>11, PartsNext

\* The writer takes a payload, and the helper it is for.
LEMMA WriterGetsKeeps ==
  ASSUME Parts, NEW r \in Runs, WriterGets(r)
  PROVE  Parts'
  <1> USE NoProcAssumption, SizesAssumption DEF WriterGets, WriterGoto, 
      mainVars, sharedVars, queueVars, procVars, writerVars, dogVars
  <1>1. /\ MainTypes /\ QueueTypes /\ ProcTypes /\ ThreadTypes
        /\ HandlesKept /\ OpenedAreFresh /\ StdinsOpen /\ HelpersOwned
        /\ WriterServes /\ StderrIsDrained
    BY DEF Parts
  <1>2. MainTypes'
    BY <1>1 DEF MainTypes, HandlesKept, Teardown
  <1>3. QueueTypes'
    BY <1>1 DEF QueueTypes
  <1>4. ProcTypes'
    BY <1>1 DEF ProcTypes, MainTypes, HandlesKept, ThreadTypes
  <1>5. ThreadTypes'
    BY <1>1 DEF ThreadTypes, MainTypes
  <1>6. HandlesKept'
    BY <1>1 DEF HandlesKept, ThreadTypes, MainTypes, Teardown
  <1>7. OpenedAreFresh'
    BY <1>1 DEF OpenedAreFresh, HandlesKept, ThreadTypes, MainTypes
  <1>8. StdinsOpen'
    BY <1>1 DEF StdinsOpen, OpenedAreFresh, HandlesKept, ProcTypes, ThreadTypes, MainTypes
  <1>9. HelpersOwned'
    BY <1>1 DEF HelpersOwned, ProcTypes, ThreadTypes, MainTypes
  <1>10. WriterServes'
    BY <1>1 DEF WriterServes, HandlesKept, StdinsOpen, ThreadTypes, MainTypes
  <1>11. StderrIsDrained'
    BY <1>1 DEF StderrIsDrained, HandlesKept, OpenedAreFresh, ProcTypes, ThreadTypes, MainTypes
  <1> QED
    BY <1>2, <1>3, <1>4, <1>5, <1>6, <1>7, <1>8,
       <1>9, <1>10, <1>11, PartsNext

\* The writer begins to write.
LEMMA WriterWritesKeeps ==
  ASSUME Parts, NEW r \in Runs, WriterWrites(r)
  PROVE  Parts'
  <1> USE NoProcAssumption, SizesAssumption DEF WriterWrites, WriterGoto, 
      mainVars, sharedVars, queueVars, procVars, writerVars, dogVars
  <1>1. /\ MainTypes /\ QueueTypes /\ ProcTypes /\ ThreadTypes
        /\ HandlesKept /\ OpenedAreFresh /\ StdinsOpen /\ HelpersOwned
        /\ WriterServes /\ StderrIsDrained
    BY DEF Parts
  <1>2. MainTypes'
    BY <1>1 DEF MainTypes, HandlesKept, Teardown
  <1>3. QueueTypes'
    BY <1>1 DEF QueueTypes
  <1>4. ProcTypes'
    BY <1>1 DEF ProcTypes, MainTypes, HandlesKept, ThreadTypes
  <1>5. ThreadTypes'
    BY <1>1 DEF ThreadTypes, MainTypes
  <1>6. HandlesKept'
    BY <1>1 DEF HandlesKept, ThreadTypes, MainTypes, Teardown
  <1>7. OpenedAreFresh'
    BY <1>1 DEF OpenedAreFresh, HandlesKept, ThreadTypes, MainTypes
  <1>8. StdinsOpen'
    BY <1>1 DEF StdinsOpen, OpenedAreFresh, HandlesKept, ProcTypes, ThreadTypes, MainTypes
  <1>9. HelpersOwned'
    BY <1>1 DEF HelpersOwned, ProcTypes, ThreadTypes, MainTypes
  <1>10. WriterServes'
    BY <1>1 DEF WriterServes, HandlesKept, StdinsOpen, ThreadTypes, MainTypes
  <1>11. StderrIsDrained'
    BY <1>1 DEF StderrIsDrained, HandlesKept, OpenedAreFresh, ProcTypes, ThreadTypes, MainTypes
  <1> QED
    BY <1>2, <1>3, <1>4, <1>5, <1>6, <1>7, <1>8,
       <1>9, <1>10, <1>11, PartsNext

\* The write is over.
LEMMA WriterWrittenKeeps ==
  ASSUME Parts, NEW r \in Runs, WriterWritten(r)
  PROVE  Parts'
  <1> USE NoProcAssumption, SizesAssumption DEF WriterWritten, WriterGoto, 
      mainVars, sharedVars, queueVars, procVars, writerVars, dogVars
  <1>1. /\ MainTypes /\ QueueTypes /\ ProcTypes /\ ThreadTypes
        /\ HandlesKept /\ OpenedAreFresh /\ StdinsOpen /\ HelpersOwned
        /\ WriterServes /\ StderrIsDrained
    BY DEF Parts
  <1>2. MainTypes'
    BY <1>1 DEF MainTypes, HandlesKept, Teardown
  <1>3. QueueTypes'
    BY <1>1 DEF QueueTypes
  <1>4. ProcTypes'
    BY <1>1 DEF ProcTypes, MainTypes, HandlesKept, ThreadTypes
  <1>5. ThreadTypes'
    BY <1>1 DEF ThreadTypes, MainTypes
  <1>6. HandlesKept'
    BY <1>1 DEF HandlesKept, ThreadTypes, MainTypes, Teardown
  <1>7. OpenedAreFresh'
    BY <1>1 DEF OpenedAreFresh, HandlesKept, ThreadTypes, MainTypes
  <1>8. StdinsOpen'
    BY <1>1 DEF StdinsOpen, OpenedAreFresh, HandlesKept, ProcTypes, ThreadTypes, MainTypes
  <1>9. HelpersOwned'
    BY <1>1 DEF HelpersOwned, ProcTypes, ThreadTypes, MainTypes
  <1>10. WriterServes'
    BY <1>1 DEF WriterServes, HandlesKept, StdinsOpen, ThreadTypes, MainTypes
  <1>11. StderrIsDrained'
    BY <1>1 DEF StderrIsDrained, HandlesKept, OpenedAreFresh, ProcTypes, ThreadTypes, MainTypes
  <1> QED
    BY <1>2, <1>3, <1>4, <1>5, <1>6, <1>7, <1>8,
       <1>9, <1>10, <1>11, PartsNext

\* The write fails.
LEMMA WriterBrokenPipeKeeps ==
  ASSUME Parts, NEW r \in Runs, WriterBrokenPipe(r)
  PROVE  Parts'
  <1> USE NoProcAssumption, SizesAssumption DEF WriterBrokenPipe, WriterGoto, AfterBrokenPipe, 
      mainVars, sharedVars, queueVars, procVars, writerVars, dogVars
  <1>1. /\ MainTypes /\ QueueTypes /\ ProcTypes /\ ThreadTypes
        /\ HandlesKept /\ OpenedAreFresh /\ StdinsOpen /\ HelpersOwned
        /\ WriterServes /\ StderrIsDrained
    BY DEF Parts
  <1>2. MainTypes'
    BY <1>1 DEF MainTypes, HandlesKept, Teardown
  <1>3. QueueTypes'
    BY <1>1 DEF QueueTypes
  <1>4. ProcTypes'
    BY <1>1 DEF ProcTypes, MainTypes, HandlesKept, ThreadTypes
  <1>5. ThreadTypes'
    BY <1>1 DEF ThreadTypes, MainTypes
  <1>6. HandlesKept'
    BY <1>1 DEF HandlesKept, ThreadTypes, MainTypes, Teardown
  <1>7. OpenedAreFresh'
    BY <1>1 DEF OpenedAreFresh, HandlesKept, ThreadTypes, MainTypes
  <1>8. StdinsOpen'
    BY <1>1 DEF StdinsOpen, OpenedAreFresh, HandlesKept, ProcTypes, ThreadTypes, MainTypes
  <1>9. HelpersOwned'
    BY <1>1 DEF HelpersOwned, ProcTypes, ThreadTypes, MainTypes
  <1>10. WriterServes'
    BY <1>1 DEF WriterServes, HandlesKept, StdinsOpen, ThreadTypes, MainTypes
  <1>11. StderrIsDrained'
    BY <1>1 DEF StderrIsDrained, HandlesKept, OpenedAreFresh, ProcTypes, ThreadTypes, MainTypes
  <1> QED
    BY <1>2, <1>3, <1>4, <1>5, <1>6, <1>7, <1>8,
       <1>9, <1>10, <1>11, PartsNext

\* The watchdog sees a live helper.
LEMMA DogSeesHealthyKeeps ==
  ASSUME Parts, NEW r \in Runs, DogSeesHealthy(r)
  PROVE  Parts'
  <1> USE NoProcAssumption, SizesAssumption DEF DogSeesHealthy, DogGoto, 
      mainVars, sharedVars, queueVars, procVars, writerVars, dogVars
  <1>1. /\ MainTypes /\ QueueTypes /\ ProcTypes /\ ThreadTypes
        /\ HandlesKept /\ OpenedAreFresh /\ StdinsOpen /\ HelpersOwned
        /\ WriterServes /\ StderrIsDrained
    BY DEF Parts
  <1>2. MainTypes'
    BY <1>1 DEF MainTypes, HandlesKept, Teardown
  <1>3. QueueTypes'
    BY <1>1 DEF QueueTypes
  <1>4. ProcTypes'
    BY <1>1 DEF ProcTypes, MainTypes, HandlesKept, ThreadTypes
  <1>5. ThreadTypes'
    BY <1>1 DEF ThreadTypes, MainTypes
  <1>6. HandlesKept'
    BY <1>1 DEF HandlesKept, ThreadTypes, MainTypes, Teardown
  <1>7. OpenedAreFresh'
    BY <1>1 DEF OpenedAreFresh, HandlesKept, ThreadTypes, MainTypes
  <1>8. StdinsOpen'
    BY <1>1 DEF StdinsOpen, OpenedAreFresh, HandlesKept, ProcTypes, ThreadTypes, MainTypes
  <1>9. HelpersOwned'
    BY <1>1 DEF HelpersOwned, ProcTypes, ThreadTypes, MainTypes
  <1>10. WriterServes'
    BY <1>1 DEF WriterServes, HandlesKept, StdinsOpen, ThreadTypes, MainTypes
  <1>11. StderrIsDrained'
    BY <1>1 DEF StderrIsDrained, HandlesKept, OpenedAreFresh, ProcTypes, ThreadTypes, MainTypes
  <1> QED
    BY <1>2, <1>3, <1>4, <1>5, <1>6, <1>7, <1>8,
       <1>9, <1>10, <1>11, PartsNext

\* The watchdog sees a dead helper.
LEMMA DogSeesDeadKeeps ==
  ASSUME Parts, NEW r \in Runs, DogSeesDead(r)
  PROVE  Parts'
  <1> USE NoProcAssumption, SizesAssumption DEF DogSeesDead, DogGoto, Counted, CapReached, 
      mainVars, sharedVars, queueVars, procVars, writerVars, dogVars
  <1>1. /\ MainTypes /\ QueueTypes /\ ProcTypes /\ ThreadTypes
        /\ HandlesKept /\ OpenedAreFresh /\ StdinsOpen /\ HelpersOwned
        /\ WriterServes /\ StderrIsDrained
    BY DEF Parts
  <1>2. MainTypes'
    BY <1>1 DEF MainTypes, HandlesKept, Teardown
  <1>3. QueueTypes'
    BY <1>1 DEF QueueTypes
  <1>4. ProcTypes'
    BY <1>1 DEF ProcTypes, MainTypes, HandlesKept, ThreadTypes
  <1>5. ThreadTypes'
    BY <1>1 DEF ThreadTypes, MainTypes
  <1>6. HandlesKept'
    BY <1>1 DEF HandlesKept, ThreadTypes, MainTypes, Teardown
  <1>7. OpenedAreFresh'
    BY <1>1 DEF OpenedAreFresh, HandlesKept, ThreadTypes, MainTypes
  <1>8. StdinsOpen'
    BY <1>1 DEF StdinsOpen, OpenedAreFresh, HandlesKept, ProcTypes, ThreadTypes, MainTypes
  <1>9. HelpersOwned'
    BY <1>1 DEF HelpersOwned, ProcTypes, ThreadTypes, MainTypes
  <1>10. WriterServes'
    BY <1>1 DEF WriterServes, HandlesKept, StdinsOpen, ThreadTypes, MainTypes
  <1>11. StderrIsDrained'
    BY <1>1 DEF StderrIsDrained, HandlesKept, OpenedAreFresh, ProcTypes, ThreadTypes, MainTypes
  <1> QED
    BY <1>2, <1>3, <1>4, <1>5, <1>6, <1>7, <1>8,
       <1>9, <1>10, <1>11, PartsNext

\* The watchdog cannot open a helper.
LEMMA DogOpenFailsKeeps ==
  ASSUME Parts, NEW r \in Runs, DogOpenFails(r)
  PROVE  Parts'
  <1> USE NoProcAssumption, SizesAssumption DEF DogOpenFails, DogGoto, 
      mainVars, sharedVars, queueVars, procVars, writerVars, dogVars
  <1>1. /\ MainTypes /\ QueueTypes /\ ProcTypes /\ ThreadTypes
        /\ HandlesKept /\ OpenedAreFresh /\ StdinsOpen /\ HelpersOwned
        /\ WriterServes /\ StderrIsDrained
    BY DEF Parts
  <1>2. MainTypes'
    BY <1>1 DEF MainTypes, HandlesKept, Teardown
  <1>3. QueueTypes'
    BY <1>1 DEF QueueTypes
  <1>4. ProcTypes'
    BY <1>1 DEF ProcTypes, MainTypes, HandlesKept, ThreadTypes
  <1>5. ThreadTypes'
    BY <1>1 DEF ThreadTypes, MainTypes
  <1>6. HandlesKept'
    BY <1>1 DEF HandlesKept, ThreadTypes, MainTypes, Teardown
  <1>7. OpenedAreFresh'
    BY <1>1 DEF OpenedAreFresh, HandlesKept, ThreadTypes, MainTypes
  <1>8. StdinsOpen'
    BY <1>1 DEF StdinsOpen, OpenedAreFresh, HandlesKept, ProcTypes, ThreadTypes, MainTypes
  <1>9. HelpersOwned'
    BY <1>1 DEF HelpersOwned, ProcTypes, ThreadTypes, MainTypes
  <1>10. WriterServes'
    BY <1>1 DEF WriterServes, HandlesKept, StdinsOpen, ThreadTypes, MainTypes
  <1>11. StderrIsDrained'
    BY <1>1 DEF StderrIsDrained, HandlesKept, OpenedAreFresh, ProcTypes, ThreadTypes, MainTypes
  <1> QED
    BY <1>2, <1>3, <1>4, <1>5, <1>6, <1>7, <1>8,
       <1>9, <1>10, <1>11, PartsNext

\* The watchdog installs its helper.
LEMMA DogInstallsKeeps ==
  ASSUME Parts, NEW r \in Runs, DogInstalls(r)
  PROVE  Parts'
  <1> USE NoProcAssumption, SizesAssumption DEF DogInstalls, DogGoto, AfterInstall, 
      mainVars, sharedVars, queueVars, procVars, writerVars, dogVars
  <1>1. /\ MainTypes /\ QueueTypes /\ ProcTypes /\ ThreadTypes
        /\ HandlesKept /\ OpenedAreFresh /\ StdinsOpen /\ HelpersOwned
        /\ WriterServes /\ StderrIsDrained
    BY DEF Parts
  <1>2. opened[r] \in Procs /\ opened[r] \notin closed \cup {pacatProc, final}
    BY <1>1 DEF HandlesKept, ThreadTypes, OpenedAreFresh
  <1>3. MainTypes'
    BY <1>1, <1>2 DEF MainTypes, HandlesKept, Teardown
  <1>4. QueueTypes'
    BY <1>1, <1>2 DEF QueueTypes
  <1>5. ProcTypes'
    BY <1>1, <1>2 DEF ProcTypes, MainTypes, HandlesKept, ThreadTypes
  <1>6. ThreadTypes'
    BY <1>1, <1>2 DEF ThreadTypes, MainTypes
  <1>7. HandlesKept'
    BY <1>1, <1>2 DEF HandlesKept, ThreadTypes, MainTypes, Teardown
  <1>8. OpenedAreFresh'
    BY <1>1, <1>2 DEF OpenedAreFresh, HandlesKept, ThreadTypes, MainTypes
  <1>9. StdinsOpen'
    BY <1>1, <1>2 DEF StdinsOpen, OpenedAreFresh, HandlesKept, ProcTypes, ThreadTypes, MainTypes
  <1>10. HelpersOwned'
    BY <1>1, <1>2 DEF HelpersOwned, ProcTypes, ThreadTypes, MainTypes
  <1>11. WriterServes'
    BY <1>1, <1>2 DEF WriterServes, HandlesKept, StdinsOpen, ThreadTypes, MainTypes
  <1>12. StderrIsDrained'
    BY <1>1, <1>2 DEF StderrIsDrained, HandlesKept, OpenedAreFresh, ProcTypes, ThreadTypes, MainTypes
  <1> QED
    BY <1>3, <1>4, <1>5, <1>6, <1>7, <1>8, <1>9,
       <1>10, <1>11, <1>12, PartsNext

\* The watchdog attaches a reader.
LEMMA DogAttachesKeeps ==
  ASSUME Parts, NEW r \in Runs, DogAttaches(r)
  PROVE  Parts'
  <1> USE NoProcAssumption, SizesAssumption DEF DogAttaches, DogGoto, WithReader, 
      mainVars, sharedVars, queueVars, procVars, writerVars, dogVars
  <1>1. /\ MainTypes /\ QueueTypes /\ ProcTypes /\ ThreadTypes
        /\ HandlesKept /\ OpenedAreFresh /\ StdinsOpen /\ HelpersOwned
        /\ WriterServes /\ StderrIsDrained
    BY DEF Parts
  <1>2. MainTypes'
    BY <1>1 DEF MainTypes, HandlesKept, Teardown
  <1>3. QueueTypes'
    BY <1>1 DEF QueueTypes
  <1>4. ProcTypes'
    BY <1>1 DEF ProcTypes, MainTypes, HandlesKept, ThreadTypes
  <1>5. ThreadTypes'
    BY <1>1 DEF ThreadTypes, MainTypes
  <1>6. HandlesKept'
    BY <1>1 DEF HandlesKept, ThreadTypes, MainTypes, Teardown
  <1>7. OpenedAreFresh'
    BY <1>1 DEF OpenedAreFresh, HandlesKept, ThreadTypes, MainTypes
  <1>8. StdinsOpen'
    BY <1>1 DEF StdinsOpen, OpenedAreFresh, HandlesKept, ProcTypes, ThreadTypes, MainTypes
  <1>9. HelpersOwned'
    BY <1>1 DEF HelpersOwned, ProcTypes, ThreadTypes, MainTypes
  <1>10. WriterServes'
    BY <1>1 DEF WriterServes, HandlesKept, StdinsOpen, ThreadTypes, MainTypes
  <1>11. StderrIsDrained'
    BY <1>1 DEF StderrIsDrained, HandlesKept, OpenedAreFresh, ProcTypes, ThreadTypes, MainTypes
  <1> QED
    BY <1>2, <1>3, <1>4, <1>5, <1>6, <1>7, <1>8,
       <1>9, <1>10, <1>11, PartsNext

\* A helper stops reading.
LEMMA HelperSticksKeeps ==
  ASSUME Parts, NEW p \in Procs, HelperSticks(p)
  PROVE  Parts'
  <1> USE NoProcAssumption, SizesAssumption DEF HelperSticks, 
      mainVars, sharedVars, queueVars, procVars, writerVars, dogVars
  <1>1. /\ MainTypes /\ QueueTypes /\ ProcTypes /\ ThreadTypes
        /\ HandlesKept /\ OpenedAreFresh /\ StdinsOpen /\ HelpersOwned
        /\ WriterServes /\ StderrIsDrained
    BY DEF Parts
  <1>2. MainTypes'
    BY <1>1 DEF MainTypes, HandlesKept, Teardown
  <1>3. QueueTypes'
    BY <1>1 DEF QueueTypes
  <1>4. ProcTypes'
    BY <1>1 DEF ProcTypes, MainTypes, HandlesKept, ThreadTypes
  <1>5. ThreadTypes'
    BY <1>1 DEF ThreadTypes, MainTypes
  <1>6. HandlesKept'
    BY <1>1 DEF HandlesKept, ThreadTypes, MainTypes, Teardown
  <1>7. OpenedAreFresh'
    BY <1>1 DEF OpenedAreFresh, HandlesKept, ThreadTypes, MainTypes
  <1>8. StdinsOpen'
    BY <1>1 DEF StdinsOpen, OpenedAreFresh, HandlesKept, ProcTypes, ThreadTypes, MainTypes
  <1>9. HelpersOwned'
    BY <1>1 DEF HelpersOwned, ProcTypes, ThreadTypes, MainTypes
  <1>10. WriterServes'
    BY <1>1 DEF WriterServes, HandlesKept, StdinsOpen, ThreadTypes, MainTypes
  <1>11. StderrIsDrained'
    BY <1>1 DEF StderrIsDrained, HandlesKept, OpenedAreFresh, ProcTypes, ThreadTypes, MainTypes
  <1> QED
    BY <1>2, <1>3, <1>4, <1>5, <1>6, <1>7, <1>8,
       <1>9, <1>10, <1>11, PartsNext

\* A helper goes on reading.
LEMMA HelperRecoversKeeps ==
  ASSUME Parts, NEW p \in Procs, HelperRecovers(p)
  PROVE  Parts'
  <1> USE NoProcAssumption, SizesAssumption DEF HelperRecovers, 
      mainVars, sharedVars, queueVars, procVars, writerVars, dogVars
  <1>1. /\ MainTypes /\ QueueTypes /\ ProcTypes /\ ThreadTypes
        /\ HandlesKept /\ OpenedAreFresh /\ StdinsOpen /\ HelpersOwned
        /\ WriterServes /\ StderrIsDrained
    BY DEF Parts
  <1>2. MainTypes'
    BY <1>1 DEF MainTypes, HandlesKept, Teardown
  <1>3. QueueTypes'
    BY <1>1 DEF QueueTypes
  <1>4. ProcTypes'
    BY <1>1 DEF ProcTypes, MainTypes, HandlesKept, ThreadTypes
  <1>5. ThreadTypes'
    BY <1>1 DEF ThreadTypes, MainTypes
  <1>6. HandlesKept'
    BY <1>1 DEF HandlesKept, ThreadTypes, MainTypes, Teardown
  <1>7. OpenedAreFresh'
    BY <1>1 DEF OpenedAreFresh, HandlesKept, ThreadTypes, MainTypes
  <1>8. StdinsOpen'
    BY <1>1 DEF StdinsOpen, OpenedAreFresh, HandlesKept, ProcTypes, ThreadTypes, MainTypes
  <1>9. HelpersOwned'
    BY <1>1 DEF HelpersOwned, ProcTypes, ThreadTypes, MainTypes
  <1>10. WriterServes'
    BY <1>1 DEF WriterServes, HandlesKept, StdinsOpen, ThreadTypes, MainTypes
  <1>11. StderrIsDrained'
    BY <1>1 DEF StderrIsDrained, HandlesKept, OpenedAreFresh, ProcTypes, ThreadTypes, MainTypes
  <1> QED
    BY <1>2, <1>3, <1>4, <1>5, <1>6, <1>7, <1>8,
       <1>9, <1>10, <1>11, PartsNext

\* What the spawning of a helper changes.
LEMMA SpawnIs ==
  ASSUME ProcTypes, NEW p \in Procs, NEW thread \in {"main", "dog"} \X Runs, Spawns(p, thread)
  PROVE  /\ ProcTypes' /\ proc[p] = "dead" /\ proc'[p] = "alive"
         /\ \A x \in Procs \ {p} : proc'[x] = proc[x]
         /\ told' = told \ {p} /\ closed' = closed \ {p} /\ readers' = readers
         /\ p \in children'[thread]
         /\ \A t \in {"main", "dog"} \X Runs : children[t] \subseteq children'[t]
         /\ p # pacatProc /\ p # final /\ \A r \in Runs : p # target[r] /\ p # opened[r]
  BY DEF Spawns, Unreferenced, ProcTypes

\* What the death of a helper changes.
LEMMA DeathIs ==
  ASSUME ProcTypes, NEW p \in Procs, Dies(p), closed' = closed
  PROVE  /\ ProcTypes' /\ proc'[p] = "dead"
         /\ \A x \in Procs \ {p} : proc'[x] = proc[x]
         /\ told' = told \ {p} /\ readers' = readers \ {p}
         /\ \A t \in {"main", "dog"} \X Runs : children'[t] = children[t] \ {p}
  BY DEF Dies, ProcTypes

\* What the end of a thread changes.
LEMMA EndIs ==
  ASSUME ProcTypes, NEW thread \in {"main", "dog"} \X Runs, NEW ts \in SUBSET Procs,
         ThreadEnds(thread, ts), closed' \subseteq closed
  PROVE  /\ ProcTypes' /\ proc' = proc /\ readers' = readers
         /\ told' = told \cup children[thread] \cup ts /\ children'[thread] = {}
         /\ \A t \in {"main", "dog"} \X Runs : t # thread => children'[t] = children[t]
  BY DEF ThreadEnds, SignalledByEnd, ProcTypes

\* The engine thread opens the first helper of a run.
LEMMA MainOpensKeeps ==
  ASSUME Parts, MainOpens
  PROVE  Parts'
  <1> USE NoProcAssumption, SizesAssumption DEF
      mainVars, sharedVars, queueVars, procVars, writerVars, dogVars
  <1>1. /\ MainTypes /\ QueueTypes /\ ProcTypes /\ ThreadTypes
        /\ HandlesKept /\ OpenedAreFresh /\ StdinsOpen /\ HelpersOwned
        /\ WriterServes /\ StderrIsDrained
    BY DEF Parts
  <1>2. /\ main = "open" /\ main' = "prime" /\ run \in Runs
        /\ UNCHANGED <<run, final, stopEvent, deadEvent, queueVars, writerVars, dogVars>>
    BY <1>1 DEF MainOpens, MainGoto, MainTypes
  <1>3. \E p \in Procs : Spawns(p, <<"main", run>>) /\ pacatProc' = p
    BY DEF MainOpens
  <1>4. PICK p \in Procs : Spawns(p, <<"main", run>>) /\ pacatProc' = p
    BY <1>3
  <1>5. /\ ProcTypes' /\ proc[p] = "dead" /\ proc'[p] = "alive"
        /\ \A x \in Procs \ {p} : proc'[x] = proc[x]
        /\ told' = told \ {p} /\ closed' = closed \ {p} /\ readers' = readers
        /\ p \in children'[<<"main", run>>]
        /\ \A t \in {"main", "dog"} \X Runs : children[t] \subseteq children'[t]
        /\ p # pacatProc /\ p # final /\ \A s \in Runs : p # target[s] /\ p # opened[s]
    BY <1>1, <1>2, <1>4, SpawnIs
  <1>6. MainTypes'
    BY <1>1, <1>2, <1>3, <1>4, <1>5 DEF MainTypes, HandlesKept, Teardown
  <1>7. QueueTypes'
    BY <1>1, <1>2 DEF QueueTypes
  <1>8. ProcTypes'
    BY <1>1, <1>2, <1>3, <1>4, <1>5 DEF ProcTypes, MainTypes, HandlesKept, ThreadTypes
  <1>9. ThreadTypes'
    BY <1>1, <1>2 DEF ThreadTypes, MainTypes
  <1>10. HandlesKept'
    BY <1>1, <1>2, <1>3, <1>4, <1>5 DEF HandlesKept, ThreadTypes, MainTypes, Teardown
  <1>11. OpenedAreFresh'
    BY <1>1, <1>2, <1>3, <1>4, <1>5 DEF OpenedAreFresh, HandlesKept, ThreadTypes, MainTypes
  <1>12. StdinsOpen'
    BY <1>1, <1>2, <1>3, <1>4, <1>5 DEF StdinsOpen, OpenedAreFresh, HandlesKept, ProcTypes, ThreadTypes, MainTypes
  <1>13. HelpersOwned'
    BY <1>1, <1>2, <1>3, <1>4, <1>5 DEF HelpersOwned, ProcTypes, ThreadTypes, MainTypes
  <1>14. WriterServes'
    BY <1>1, <1>2 DEF WriterServes, HandlesKept, StdinsOpen, ThreadTypes, MainTypes
  <1>15. StderrIsDrained'
    BY <1>1, <1>2 DEF StderrIsDrained, HandlesKept, OpenedAreFresh, ProcTypes, ThreadTypes, MainTypes
  <1> QED
    BY <1>6, <1>7, <1>8, <1>9, <1>10, <1>11, <1>12,
       <1>13, <1>14, <1>15, PartsNext

\* The watchdog opens a helper.
LEMMA DogOpensKeeps ==
  ASSUME Parts, NEW r \in Runs, DogOpens(r)
  PROVE  Parts'
  <1> USE NoProcAssumption, SizesAssumption DEF
      mainVars, sharedVars, queueVars, procVars, writerVars, dogVars
  <1>1. /\ MainTypes /\ QueueTypes /\ ProcTypes /\ ThreadTypes
        /\ HandlesKept /\ OpenedAreFresh /\ StdinsOpen /\ HelpersOwned
        /\ WriterServes /\ StderrIsDrained
    BY DEF Parts
  <1>2. /\ dog[r] = "open" /\ dog' = [dog EXCEPT ![r] = "opened"]
        /\ UNCHANGED <<mainVars, sharedVars, queueVars, writerVars, respawns>>
    BY DEF DogOpens, DogGoto
  <1>3. \E p \in Procs : Spawns(p, <<"dog", r>>) /\ opened' = [opened EXCEPT ![r] = p]
    BY DEF DogOpens
  <1>4. PICK p \in Procs : Spawns(p, <<"dog", r>>) /\ opened' = [opened EXCEPT ![r] = p]
    BY <1>3
  <1>5. /\ ProcTypes' /\ proc[p] = "dead" /\ proc'[p] = "alive"
        /\ \A x \in Procs \ {p} : proc'[x] = proc[x]
        /\ told' = told \ {p} /\ closed' = closed \ {p} /\ readers' = readers
        /\ p \in children'[<<"dog", r>>]
        /\ \A t \in {"main", "dog"} \X Runs : children[t] \subseteq children'[t]
        /\ p # pacatProc /\ p # final /\ \A s \in Runs : p # target[s] /\ p # opened[s]
    BY <1>1, <1>4, SpawnIs
  <1>6. MainTypes'
    BY <1>1, <1>2 DEF MainTypes, HandlesKept, Teardown
  <1>7. QueueTypes'
    BY <1>1, <1>2 DEF QueueTypes
  <1>8. ProcTypes'
    BY <1>1, <1>2, <1>3, <1>4, <1>5 DEF ProcTypes, MainTypes, HandlesKept, ThreadTypes
  <1>9. ThreadTypes'
    BY <1>1, <1>2, <1>3, <1>4, <1>5 DEF ThreadTypes, MainTypes
  <1>10. HandlesKept'
    BY <1>1, <1>2, <1>3, <1>4, <1>5 DEF HandlesKept, ThreadTypes, MainTypes, Teardown
  <1>11. OpenedAreFresh'
    BY <1>1, <1>2, <1>3, <1>4, <1>5 DEF OpenedAreFresh, HandlesKept, ThreadTypes, MainTypes
  <1>12. StdinsOpen'
    BY <1>1, <1>2, <1>3, <1>4, <1>5 DEF StdinsOpen, OpenedAreFresh, HandlesKept, ProcTypes, ThreadTypes, MainTypes
  <1>13. HelpersOwned'
    <2>1. /\ <<"main", run>> \in {"main", "dog"} \X Runs /\ (main # "off" => main' # "off") /\ run' = run
          /\ \A s \in Runs : <<"dog", s>> \in {"main", "dog"} \X Runs /\ (dog[s] # "none" => dog'[s] # "none")
      BY <1>1, <1>2 DEF MainTypes, ThreadTypes
    <2> SUFFICES ASSUME NEW x \in Procs, proc'[x] # "dead"
                 PROVE  \/ x \in told'
                        \/ main' # "off" /\ x \in children'[<<"main", run'>>]
                        \/ \E s \in Runs : dog'[s] # "none" /\ x \in children'[<<"dog", s>>]
      BY DEF HelpersOwned
    <2>2. CASE proc[x] # "dead"
      <3>1. \/ x \in told
            \/ main # "off" /\ x \in children[<<"main", run>>]
            \/ \E s \in Runs : dog[s] # "none" /\ x \in children[<<"dog", s>>]
        BY <1>1, <2>2 DEF HelpersOwned
      <3>2. /\ x \in told => x \in told'
            /\ \A t \in {"main", "dog"} \X Runs : x \in children[t] => x \in children'[t]
        BY <1>5, <2>2
      <3> QED
        BY <2>1, <3>1, <3>2
    <2>3. CASE proc[x] = "dead"
      <3>1. x = p
        BY <1>5, <2>3
      <3>2. dog'[r] # "none" /\ p \in children'[<<"dog", r>>]
        BY <1>1, <1>2, <1>5 DEF ThreadTypes
      <3> QED
        BY <3>1, <3>2
    <2> QED
      BY <2>2, <2>3
  <1>14. WriterServes'
    BY <1>1, <1>2 DEF WriterServes, HandlesKept, StdinsOpen, ThreadTypes, MainTypes
  <1>15. StderrIsDrained'
    BY <1>1, <1>2, <1>3, <1>4, <1>5 DEF StderrIsDrained, HandlesKept, OpenedAreFresh, ProcTypes, ThreadTypes, MainTypes
  <1> QED
    BY <1>6, <1>7, <1>8, <1>9, <1>10, <1>11, <1>12,
       <1>13, <1>14, <1>15, PartsNext

\* A helper dies.
LEMMA HelperDiesKeeps ==
  ASSUME Parts, NEW p \in Procs, HelperDies(p)
  PROVE  Parts'
  <1> USE NoProcAssumption, SizesAssumption DEF
      mainVars, sharedVars, queueVars, procVars, writerVars, dogVars
  <1>1. /\ MainTypes /\ QueueTypes /\ ProcTypes /\ ThreadTypes
        /\ HandlesKept /\ OpenedAreFresh /\ StdinsOpen /\ HelpersOwned
        /\ WriterServes /\ StderrIsDrained
    BY DEF Parts
  <1>2. /\ UNCHANGED <<mainVars, sharedVars, queueVars, closed, writerVars, dogVars>>
        /\ Dies(p) /\ closed' = closed
    BY DEF HelperDies
  <1>3. /\ ProcTypes' /\ proc'[p] = "dead"
        /\ \A x \in Procs \ {p} : proc'[x] = proc[x]
        /\ told' = told \ {p} /\ readers' = readers \ {p}
        /\ \A t \in {"main", "dog"} \X Runs : children'[t] = children[t] \ {p}
    BY <1>1, <1>2, DeathIs
  <1>4. MainTypes'
    BY <1>1, <1>2 DEF MainTypes, HandlesKept, Teardown
  <1>5. QueueTypes'
    BY <1>1, <1>2 DEF QueueTypes
  <1>6. ProcTypes'
    BY <1>1, <1>2, <1>3 DEF ProcTypes, MainTypes, HandlesKept, ThreadTypes
  <1>7. ThreadTypes'
    BY <1>1, <1>2 DEF ThreadTypes, MainTypes
  <1>8. HandlesKept'
    BY <1>1, <1>2 DEF HandlesKept, ThreadTypes, MainTypes, Teardown
  <1>9. OpenedAreFresh'
    BY <1>1, <1>2 DEF OpenedAreFresh, HandlesKept, ThreadTypes, MainTypes
  <1>10. StdinsOpen'
    BY <1>1, <1>2 DEF StdinsOpen, OpenedAreFresh, HandlesKept, ProcTypes, ThreadTypes, MainTypes
  <1>11. HelpersOwned'
    <2>1. /\ <<"main", run>> \in {"main", "dog"} \X Runs /\ (main # "off" => main' # "off") /\ run' = run
          /\ \A s \in Runs : <<"dog", s>> \in {"main", "dog"} \X Runs /\ (dog[s] # "none" => dog'[s] # "none")
      BY <1>1, <1>2 DEF MainTypes
    <2> SUFFICES ASSUME NEW x \in Procs, proc'[x] # "dead"
                 PROVE  \/ x \in told'
                        \/ main' # "off" /\ x \in children'[<<"main", run'>>]
                        \/ \E s \in Runs : dog'[s] # "none" /\ x \in children'[<<"dog", s>>]
      BY DEF HelpersOwned
    <2>2. CASE proc[x] # "dead"
      <3>1. \/ x \in told
            \/ main # "off" /\ x \in children[<<"main", run>>]
            \/ \E s \in Runs : dog[s] # "none" /\ x \in children[<<"dog", s>>]
        BY <1>1, <2>2 DEF HelpersOwned
      <3>2. /\ x \in told => x \in told'
            /\ \A t \in {"main", "dog"} \X Runs : x \in children[t] => x \in children'[t]
        BY <1>3, <2>2
      <3> QED
        BY <2>1, <3>1, <3>2
    <2>3. CASE proc[x] = "dead"
      BY <1>3, <2>3
    <2> QED
      BY <2>2, <2>3
  <1>12. WriterServes'
    BY <1>1, <1>2 DEF WriterServes, HandlesKept, StdinsOpen, ThreadTypes, MainTypes
  <1>13. StderrIsDrained'
    BY <1>1, <1>2, <1>3 DEF StderrIsDrained, HandlesKept, OpenedAreFresh, ProcTypes, ThreadTypes, MainTypes
  <1> QED
    BY <1>4, <1>5, <1>6, <1>7, <1>8, <1>9, <1>10,
       <1>11, <1>12, <1>13, PartsNext

\* The engine thread waits for its helper, terminates it, or kills it.
LEMMA MainWaitsKeeps ==
  ASSUME Parts, MainWaits
  PROVE  Parts'
  <1> USE NoProcAssumption, SizesAssumption DEF
      mainVars, sharedVars, queueVars, procVars, writerVars, dogVars
  <1>1. /\ MainTypes /\ QueueTypes /\ ProcTypes /\ ThreadTypes
        /\ HandlesKept /\ OpenedAreFresh /\ StdinsOpen /\ HelpersOwned
        /\ WriterServes /\ StderrIsDrained
    BY DEF Parts
  <1>2. /\ UNCHANGED <<run, final, sharedVars, queueVars, closed, writerVars, dogVars>>
        /\ main \in {"wait", "terminate"} /\ main' \in {"terminate", "join"} /\ closed' = closed
        /\ (main' = "terminate" => main = "wait") /\ final \in Procs
    BY <1>1 DEF MainWaits, MainGoto, HandlesKept
  <1>3. UNCHANGED <<proc, told, children, readers>> \/ Dies(final)
    BY DEF MainWaits
  <1>4. \/ ProcTypes' /\ UNCHANGED procVars
        \/ /\ ProcTypes' /\ proc'[final] = "dead"
           /\ \A x \in Procs \ {final} : proc'[x] = proc[x]
           /\ told' = told \ {final} /\ readers' = readers \ {final}
           /\ \A t \in {"main", "dog"} \X Runs : children'[t] = children[t] \ {final}
    <2>1. CASE UNCHANGED <<proc, told, children, readers>>
      BY <1>1, <1>2, <2>1 DEF ProcTypes
    <2>2. CASE Dies(final)
      BY <1>1, <1>2, <2>2, DeathIs
    <2> QED
      BY <1>3, <2>1, <2>2
  <1>5. MainTypes'
    BY <1>1, <1>2 DEF MainTypes, HandlesKept, Teardown
  <1>6. QueueTypes'
    BY <1>1, <1>2 DEF QueueTypes
  <1>7. ProcTypes'
    BY <1>1, <1>2, <1>3, <1>4 DEF ProcTypes, MainTypes, HandlesKept, ThreadTypes
  <1>8. ThreadTypes'
    BY <1>1, <1>2 DEF ThreadTypes, MainTypes
  <1>9. HandlesKept'
    BY <1>1, <1>2 DEF HandlesKept, ThreadTypes, MainTypes, Teardown
  <1>10. OpenedAreFresh'
    BY <1>1, <1>2 DEF OpenedAreFresh, HandlesKept, ThreadTypes, MainTypes
  <1>11. StdinsOpen'
    BY <1>1, <1>2 DEF StdinsOpen, OpenedAreFresh, HandlesKept, ProcTypes, ThreadTypes, MainTypes
  <1>12. HelpersOwned'
    <2>1. /\ <<"main", run>> \in {"main", "dog"} \X Runs /\ (main # "off" => main' # "off") /\ run' = run
          /\ \A s \in Runs : <<"dog", s>> \in {"main", "dog"} \X Runs /\ (dog[s] # "none" => dog'[s] # "none")
      BY <1>1, <1>2 DEF MainTypes
    <2> SUFFICES ASSUME NEW x \in Procs, proc'[x] # "dead"
                 PROVE  \/ x \in told'
                        \/ main' # "off" /\ x \in children'[<<"main", run'>>]
                        \/ \E s \in Runs : dog'[s] # "none" /\ x \in children'[<<"dog", s>>]
      BY DEF HelpersOwned
    <2>2. CASE proc[x] # "dead"
      <3>1. \/ x \in told
            \/ main # "off" /\ x \in children[<<"main", run>>]
            \/ \E s \in Runs : dog[s] # "none" /\ x \in children[<<"dog", s>>]
        BY <1>1, <2>2 DEF HelpersOwned
      <3>2. /\ x \in told => x \in told'
            /\ \A t \in {"main", "dog"} \X Runs : x \in children[t] => x \in children'[t]
        BY <1>2, <1>4, <2>2
      <3> QED
        BY <2>1, <3>1, <3>2
    <2>3. CASE proc[x] = "dead"
      BY <1>4, <2>3
    <2> QED
      BY <2>2, <2>3
  <1>13. WriterServes'
    BY <1>1, <1>2 DEF WriterServes, HandlesKept, StdinsOpen, ThreadTypes, MainTypes
  <1>14. StderrIsDrained'
    BY <1>1, <1>2 DEF StderrIsDrained, HandlesKept, OpenedAreFresh, ProcTypes, ThreadTypes, MainTypes
  <1> QED
    BY <1>5, <1>6, <1>7, <1>8, <1>9, <1>10, <1>11,
       <1>12, <1>13, <1>14, PartsNext

\* The engine thread ends.
LEMMA MainJoinsKeeps ==
  ASSUME Parts, MainJoins
  PROVE  Parts'
  <1> USE NoProcAssumption, SizesAssumption DEF
      mainVars, sharedVars, queueVars, procVars, writerVars, dogVars
  <1>1. /\ MainTypes /\ QueueTypes /\ ProcTypes /\ ThreadTypes
        /\ HandlesKept /\ OpenedAreFresh /\ StdinsOpen /\ HelpersOwned
        /\ WriterServes /\ StderrIsDrained
    BY DEF Parts
  <1>2. /\ main = "join" /\ main' = "off" /\ queue' = <<>> /\ hasQueue' = FALSE /\ final' = NoProc
        /\ closed' \subseteq closed /\ run \in Runs
        /\ UNCHANGED <<run, sharedVars, writerVars, dogVars>> /\ ThreadEnds(<<"main", run>>, {})
    BY <1>1 DEF MainJoins, MainGoto, MainTypes
  <1>3. /\ ProcTypes' /\ proc' = proc /\ readers' = readers
        /\ told' = told \cup children[<<"main", run>>] \cup {} /\ children'[<<"main", run>>] = {}
        /\ \A t \in {"main", "dog"} \X Runs : t # <<"main", run>> => children'[t] = children[t]
    BY <1>1, <1>2, EndIs
  <1>4. MainTypes'
    BY <1>1, <1>2 DEF MainTypes, HandlesKept, Teardown
  <1>5. QueueTypes'
    BY <1>1, <1>2 DEF QueueTypes
  <1>6. ProcTypes'
    BY <1>1, <1>2, <1>3 DEF ProcTypes, MainTypes, HandlesKept, ThreadTypes
  <1>7. ThreadTypes'
    BY <1>1, <1>2 DEF ThreadTypes, MainTypes
  <1>8. HandlesKept'
    BY <1>1, <1>2 DEF HandlesKept, ThreadTypes, MainTypes, Teardown
  <1>9. OpenedAreFresh'
    BY <1>1, <1>2 DEF OpenedAreFresh, HandlesKept, ThreadTypes, MainTypes
  <1>10. StdinsOpen'
    BY <1>1, <1>2 DEF StdinsOpen, OpenedAreFresh, HandlesKept, ProcTypes, ThreadTypes, MainTypes
  <1>11. HelpersOwned'
    BY <1>1, <1>2, <1>3 DEF HelpersOwned, ProcTypes, ThreadTypes, MainTypes
  <1>12. WriterServes'
    BY <1>1, <1>2 DEF WriterServes, HandlesKept, StdinsOpen, ThreadTypes, MainTypes
  <1>13. StderrIsDrained'
    BY <1>1, <1>2 DEF StderrIsDrained, HandlesKept, OpenedAreFresh, ProcTypes, ThreadTypes, MainTypes
  <1> QED
    BY <1>4, <1>5, <1>6, <1>7, <1>8, <1>9, <1>10,
       <1>11, <1>12, <1>13, PartsNext

\* The watchdog ends.
LEMMA DogEndsKeeps ==
  ASSUME Parts, NEW r \in Runs, DogEnds(r), dog[r] \in {"check", "look", "opened"},
         stopEvent' \in BOOLEAN, stopEvent => stopEvent', deadEvent' \in BOOLEAN,
         UNCHANGED <<mainVars, pacatProc, queueVars, writerVars>>
  PROVE  Parts'
  <1> USE NoProcAssumption, SizesAssumption DEF
      mainVars, sharedVars, queueVars, procVars, writerVars, dogVars
  <1>1. /\ MainTypes /\ QueueTypes /\ ProcTypes /\ ThreadTypes
        /\ HandlesKept /\ OpenedAreFresh /\ StdinsOpen /\ HelpersOwned
        /\ WriterServes /\ StderrIsDrained
    BY DEF Parts
  <1>2. /\ ThreadEnds(<<"dog", r>>, {opened[r]} \ {NoProc}) /\ closed' = closed
        /\ dog' = [dog EXCEPT ![r] = "none"] /\ opened' = [opened EXCEPT ![r] = NoProc]
        /\ respawns' = [respawns EXCEPT ![r] = 0]
    BY DEF DogEnds, DogGoto
  <1>3. {opened[r]} \ {NoProc} \in SUBSET Procs
    BY <1>1 DEF ThreadTypes
  <1>4. /\ ProcTypes' /\ proc' = proc /\ readers' = readers
        /\ told' = told \cup children[<<"dog", r>>] \cup ({opened[r]} \ {NoProc}) /\ children'[<<"dog", r>>] = {}
        /\ \A t \in {"main", "dog"} \X Runs : t # <<"dog", r>> => children'[t] = children[t]
    BY <1>1, <1>2, <1>3, EndIs
  <1>5. MainTypes'
    BY <1>1, <1>2 DEF MainTypes, HandlesKept, Teardown
  <1>6. QueueTypes'
    BY <1>1, <1>2 DEF QueueTypes
  <1>7. ProcTypes'
    BY <1>1, <1>2, <1>3, <1>4 DEF ProcTypes, MainTypes, HandlesKept, ThreadTypes
  <1>8. ThreadTypes'
    BY <1>1, <1>2 DEF ThreadTypes, MainTypes
  <1>9. HandlesKept'
    BY <1>1, <1>2 DEF HandlesKept, ThreadTypes, MainTypes, Teardown
  <1>10. OpenedAreFresh'
    BY <1>1, <1>2 DEF OpenedAreFresh, HandlesKept, ThreadTypes, MainTypes
  <1>11. StdinsOpen'
    BY <1>1, <1>2 DEF StdinsOpen, OpenedAreFresh, HandlesKept, ProcTypes, ThreadTypes, MainTypes
  <1>12. HelpersOwned'
    BY <1>1, <1>2, <1>3, <1>4 DEF HelpersOwned, ProcTypes, ThreadTypes, MainTypes
  <1>13. WriterServes'
    BY <1>1, <1>2 DEF WriterServes, HandlesKept, StdinsOpen, ThreadTypes, MainTypes
  <1>14. StderrIsDrained'
    BY <1>1, <1>2, <1>3, <1>4 DEF StderrIsDrained, HandlesKept, OpenedAreFresh, ProcTypes, ThreadTypes, MainTypes
  <1> QED
    BY <1>5, <1>6, <1>7, <1>8, <1>9, <1>10, <1>11,
       <1>12, <1>13, <1>14, PartsNext

\* The watchdog sees the event, or gives up.
LEMMA DogStopsKeeps ==
  ASSUME Parts, NEW r \in Runs, DogAborts(r) \/ (stopEvent /\ (DogChecks(r) \/ DogLooksAgain(r)))
  PROVE  Parts'
  <1>1. /\ DogEnds(r) /\ dog[r] \in {"check", "look", "opened"}
        /\ stopEvent' \in BOOLEAN /\ (stopEvent => stopEvent') /\ deadEvent' \in BOOLEAN
        /\ UNCHANGED <<mainVars, pacatProc, queueVars, writerVars>>
    BY DEF DogAborts, DogChecks, DogLooksAgain, Parts, MainTypes, sharedVars
  <1> QED
    BY <1>1, DogEndsKeeps

\* The watchdog sees no event.
LEMMA DogGoesOnKeeps ==
  ASSUME Parts, NEW r \in Runs, ~stopEvent, DogChecks(r) \/ DogLooksAgain(r)
  PROVE  Parts'
  <1> USE NoProcAssumption, SizesAssumption DEF
      mainVars, sharedVars, queueVars, procVars, writerVars, dogVars
  <1>1. /\ MainTypes /\ QueueTypes /\ ProcTypes /\ ThreadTypes
        /\ HandlesKept /\ OpenedAreFresh /\ StdinsOpen /\ HelpersOwned
        /\ WriterServes /\ StderrIsDrained
    BY DEF Parts
  <1>2. /\ UNCHANGED <<mainVars, sharedVars, queueVars, writerVars, opened, respawns, procVars>>
        /\ \/ dog[r] = "check" /\ dog' = [dog EXCEPT ![r] = "look"]
           \/ dog[r] = "opened" /\ dog' = [dog EXCEPT ![r] = "install"]
    BY DEF DogChecks, DogLooksAgain, DogGoto
  <1>3. MainTypes'
    BY <1>1, <1>2 DEF MainTypes, HandlesKept, Teardown
  <1>4. QueueTypes'
    BY <1>1, <1>2 DEF QueueTypes
  <1>5. ProcTypes'
    BY <1>1, <1>2 DEF ProcTypes, MainTypes, HandlesKept, ThreadTypes
  <1>6. ThreadTypes'
    BY <1>1, <1>2 DEF ThreadTypes, MainTypes
  <1>7. HandlesKept'
    BY <1>1, <1>2 DEF HandlesKept, ThreadTypes, MainTypes, Teardown
  <1>8. OpenedAreFresh'
    BY <1>1, <1>2 DEF OpenedAreFresh, HandlesKept, ThreadTypes, MainTypes
  <1>9. StdinsOpen'
    BY <1>1, <1>2 DEF StdinsOpen, OpenedAreFresh, HandlesKept, ProcTypes, ThreadTypes, MainTypes
  <1>10. HelpersOwned'
    BY <1>1, <1>2 DEF HelpersOwned, ProcTypes, ThreadTypes, MainTypes
  <1>11. WriterServes'
    BY <1>1, <1>2 DEF WriterServes, HandlesKept, StdinsOpen, ThreadTypes, MainTypes
  <1>12. StderrIsDrained'
    BY <1>1, <1>2 DEF StderrIsDrained, HandlesKept, OpenedAreFresh, ProcTypes, ThreadTypes, MainTypes
  <1> QED
    BY <1>3, <1>4, <1>5, <1>6, <1>7, <1>8, <1>9,
       <1>10, <1>11, <1>12, PartsNext

-----------------------------------------------------------------------------
(* The induction.                                                          *)

LEMMA InitParts == Init => Parts
  <1> SUFFICES ASSUME Init PROVE Parts
    OBVIOUS
  <1> USE NoProcAssumption, SizesAssumption DEF Init
  <1>1. MainTypes
    BY DEF MainTypes
  <1>2. QueueTypes
    <2>1. queue \in Seq({"chunk", "tail"}) /\ Len(queue) = 0
      OBVIOUS
    <2> QED
      BY <2>1 DEF QueueTypes
  <1>3. ProcTypes /\ ThreadTypes
    BY DEF ProcTypes, ThreadTypes
  <1>4. HandlesKept /\ OpenedAreFresh /\ StdinsOpen
    BY DEF HandlesKept, OpenedAreFresh, StdinsOpen
  <1>5. HelpersOwned /\ WriterServes /\ StderrIsDrained
    BY DEF HelpersOwned, WriterServes, StderrIsDrained
  <1> QED
    BY <1>1, <1>2, <1>3, <1>4, <1>5 DEF Parts

LEMMA StutterKeeps ==
  ASSUME Parts, UNCHANGED vars
  PROVE  Parts'
  <1> USE DEF vars, mainVars, sharedVars, queueVars, procVars, writerVars, dogVars
  <1>1. MainTypes' /\ QueueTypes' /\ ProcTypes' /\ ThreadTypes'
    BY DEF Parts, MainTypes, QueueTypes, ProcTypes, ThreadTypes
  <1>2. HandlesKept' /\ OpenedAreFresh' /\ StdinsOpen'
    BY DEF Parts, HandlesKept, OpenedAreFresh, StdinsOpen
  <1>3. HelpersOwned' /\ WriterServes' /\ StderrIsDrained'
    BY DEF Parts, HelpersOwned, WriterServes, StderrIsDrained
  <1> QED
    BY <1>1, <1>2, <1>3, PartsNext

LEMMA NextKeeps ==
  ASSUME Parts, Next
  PROVE  Parts'
  <1>1. ASSUME NEW r \in Runs, Begin(r) \/ WriterStep(r) PROVE Parts'
    BY <1>1, BeginKeeps, WriterChecksKeeps, WriterTimesOutKeeps, WriterGetsKeeps, WriterWritesKeeps,
       WriterWrittenKeeps, WriterBrokenPipeKeeps DEF WriterStep
  <1>2. ASSUME NEW r \in Runs, DogStep(r) PROVE Parts'
    <2>1. CASE DogSeesHealthy(r) \/ DogSeesDead(r) \/ DogOpens(r) \/ DogOpenFails(r)
               \/ DogInstalls(r) \/ DogAttaches(r)
      BY <2>1, DogSeesHealthyKeeps, DogSeesDeadKeeps, DogOpensKeeps, DogOpenFailsKeeps,
         DogInstallsKeeps, DogAttachesKeeps
    <2>2. CASE DogAborts(r) \/ DogChecks(r) \/ DogLooksAgain(r)
      BY <2>2, DogStopsKeeps, DogGoesOnKeeps
    <2> QED
      BY <1>2, <2>1, <2>2 DEF DogStep
  <1>3. CASE Stop \/ MainStep \/ MainChunk \/ MainLeavesLoop
    BY <1>3, StopKeeps, MainChunkKeeps, MainLeavesLoopKeeps, MainOpensKeeps, MainOpenFailsKeeps,
       MainPrimesKeeps, MainSpawnsKeeps, MainFlushesKeeps, MainDrainsKeeps, MainTakesKeeps,
       MainClosesKeeps, MainWaitsKeeps, MainJoinsKeeps DEF MainStep
  <1>4. ASSUME NEW p \in Procs, HelperDies(p) \/ HelperSticks(p) \/ HelperRecovers(p) PROVE Parts'
    BY <1>4, HelperDiesKeeps, HelperSticksKeeps, HelperRecoversKeeps
  <1> QED
    BY <1>1, <1>2, <1>3, <1>4 DEF Next

LEMMA PartsAlways == Spec => []Parts
  <1>1. Parts /\ [Next]_vars => Parts'
    BY NextKeeps, StutterKeeps
  <1> QED
    BY <1>1, InitParts, PTL DEF Spec

LEMMA PartsSuffice == Parts => PlaybackInv
  BY TypesAre, OwnedIsNoOrphan DEF Parts, PlaybackInv

\* No helper outlives its run unnoticed, a run has its writer as long as its
\* loop goes on, every live helper in use has its stderr drained, and nobody
\* writes to or installs a helper whose stdin the engine thread has closed,
\* however the threads of several runs overlap.
THEOREM PlaybackInvAlways == Spec => []PlaybackInv
  BY PartsAlways, PartsSuffice, PTL

-----------------------------------------------------------------------------
(* One run: what the watchdog replaces is dead.                            *)

\* From the look that finds the helper dead to the installation of the next
\* one, the helper in use is dead, if the loop has not ended.
DeadUntilReplaced ==
  \A r \in Runs : dog[r] \in {"open", "opened", "install"} /\ main = "loop" =>
    pacatProc \in Procs /\ proc[pacatProc] = "dead"

LEMMA DeadStays ==
  ASSUME \A r, s \in Runs : r = s, Parts, DeadUntilReplaced, [Next]_vars
  PROVE  DeadUntilReplaced'
  <1> USE NoProcAssumption DEF DeadUntilReplaced, mainVars, sharedVars, queueVars, procVars,
      writerVars, dogVars
  <1>1. MainTypes /\ ThreadTypes /\ ProcTypes
    BY DEF Parts
  <1>2. CASE UNCHANGED vars
    BY <1>2 DEF vars
  <1>3. ASSUME NEW r \in Runs, Begin(r) \/ WriterStep(r) PROVE DeadUntilReplaced'
    BY <1>3 DEF Begin, MainGoto, WriterStep, WriterChecks, WriterTimesOut, WriterGets, WriterWrites,
       WriterWritten, WriterBrokenPipe
  <1>4. ASSUME NEW r \in Runs, DogOpens(r) PROVE DeadUntilReplaced'
    <2>1. PICK p \in Procs : Spawns(p, <<"dog", r>>)
      BY <1>4 DEF DogOpens
    <2>2. p # pacatProc /\ \A x \in Procs \ {p} : proc'[x] = proc[x]
      BY <1>1, <2>1 DEF Spawns, Unreferenced, ProcTypes
    <2>3. dog[r] = "open" /\ UNCHANGED <<mainVars, sharedVars>> /\ \A s \in Runs : s = r
      BY <1>4 DEF DogOpens
    <2> QED
      BY <2>2, <2>3
  <1>5. ASSUME NEW r \in Runs, DogSeesDead(r) PROVE DeadUntilReplaced'
    BY <1>1, <1>5 DEF DogSeesDead, FoundDead, MainTypes
  <1>6. ASSUME NEW r \in Runs, DogInstalls(r) \/ DogAttaches(r) \/ DogOpenFails(r) \/ DogSeesHealthy(r)
        PROVE  DeadUntilReplaced'
    <2>1. dog'[r] \in {"attach", "check"} /\ \A s \in Runs : s = r
      BY <1>1, <1>6 DEF DogInstalls, DogAttaches, DogOpenFails, DogSeesHealthy, DogGoto, ThreadTypes
    <2> QED
      BY <2>1
  <1>7. ASSUME NEW r \in Runs, DogChecks(r) \/ DogLooksAgain(r) \/ DogAborts(r) PROVE DeadUntilReplaced'
    <2>1. /\ UNCHANGED <<main, pacatProc, proc>>
          /\ \/ dog'[r] \in {"none", "look"} \/ dog[r] = "opened"
      BY <1>1, <1>7 DEF DogChecks, DogLooksAgain, DogAborts, DogEnds, DogGoto, ThreadEnds, ThreadTypes
    <2> QED
      BY <2>1
  <1>8. CASE MainSpawns
    <2>1. dog'[run] = "check" /\ \A s \in Runs : s = run
      BY <1>1, <1>8 DEF MainSpawns, DogGoto, MainTypes, ThreadTypes
    <2> QED
      BY <2>1
  <1>9. CASE Stop \/ MainChunk
    BY <1>9 DEF Stop, MainChunk
  <1>10. CASE MainLeavesLoop \/ (MainStep /\ ~MainSpawns)
    <2>1. main' # "loop"
      BY <1>10 DEF MainLeavesLoop, MainStep, MainOpens, MainOpenFails, MainPrimes, MainFlushes,
         MainDrains, MainTakes, MainCloses, MainWaits, MainJoins, MainGoto
    <2> QED
      BY <2>1
  <1>11. ASSUME NEW p \in Procs, HelperDies(p) PROVE DeadUntilReplaced'
    BY <1>1, <1>11 DEF HelperDies, Dies, ProcTypes
  <1>12. ASSUME NEW p \in Procs, HelperSticks(p) \/ HelperRecovers(p) PROVE DeadUntilReplaced'
    BY <1>1, <1>12 DEF HelperSticks, HelperRecovers, ProcTypes
  <1> QED
    BY <1>2, <1>3, <1>4, <1>5, <1>6, <1>7, <1>8, <1>9, <1>10, <1>11, <1>12 DEF Next, DogStep

\* OnlyDeadReplaced: with one run at a time, a live helper in use is never
\* displaced by another, for any number of helpers and any cap on respawns.
THEOREM OnlyDeadReplacedAlways ==
  ASSUME \A r, s \in Runs : r = s
  PROVE  Spec => OnlyDeadReplaced
  <1>1. Init => DeadUntilReplaced
    BY DEF Init, DeadUntilReplaced
  <1>2. Parts /\ DeadUntilReplaced /\ [Next]_vars => DeadUntilReplaced'
    BY DeadStays
  <1> DEFINE Replaces == main = "loop" /\ pacatProc' # pacatProc => proc[pacatProc] = "dead"
  <1>3. Parts /\ DeadUntilReplaced /\ [Next]_vars => [Replaces]_vars
    <2> SUFFICES ASSUME Parts, DeadUntilReplaced, Next, main = "loop", pacatProc' # pacatProc
                 PROVE  proc[pacatProc] = "dead"
      BY DEF vars, sharedVars
    <2>1. ASSUME NEW r \in Runs, DogStep(r) PROVE proc[pacatProc] = "dead"
      <3>1. DogInstalls(r)
        BY <2>1 DEF DogStep, DogChecks, DogSeesHealthy, DogSeesDead, DogAborts, DogOpens,
           DogOpenFails, DogLooksAgain, DogAttaches, sharedVars
      <3> QED
        BY <3>1 DEF DogInstalls, DeadUntilReplaced
    <2>2. ASSUME NEW r \in Runs, Begin(r) \/ WriterStep(r) PROVE FALSE
      BY <2>2 DEF Begin, WriterStep, WriterChecks, WriterTimesOut, WriterGets, WriterWrites,
         WriterWritten, WriterBrokenPipe, sharedVars
    <2>3. ~(Stop \/ MainChunk \/ MainLeavesLoop)
      BY DEF Stop, MainChunk, MainLeavesLoop, sharedVars
    <2>4. ~MainStep
      BY <2>3 DEF MainStep, MainOpens, MainOpenFails, MainPrimes, MainSpawns, MainFlushes,
         MainDrains, MainTakes, MainCloses, MainWaits, MainJoins
    <2>5. ASSUME NEW p \in Procs, HelperDies(p) \/ HelperSticks(p) \/ HelperRecovers(p) PROVE FALSE
      BY <2>5 DEF HelperDies, HelperSticks, HelperRecovers, sharedVars
    <2> QED
      BY <2>1, <2>2, <2>3, <2>4, <2>5 DEF Next
  <1>4. OnlyDeadReplaced <=> [][Replaces]_vars
    BY DEF OnlyDeadReplaced
  <1> HIDE DEF Replaces
  <1> QED
    BY <1>1, <1>2, <1>3, <1>4, PartsAlways, PTL DEF Spec
=============================================================================
