---------------------------- MODULE StorageProofs ----------------------------
(***************************************************************************)
(* What requests hold is bounded, and with NullPool they never all wait    *)
(* for each other, for any set of requests, any threadpool and any pool of *)
(* connections.                                                            *)
(***************************************************************************)
EXTENDS Storage, FiniteSetTheorems, TLAPS

Pc == {"idle", "querying", "closing", "over"} \cup Queued \cup Running \cup Awaiting
Place == [pc : Pc, kind : Kind]

Typed == pool \in {"null", "queue"} /\ req \in [Request -> Place]

(* Who has what.  These are the parts of TypeOK beyond types, with the      *)
(* finiteness that counting needs; each has a lemma that says which moves   *)
(* of one request keep it.                                                  *)
Holding == Pc \ {"idle", "arrived", "to decide", "over"}

ThreadsAreRight ==
    /\ IsFiniteSet(threads)
    /\ threads = {r \in Request : req[r].pc \in Running}
    /\ Cardinality(threads) <= Threads

ConnsAreRight ==
    /\ IsFiniteSet(conns)
    /\ conns \subseteq {r \in Request : req[r].pc \in Holding}
    /\ pool = "queue" => Cardinality(conns) <= PoolSize

WriterIsRight ==
    /\ writer \in Request \cup {Nobody}
    /\ writer # Nobody => req[writer].pc = "committing" /\ writer \in conns

LoopIsRight == {r \in Request : req[r].pc = "querying"} = {loop} \ {Nobody}

Resources == Typed /\ ThreadsAreRight /\ ConnsAreRight /\ WriterIsRight /\ LoopIsRight

LEMMA ResourcesAreTyped == Resources => TypeOK
  BY DEF Resources, Typed, Place, Pc, Holding, ThreadsAreRight, ConnsAreRight,
         WriterIsRight, LoopIsRight, TypeOK

LEMMA InitResources == Init => Resources
<1> SUFFICES ASSUME Init PROVE Resources
  OBVIOUS
<1>1. Typed
  <2>1. "idle" \in Pc /\ "regular" \in Kind
    BY DEF Pc, Kind
  <2>. QED
    BY <2>1 DEF Init, Typed, Place
<1>2. \A r \in Request : req[r].pc = "idle"
  BY DEF Init
<1>3. threads = {} /\ conns = {} /\ writer = Nobody /\ loop = Nobody
  BY DEF Init
<1>4. ThreadsAreRight /\ ConnsAreRight
  <2>1. IsFiniteSet({}) /\ Cardinality({}) = 0 /\ 0 <= Threads /\ 0 <= PoolSize
    BY FS_EmptySet, StorageAssumption
  <2>2. {r \in Request : req[r].pc \in Running} = {}
    BY <1>2 DEF Running
  <2>. QED
    BY <1>3, <2>1, <2>2 DEF ThreadsAreRight, ConnsAreRight
<1>5. WriterIsRight /\ LoopIsRight
  BY <1>2, <1>3 DEF WriterIsRight, LoopIsRight
<1>. QED
  BY <1>1, <1>4, <1>5 DEF Resources

(* Counting, one more and one less.                                         *)
LEMMA OneMore ==
  ASSUME NEW S, NEW x, IsFiniteSet(S)
  PROVE  /\ Cardinality(S) \in Nat
         /\ IsFiniteSet(S \cup {x})
         /\ x \in S => Cardinality(S \cup {x}) = Cardinality(S)
         /\ Cardinality(S \cup {x}) <= Cardinality(S) + 1
<1>1. Cardinality(S) \in Nat
  BY FS_CardinalityType
<1>2. /\ IsFiniteSet(S \cup {x})
      /\ Cardinality(S \cup {x}) = IF x \in S THEN Cardinality(S) ELSE Cardinality(S) + 1
  BY FS_AddElement
<1>. QED
  BY <1>1, <1>2

LEMMA OneLess ==
  ASSUME NEW S, NEW x, IsFiniteSet(S)
  PROVE  IsFiniteSet(S \ {x}) /\ Cardinality(S \ {x}) <= Cardinality(S)
<1>1. Cardinality(S) \in Nat
  BY FS_CardinalityType
<1>2. /\ IsFiniteSet(S \ {x})
      /\ Cardinality(S \ {x}) = IF x \in S THEN Cardinality(S) - 1 ELSE Cardinality(S)
  BY FS_RemoveElement
<1>. QED
  BY <1>1, <1>2

(* A request moves, alone.                                                  *)
Alone(r) ==
    /\ req' \in [Request -> Place] /\ pool' = pool
    /\ \A q \in Request \ {r} : req'[q] = req[q]

LEMMA ThreadsStep ==
  ASSUME ThreadsAreRight, NEW r \in Request, Alone(r),
         \/ threads' = threads /\ (req[r].pc \in Running <=> req'[r].pc \in Running)
         \/ /\ threads' = threads \cup {r} /\ Cardinality(threads) < Threads
            /\ req'[r].pc \in Running
         \/ threads' = threads \ {r} /\ req'[r].pc \notin Running
  PROVE  ThreadsAreRight'
<1>1. IsFiniteSet(threads) /\ Cardinality(threads) <= Threads /\ Threads \in Nat
  BY StorageAssumption DEF ThreadsAreRight
<1>2. IsFiniteSet(threads') /\ Cardinality(threads') <= Threads
  <2>1. /\ Cardinality(threads) \in Nat
        /\ IsFiniteSet(threads \cup {r})
        /\ Cardinality(threads \cup {r}) <= Cardinality(threads) + 1
    BY <1>1, OneMore
  <2>2. Cardinality(threads \cup {r}) \in Nat /\ Cardinality(threads \ {r}) \in Nat
    BY <1>1, <2>1, OneLess, FS_CardinalityType
  <2>3. /\ IsFiniteSet(threads \ {r})
        /\ Cardinality(threads \ {r}) <= Cardinality(threads)
    BY <1>1, OneLess
  <2>. QED
    BY <1>1, <2>1, <2>2, <2>3
<1>3. threads' = {q \in Request : req'[q].pc \in Running}
  BY DEF ThreadsAreRight, Alone
<1>. QED
  BY <1>2, <1>3 DEF ThreadsAreRight

LEMMA ConnsStep ==
  ASSUME ConnsAreRight, NEW r \in Request, Alone(r),
         \/ conns' = conns /\ (r \in conns => req'[r].pc \in Holding)
         \/ conns' = conns \cup {r} /\ HasConnection(r) /\ req'[r].pc \in Holding
         \/ conns' = conns \ {r}
  PROVE  ConnsAreRight'
<1>1. IsFiniteSet(conns) /\ (pool = "queue" => Cardinality(conns) <= PoolSize)
  BY DEF ConnsAreRight
<1>2. IsFiniteSet(conns') /\ (pool = "queue" => Cardinality(conns') <= PoolSize)
  <2>1. /\ Cardinality(conns) \in Nat /\ PoolSize \in Nat
        /\ IsFiniteSet(conns \cup {r})
        /\ r \in conns => Cardinality(conns \cup {r}) = Cardinality(conns)
        /\ Cardinality(conns \cup {r}) <= Cardinality(conns) + 1
    BY <1>1, OneMore, StorageAssumption
  <2>2. /\ IsFiniteSet(conns \ {r})
        /\ Cardinality(conns \ {r}) <= Cardinality(conns)
    BY <1>1, OneLess
  <2>3. Cardinality(conns \cup {r}) \in Nat /\ Cardinality(conns \ {r}) \in Nat
    BY <2>1, <2>2, FS_CardinalityType
  <2>4. CASE conns' = conns
    BY <1>1, <2>4
  <2>5. CASE conns' = conns \cup {r} /\ HasConnection(r)
    BY <1>1, <2>1, <2>3, <2>5 DEF HasConnection, Available
  <2>6. CASE conns' = conns \ {r}
    BY <1>1, <2>1, <2>2, <2>3, <2>6
  <2>. QED
    BY <2>4, <2>5, <2>6
<1>3. conns' \subseteq {q \in Request : req'[q].pc \in Holding}
  BY DEF ConnsAreRight, Alone
<1>. QED
  BY <1>2, <1>3 DEF ConnsAreRight, Alone

(* The writer moves only when it commits.                                   *)
LEMMA WriterStep ==
  ASSUME WriterIsRight, NEW r \in Request, Alone(r), conns \ {r} \subseteq conns',
         \/ writer' = writer /\ (req[r].pc = "committing" => writer # r)
         \/ writer' = r /\ req'[r].pc = "committing" /\ r \in conns'
         \/ writer' = (IF writer = r THEN Nobody ELSE writer)
  PROVE  WriterIsRight'
  BY StorageAssumption DEF WriterIsRight, Alone

LEMMA LoopStep ==
  ASSUME LoopIsRight, NEW r \in Request, Alone(r),
         \/ loop' = loop /\ (req[r].pc = "querying" <=> req'[r].pc = "querying")
         \/ loop = Nobody /\ loop' = r /\ req'[r].pc = "querying"
         \/ loop = r /\ loop' = Nobody /\ req'[r].pc # "querying"
  PROVE  LoopIsRight'
  BY StorageAssumption DEF LoopIsRight, Alone

LEMMA ResourcesStep ==
  ASSUME Resources, NEW r \in Request, Alone(r),
         ThreadsAreRight', ConnsAreRight', WriterIsRight', LoopIsRight'
  PROVE  Resources'
  BY DEF Resources, Typed, Alone

LEMMA ToIsAlone ==
  ASSUME Resources, NEW r \in Request, NEW pc \in Pc, To(r, pc), pool' = pool
  PROVE  Alone(r) /\ req'[r].pc = pc
  BY DEF Resources, Typed, To, Alone, Place

LEMMA ClosesIsAlone ==
  ASSUME Resources, NEW r \in Request, Closes(r), pool' = pool
  PROVE  Alone(r) /\ req'[r].pc = "closing"
<1>1. "closing" \in Pc
  BY DEF Pc
<1>. QED
  BY <1>1, ToIsAlone DEF Closes

(* Moves that leave threads, writer and loop alone, and do not matter to    *)
(* them.                                                                    *)
LEMMA ConnsOnly ==
  ASSUME Resources, NEW r \in Request, Alone(r),
         UNCHANGED <<threads, writer, loop>>,
         req[r].pc \in Running <=> req'[r].pc \in Running,
         req[r].pc \notin {"querying", "committing"}, req'[r].pc # "querying",
         \/ conns' = conns /\ (r \in conns => req'[r].pc \in Holding)
         \/ conns' = conns \cup {r} /\ HasConnection(r) /\ req'[r].pc \in Holding
         \/ conns' = conns \ {r}
  PROVE  Resources'
<1>1. ThreadsAreRight /\ ConnsAreRight /\ WriterIsRight /\ LoopIsRight
  BY DEF Resources, Typed
<1>2. ThreadsAreRight' /\ ConnsAreRight'
  BY <1>1, ThreadsStep, ConnsStep
<1>3. WriterIsRight' /\ LoopIsRight'
  BY <1>1, WriterStep, LoopStep
<1>. QED
  BY <1>1, <1>2, <1>3, ResourcesStep

(* A job that leaves its thread.                                            *)
LEMMA ThreadAndConns ==
  ASSUME Resources, NEW r \in Request, Alone(r), UNCHANGED <<writer, loop>>,
         threads' = threads \ {r}, req'[r].pc \notin Running \cup {"querying"},
         req[r].pc \notin {"querying", "committing"},
         \/ conns' = conns /\ (r \in conns => req'[r].pc \in Holding)
         \/ conns' = conns \cup {r} /\ HasConnection(r) /\ req'[r].pc \in Holding
  PROVE  Resources'
<1>1. ThreadsAreRight /\ ConnsAreRight /\ WriterIsRight /\ LoopIsRight
  BY DEF Resources, Typed
<1>2. ThreadsAreRight' /\ ConnsAreRight'
  BY <1>1, ThreadsStep, ConnsStep
<1>3. WriterIsRight' /\ LoopIsRight'
  BY <1>1, WriterStep, LoopStep
<1>. QED
  BY <1>1, <1>2, <1>3, ResourcesStep

LEMMA ReadsKeepsResources ==
  ASSUME Resources, NEW r \in Request, NEW doing \in Running \ {"committing"},
         NEW done \in Awaiting \ {"arrived"}, Reads(r, doing, done)
  PROVE  Resources'
<1>1. done \in Pc /\ done \in Holding /\ done \notin Running \cup {"querying"}
  BY DEF Pc, Holding, Running, Awaiting
<1>2. Alone(r) /\ req'[r].pc = done
  BY <1>1, ToIsAlone DEF Reads
<1>3. /\ req[r].pc \notin {"querying", "committing"}
      /\ threads' = threads \ {r} /\ UNCHANGED <<writer, loop>>
      /\ conns' = conns \cup {r} /\ HasConnection(r)
  BY DEF Reads, Running
<1>. QED
  BY <1>1, <1>2, <1>3, ThreadAndConns

LEMMA StepKeepsResources == Resources /\ [Next]_vars => Resources'
<1> SUFFICES ASSUME Resources, [Next]_vars PROVE Resources'
  OBVIOUS
<1>0. /\ Typed /\ ThreadsAreRight /\ ConnsAreRight /\ WriterIsRight /\ LoopIsRight
     
  BY DEF Resources, Typed
<1> USE DEF Pc, Queued, Running, Awaiting, Holding
<1>1. ASSUME NEW r \in Request, Arrive(r) PROVE Resources'
  <2>1. PICK k \in Kind : req' = [req EXCEPT ![r].pc = "arrived", ![r].kind = k]
    BY <1>1 DEF Arrive
  <2>2. Alone(r) /\ req'[r].pc = "arrived"
    BY <1>0, <1>1, <2>1 DEF Arrive, Alone, Typed, Place
  <2>3. r \notin conns
    BY <1>0, <1>1 DEF Arrive, ConnsAreRight
  <2>. QED
    BY <1>1, <2>2, <2>3, ConnsOnly DEF Arrive
<1>2. ASSUME NEW r \in Request, Handle(r) PROVE Resources'
  <2>1. r \notin conns
    BY <1>0, <1>2 DEF Handle, ConnsAreRight
  <2>2. CASE req[r].kind # "admin"
    <3>1. Alone(r) /\ req'[r].pc = "to decide"
      BY <1>2, <2>2, ToIsAlone DEF Handle
    <3>. QED
      BY <1>2, <2>1, <2>2, <3>1, ConnsOnly DEF Handle
  <2>3. CASE req[r].kind = "admin"
    <3>1. Alone(r) /\ req'[r].pc = "querying"
      BY <1>2, <2>3, ToIsAlone DEF Handle
    <3>2. /\ req[r].pc = "arrived" /\ loop = Nobody /\ loop' = r
          /\ UNCHANGED <<threads, conns, writer>>
      BY <1>2, <2>3 DEF Handle, LoopFree
    <3>3. ThreadsAreRight' /\ ConnsAreRight'
      BY <1>0, <2>1, <3>1, <3>2, ThreadsStep, ConnsStep
    <3>4. WriterIsRight' /\ LoopIsRight'
      BY <1>0, <3>1, <3>2, WriterStep, LoopStep
    <3>. QED
      BY <1>0, <3>1, <3>2, <3>3, <3>4, ResourcesStep
  <2>. QED
    BY <2>2, <2>3
<1>3. ASSUME NEW r \in Request, Query(r) PROVE Resources'
  <2>1. Alone(r) /\ req'[r].pc = "closing"
    BY <1>3, ClosesIsAlone DEF Query
  <2>2. /\ req[r].pc = "querying" /\ HasConnection(r) /\ loop' = Nobody
        /\ conns' = conns \cup {r} /\ UNCHANGED <<threads, writer>>
    BY <1>3 DEF Query
  <2>3. loop = r
    BY <1>0, <2>2 DEF LoopIsRight
  <2>4. ThreadsAreRight' /\ ConnsAreRight'
    BY <1>0, <2>1, <2>2, ThreadsStep, ConnsStep
  <2>5. WriterIsRight' /\ LoopIsRight'
    BY <1>0, <2>1, <2>2, <2>3, WriterStep, LoopStep
  <2>. QED
    BY <1>0, <2>1, <2>2, <2>4, <2>5, ResourcesStep
<1>4. ASSUME NEW r \in Request, JobStarts(r) PROVE Resources'
  <2>1. JobOf(req[r].pc) \in {"deciding", "inserting", "reading spend"}
    BY <1>4, Zenon DEF JobStarts, JobOf
  <2>2. Alone(r) /\ req'[r].pc \in {"deciding", "inserting", "reading spend"}
    BY <1>4, <2>1, ToIsAlone DEF JobStarts
  <2>3. /\ req[r].pc \in Queued /\ Cardinality(threads) < Threads
        /\ threads' = threads \cup {r} /\ UNCHANGED <<conns, writer, loop>>
    BY <1>4 DEF JobStarts
  <2>4. ThreadsAreRight' /\ ConnsAreRight'
    BY <1>0, <2>2, <2>3, ThreadsStep, ConnsStep
  <2>5. WriterIsRight' /\ LoopIsRight'
    BY <1>0, <2>2, <2>3, WriterStep, LoopStep
  <2>. QED
    BY <1>0, <2>2, <2>3, <2>4, <2>5, ResourcesStep
<1>5. ASSUME NEW r \in Request, Decide(r) PROVE Resources'
  BY <1>5, ReadsKeepsResources DEF Decide
<1>6. ASSUME NEW r \in Request, ReadSpend(r) PROVE Resources'
  BY <1>6, ReadsKeepsResources DEF ReadSpend
<1>7. ASSUME NEW r \in Request, Refresh(r) PROVE Resources'
  BY <1>7, ReadsKeepsResources DEF Refresh
<1>8. ASSUME NEW r \in Request, Routed(r) PROVE Resources'
  <2>1. Alone(r) /\ req'[r].pc \in {"to log", "calling", "closing"}
    BY <1>8, ToIsAlone, ClosesIsAlone DEF Routed
  <2>2. /\ req[r].pc = "decided" /\ UNCHANGED <<threads, writer, loop>>
        /\ conns' = conns \/ conns' = conns \ {r}
    BY <1>8 DEF Routed
  <2>. QED
    BY <2>1, <2>2, ConnsOnly
<1>9. ASSUME NEW r \in Request, Answered(r) PROVE Resources'
  <2>1. Alone(r) /\ req'[r].pc \in {"to log", "closing"}
    BY <1>9, ToIsAlone, ClosesIsAlone DEF Answered
  <2>. QED
    BY <1>9, <2>1, ConnsOnly DEF Answered
<1>10. ASSUME NEW r \in Request, Insert(r) PROVE Resources'
  <2>1. Alone(r) /\ req'[r].pc = "committing"
    BY <1>10, ToIsAlone DEF Insert
  <2>2. /\ req[r].pc = "inserting" /\ HasConnection(r) /\ conns' = conns \cup {r}
        /\ UNCHANGED <<threads, loop>>
        /\ writer' = r \/ writer' = writer
    BY <1>10 DEF Insert
  <2>3. ThreadsAreRight' /\ ConnsAreRight'
    BY <1>0, <2>1, <2>2, ThreadsStep, ConnsStep
  <2>4. WriterIsRight' /\ LoopIsRight'
    BY <1>0, <2>1, <2>2, WriterStep, LoopStep
  <2>. QED
    BY <1>0, <2>1, <2>2, <2>3, <2>4, ResourcesStep
<1>11. ASSUME NEW r \in Request, Commit(r) PROVE Resources'
  <2>1. Alone(r) /\ req'[r].pc = "refreshing"
    BY <1>11, ToIsAlone DEF Commit
  <2>2. /\ req[r].pc = "committing" /\ conns' = conns \ {r}
        /\ UNCHANGED <<threads, loop>> /\ writer' = IF writer = r THEN Nobody ELSE writer
    BY <1>11 DEF Commit
  <2>3. ThreadsAreRight' /\ ConnsAreRight'
    BY <1>0, <2>1, <2>2, ThreadsStep, ConnsStep
  <2>4. WriterIsRight' /\ LoopIsRight'
    BY <1>0, <2>1, <2>2, WriterStep, LoopStep
  <2>. QED
    BY <1>0, <2>1, <2>2, <2>3, <2>4, ResourcesStep
<1>12. ASSUME NEW r \in Request, AfterLog(r) PROVE Resources'
  <2>1. Alone(r) /\ req'[r].pc \in {"to read spend", "closing"}
    BY <1>12, ToIsAlone, ClosesIsAlone DEF AfterLog
  <2>. QED
    BY <1>12, <2>1, ConnsOnly DEF AfterLog
<1>13. ASSUME NEW r \in Request, Reply(r) PROVE Resources'
  <2>1. Alone(r) /\ req'[r].pc = "closing"
    BY <1>13, ClosesIsAlone DEF Reply
  <2>. QED
    BY <1>13, <2>1, ConnsOnly DEF Reply
<1>14. ASSUME NEW r \in Request, Disconnect(r) PROVE Resources'
  <2>1. Alone(r) /\ req'[r].pc = "closing"
    BY <1>14, ClosesIsAlone DEF Disconnect
  <2>. QED
    BY <1>14, <2>1, ConnsOnly DEF Disconnect
<1>15. ASSUME NEW r \in Request, DatabaseFails(r) PROVE Resources'
  <2>1. Alone(r) /\ req'[r].pc = "closing"
    BY <1>15, ToIsAlone DEF DatabaseFails, AfterError
  <2>2. /\ req[r].pc \in Running \cup {"querying"}
        /\ threads' = threads \ {r} /\ loop' = (IF loop = r THEN Nobody ELSE loop)
        /\ writer' = (IF writer = r THEN Nobody ELSE writer)
        /\ \/ conns' = conns
           \/ conns' = conns \ {r}
           \/ conns' = conns \cup {r} /\ HasConnection(r)
    BY <1>15 DEF DatabaseFails
  <2>3. loop = r <=> req[r].pc = "querying"
    BY <1>0, StorageAssumption DEF LoopIsRight
  <2>4. ThreadsAreRight' /\ ConnsAreRight'
    BY <1>0, <2>1, <2>2, ThreadsStep, ConnsStep
  <2>5. WriterIsRight' /\ LoopIsRight'
    BY <1>0, <2>1, <2>2, <2>3, WriterStep, LoopStep
  <2>. QED
    BY <1>0, <2>1, <2>2, <2>4, <2>5, ResourcesStep
<1>16. ASSUME NEW r \in Request, Close(r) PROVE Resources'
  <2>1. Alone(r) /\ req'[r].pc = "over"
    BY <1>16, ToIsAlone DEF Close
  <2>. QED
    BY <1>16, <2>1, ConnsOnly DEF Close
<1>17. CASE UNCHANGED vars
  BY <1>17 DEF vars, Resources, Typed, ThreadsAreRight, ConnsAreRight, WriterIsRight,
               LoopIsRight
<1>. QED
  BY <1>1, <1>2, <1>3, <1>4, <1>5, <1>6, <1>7, <1>8, <1>9, <1>10, <1>11, <1>12, <1>13,
     <1>14, <1>15, <1>16, <1>17 DEF Next, Job, Handler

LEMMA ResourcesHold == Spec => []Resources
  BY InitResources, StepKeepsResources, PTL DEF Spec

(* With NullPool only an INSERT waits, for the one that has the write lock; *)
(* that one has a thread, and its COMMIT waits for nobody.                  *)
LEMMA WriterNeverWaits == Resources => NobodyBlocksEverybody
<1> SUFFICES ASSUME Resources, pool = "null"
             PROVE  /\ loop # Nobody => ~Waits(loop)
                    /\ threads # {} => \E r \in threads : ~Waits(r)
  BY DEF NobodyBlocksEverybody
<1>1. ASSUME NEW r, Waits(r) PROVE req[r].pc = "inserting" /\ writer # Nobody
  BY <1>1 DEF Waits, HasConnection, Available
<1>2. writer # Nobody => writer \in threads /\ ~Waits(writer)
  BY <1>1 DEF Resources, WriterIsRight, ThreadsAreRight, Running
<1>3. loop # Nobody => req[loop].pc = "querying"
  BY StorageAssumption DEF Resources, LoopIsRight
<1>. QED
  BY <1>1, <1>2, <1>3

(* Threads and connections are never handed out beyond their number, and    *)
(* none is kept by a request that is over; the write lock and the event     *)
(* loop have at most one holder, which is where it says it is (TypeOK).     *)
THEOREM ResourcesAreBounded == Spec => []TypeOK
  BY ResourcesHold, ResourcesAreTyped, PTL

(* With NullPool the event loop never waits for a connection, and of the    *)
(* jobs that have the threads there is always one that does not wait, so    *)
(* that no timeout is needed to go on (db.py:30-34).                        *)
THEOREM NullPoolNeverBlocks == Spec => []NobodyBlocksEverybody
  BY ResourcesHold, WriterNeverWaits, PTL
==============================================================================
