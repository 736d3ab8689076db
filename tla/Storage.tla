------------------------------- MODULE Storage -------------------------------
(***************************************************************************)
(* What requests wait for when they use the database: connections, threads *)
(* and the event loop (src/app/storage/db.py, src/app/main.py).            *)
(*                                                                         *)
(* A request has one session.  The session takes a connection with its     *)
(* first query and gives it back with commit and close, so a chat request  *)
(* holds the connection of its route decision while the provider works.    *)
(* Queries of chat requests run as jobs in the threadpool, those of admin  *)
(* requests on the event loop, which serves nobody else meanwhile.         *)
(*                                                                         *)
(* What the queries read and write, who is answered and who is charged is  *)
(* Gateway.tla; here it is only what is held and waited for.  Every        *)
(* request happens once.                                                   *)
(***************************************************************************)
EXTENDS Integers, FiniteSets

CONSTANTS Request,      \* the requests there will be
          Threads,      \* 40: the tokens of the threadpool
          PoolSize,     \* 15: the connections of a QueuePool
          Nobody        \* not a request

ASSUME StorageAssumption ==
    Threads \in Nat \ {0} /\ PoolSize \in Nat \ {0} /\ Nobody \notin Request

VARIABLES pool,     \* "null" for a database in an SQLite file, "queue" for others
          req,      \* where every request is
          threads,  \* the requests whose jobs have a thread
          conns,    \* the requests whose sessions have a connection
          writer,   \* the request whose transaction has SQLite's write lock
          loop      \* the request whose queries keep the event loop

vars == <<pool, req, threads, conns, writer, loop>>

Kind == {"regular", "stream", "admin"}

(* Jobs: queued for a thread, and running in it.                            *)
Queued == {"to decide", "to log", "to read spend"}
Running == {"deciding", "inserting", "committing", "refreshing", "reading spend"}

(* Between them: waiting for the event loop, or for a provider.             *)
Awaiting == {"arrived", "decided", "calling", "logged", "spend read"}

TypeOK ==
    /\ pool \in {"null", "queue"}
    /\ req \in [Request ->
                  [pc : {"idle", "querying", "closing", "over"} \cup Queued \cup Running \cup Awaiting,
                   kind : Kind]]
    /\ threads = {r \in Request : req[r].pc \in Running}
    /\ Cardinality(threads) <= Threads
    /\ conns \subseteq {r \in Request : req[r].pc \notin {"idle", "arrived", "to decide", "over"}}
    /\ pool = "queue" => Cardinality(conns) <= PoolSize
    /\ writer \in Request \cup {Nobody}
    /\ writer # Nobody => req[writer].pc = "committing" /\ writer \in conns
    /\ {r \in Request : req[r].pc = "querying"} = {loop} \ {Nobody}

Init ==
    /\ pool \in {"null", "queue"}
    /\ req = [r \in Request |-> [pc |-> "idle", kind |-> "regular"]]
    /\ threads = {} /\ conns = {}
    /\ writer = Nobody /\ loop = Nobody

------------------------------------------------------------------------------
(* Mutants: plausible slips in db.py and main.py.                           *)

AlwaysPooled == Cardinality(conns) < PoolSize
WaitsForEver(r) == FALSE
WithoutFinally == "over"

------------------------------------------------------------------------------
(* NullPool opens a connection for whoever asks; QueuePool has PoolSize.    *)
Available == pool = "null" \/ Cardinality(conns) < PoolSize

HasConnection(r) == r \in conns \/ Available
LoopFree == loop = Nobody

To(r, pc) == req' = [req EXCEPT ![r].pc = pc]
Closes(r) == To(r, "closing")

(* A request arrives.  That its session is made is a job, too.              *)
Arrive(r) ==
    /\ req[r].pc = "idle" /\ LoopFree
    /\ Cardinality(threads) < Threads
    /\ \E k \in Kind : req' = [req EXCEPT ![r].pc = "arrived", ![r].kind = k]
    /\ UNCHANGED <<pool, threads, conns, writer, loop>>

(* Its handler starts: to the route decision, or to the reports.            *)
Handle(r) ==
    /\ req[r].pc = "arrived" /\ LoopFree
    /\ IF req[r].kind = "admin" THEN To(r, "querying") /\ loop' = r
       ELSE To(r, "to decide") /\ UNCHANGED loop
    /\ UNCHANGED <<pool, threads, conns, writer>>

(* get_recent_requests, get_cost_breakdown and the spend totals, on the     *)
(* event loop.                                                              *)
Query(r) ==
    /\ req[r].pc = "querying" /\ HasConnection(r)
    /\ Closes(r)
    /\ conns' = conns \cup {r} /\ loop' = Nobody
    /\ UNCHANGED <<pool, threads, writer>>

JobOf(pc) ==
    CASE pc = "to decide" -> "deciding" [] pc = "to log" -> "inserting"
      [] pc = "to read spend" -> "reading spend"

(* A queued job gets a thread, which the event loop hands out.              *)
JobStarts(r) ==
    /\ req[r].pc \in Queued /\ LoopFree /\ Cardinality(threads) < Threads
    /\ To(r, JobOf(req[r].pc))
    /\ threads' = threads \cup {r}
    /\ UNCHANGED <<pool, conns, writer, loop>>

(* decide_route and get_daily_spend read; the connection is kept.           *)
Reads(r, doing, done) ==
    /\ req[r].pc = doing /\ HasConnection(r)
    /\ To(r, done)
    /\ conns' = conns \cup {r} /\ threads' = threads \ {r}
    /\ UNCHANGED <<pool, writer, loop>>

Decide(r) == Reads(r, "deciding", "decided")
ReadSpend(r) == Reads(r, "reading spend", "spend read")

(* The handler goes on with the cached answer, with the provider's, or not  *)
(* at all: Budget exceeded.  For a stream the dependencies may be closed    *)
(* first; FastAPI did so in some versions.                                  *)
Routed(r) ==
    /\ req[r].pc = "decided" /\ LoopFree
    /\ \/ To(r, "to log") \/ To(r, "calling") \/ Closes(r)
    /\ \/ UNCHANGED conns
       \/ req[r].kind = "stream" /\ req'[r].pc # "closing" /\ conns' = conns \ {r}
    /\ UNCHANGED <<pool, threads, writer, loop>>

(* A provider answers, be it with a stream that breaks off after a while:   *)
(* that is logged.  Or all fail, and nothing is.                            *)
Answered(r) ==
    /\ req[r].pc = "calling" /\ LoopFree
    /\ To(r, "to log") \/ Closes(r)
    /\ UNCHANGED <<pool, threads, conns, writer, loop>>

(* log_request: the INSERT of the commit begins a transaction and gets      *)
(* SQLite's write lock.                                                     *)
Insert(r) ==
    /\ req[r].pc = "inserting" /\ HasConnection(r)
    /\ pool = "null" => writer = Nobody
    /\ To(r, "committing")
    /\ conns' = conns \cup {r}
    /\ writer' = IF pool = "null" THEN r ELSE writer
    /\ UNCHANGED <<pool, threads, loop>>

(* The COMMIT; the session gives its connection back.                       *)
Commit(r) ==
    /\ req[r].pc = "committing"
    /\ To(r, "refreshing")
    /\ conns' = conns \ {r}
    /\ writer' = IF writer = r THEN Nobody ELSE writer
    /\ UNCHANGED <<pool, threads, loop>>

(* refresh reads the row back, with a connection of its own.                *)
Refresh(r) == Reads(r, "refreshing", "logged")

(* Then a regular request reads the spend for the gauge, a stream is done.  *)
AfterLog(r) ==
    /\ req[r].pc = "logged" /\ LoopFree
    /\ IF req[r].kind = "regular" THEN To(r, "to read spend") ELSE Closes(r)
    /\ UNCHANGED <<pool, threads, conns, writer, loop>>

Reply(r) ==
    /\ req[r].pc = "spend read" /\ LoopFree
    /\ Closes(r)
    /\ UNCHANGED <<pool, threads, conns, writer, loop>>

(* The client of a stream is gone: the stream is cancelled where it waits,  *)
(* but not a job that has a thread.                                         *)
Disconnect(r) ==
    /\ req[r].kind = "stream" /\ req[r].pc \in {"calling", "to log", "logged"} /\ LoopFree
    /\ Closes(r)
    /\ UNCHANGED <<pool, threads, conns, writer, loop>>

(* get_db closes the session after an error, too: in a finally.             *)
AfterError == "closing"

(* A query fails, before its request has a connection or after.  Its        *)
(* transaction is rolled back; a failed flush gives the connection back.    *)
(* The request ends with an error, or its stream where it is.               *)
DatabaseFails(r) ==
    /\ req[r].pc \in Running \cup {"querying"}
    /\ To(r, AfterError)
    /\ conns' \in {conns, conns \ {r}} \cup (IF HasConnection(r) THEN {conns \cup {r}} ELSE {})
    /\ threads' = threads \ {r}
    /\ writer' = IF writer = r THEN Nobody ELSE writer
    /\ loop' = IF loop = r THEN Nobody ELSE loop
    /\ UNCHANGED pool

(* QueuePool gives up after 30 seconds, SQLite's busy timeout after 15.     *)
Waits(r) ==
    \/ /\ req[r].pc \in {"querying", "deciding", "inserting", "refreshing", "reading spend"}
       /\ ~HasConnection(r)
    \/ req[r].pc = "inserting" /\ pool = "null" /\ writer # Nobody
MayTimeOut(r) == Waits(r)

TimeOut(r) == MayTimeOut(r) /\ DatabaseFails(r)

(* get_db closes the session; a thread for that is always there.  (One that *)
(* is used after get_db closed it is collected with its request.)           *)
Close(r) ==
    /\ req[r].pc = "closing" /\ LoopFree
    /\ To(r, "over")
    /\ conns' = conns \ {r}
    /\ UNCHANGED <<pool, threads, writer, loop>>

Job(r) == JobStarts(r) \/ Decide(r) \/ Insert(r) \/ Commit(r) \/ Refresh(r) \/ ReadSpend(r)
Handler(r) ==
    Handle(r) \/ Query(r) \/ Routed(r) \/ Answered(r) \/ AfterLog(r) \/ Reply(r) \/ Close(r)

Next == \E r \in Request : Arrive(r) \/ Job(r) \/ Handler(r) \/ DatabaseFails(r) \/ Disconnect(r)

Spec == Init /\ [][Next]_vars

(* Jobs get a thread in the order they come, the loop serves everybody, the *)
(* providers answer or fail (Fallback.tla), and whoever waits for the       *)
(* database times out.                                                      *)
LiveSpec == Spec /\ \A r \in Request : WF_vars(Job(r) \/ Handler(r)) /\ WF_vars(TimeOut(r))

------------------------------------------------------------------------------
Over(r) == req[r].pc = "over"

(* db.py:30-34: with a pool of 15, "the event loop ends up waiting on       *)
(* connections that only blocked requests can release", hence NullPool.     *)
(* With it the event loop waits for nobody, and among the jobs that have    *)
(* the threads there is always one that waits for nobody: no request waits  *)
(* for one that waits for it.                                               *)
NobodyBlocksEverybody ==
    pool = "null" =>
        /\ loop # Nobody => ~Waits(loop)
        /\ threads # {} => \E r \in threads : ~Waits(r)

(* Whatever the pool, requests do not wait for each other for ever: those   *)
(* with a connection for threads, those with a thread for connections, all  *)
(* for the event loop and an admin request on it for a connection.          *)
RequestsEnd == \A r \in Request : req[r].pc = "arrived" ~> Over(r)
==============================================================================
