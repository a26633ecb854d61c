------------------------------ MODULE Threads ------------------------------
(***************************************************************************)
(* src/thread.c: fire-and-forget threads.  CS_threadStart runs in a caller *)
(* (takes a record from threadSlabs, creates and detaches the pthread, puts*)
(* the record on trackedThreads); threadDriver runs in the new thread and, *)
(* when the cycle function is done, takes the record off trackedThreads and*)
(* returns it to the slab, where the next start may find it.               *)
(*                                                                         *)
(* A record is named by its slot; what happens inside the slab allocator   *)
(* and the list is SlabAlloc's business and one step here, as both lists   *)
(* are touched only under threadMutex.  The cycle function is the          *)
(* program's: it answers true or false as it likes.  The record's name,    *)
(* context and (unused) mutex are left out.                                *)
(***************************************************************************)
EXTENDS Integers, FiniteSets, Sequences

CONSTANTS Callers,     (* threads that call CS_threadStart and CS_threadStop *)
          Slot,        (* records the slab has room for                      *)
          NoSlot,      (* no record                                          *)
          MaxTracked   (* bound on the entries of one record                 *)

ASSUME ThreadsAssumption ==
  /\ NoSlot \notin Slot
  /\ MaxTracked \in Nat \ {0}

VARIABLES
  used,      (* records taken from threadSlabs                              *)
  state,     (* threadStateEnum of each record                              *)
  kill,      (* killThread of each record                                   *)
  driver,    (* where the driver of each record is; "none": no pthread      *)
  called,    (* the calls of the cycle function by the driver of each       *)
             (* record: the state passed, and "true" if START or RUNNING    *)
             (* was answered so; a row of RUNNING is written once (history) *)
  tracked,   (* how often each record is on trackedThreads                  *)
  start,     (* where each caller is inside CS_threadStart                  *)
  handle,    (* returnValue of that call                                    *)
  starter    (* the caller whose start last took each record                *)

recordVars == <<used, state, kill, driver, called>>
threadVars == <<recordVars, tracked, start, handle, starter>>

ThreadInit ==
  /\ used = {}
  /\ state = [s \in Slot |-> "INIT"]
  /\ kill = [s \in Slot |-> FALSE]
  /\ driver = [s \in Slot |-> "none"]
  /\ called = [s \in Slot |-> <<>>]
  /\ tracked = [s \in Slot |-> 0]
  /\ start = [c \in Callers |-> "idle"]
  /\ handle = [c \in Callers |-> NoSlot]
  /\ starter \in [Slot -> Callers]

\* The start that created the thread of record s has returned.
Started(s) == handle[starter[s]] # s

\* The calls h and one more, with the state st, and their last answer.
Call(h, st) == IF st = "RUNNING" /\ h # <<>> /\ h[Len(h)] = st THEN h ELSE Append(h, st)
Answered(h, answer) == IF answer THEN Append(h, "true") ELSE h

-----------------------------------------------------------------------------
(* CS_threadStart                                                           *)

\* privateGetThread: slabTakeZero clears the record, killThread with it.
StartTake(c) ==
  /\ start[c] = "idle"
  /\ \E s \in Slot \ used :
       /\ tracked[s] < MaxTracked
       /\ used' = used \cup {s}
       /\ state' = [state EXCEPT ![s] = "INIT"]
       /\ kill' = [kill EXCEPT ![s] = FALSE]
       /\ handle' = [handle EXCEPT ![c] = s]
       /\ starter' = [starter EXCEPT ![s] = c]
  /\ start' = [start EXCEPT ![c] = "create"]
  /\ UNCHANGED <<driver, called, tracked>>

\* pthread_create reports failure with a positive number, the code looks for
\* a negative one: a start that fails goes on like one that succeeds.
StartCreate(c, ok) ==
  /\ start[c] = "create"
  /\ driver' = IF ok THEN [driver EXCEPT ![handle[c]] = "launch"] ELSE driver
  /\ start' = [start EXCEPT ![c] = "detach"]
  /\ UNCHANGED <<used, state, kill, called, tracked, handle, starter>>

\* pthread_detach( returnValue->threadId ) reads the record once more.
StartDetach(c) ==
  /\ start[c] = "detach"
  /\ start' = [start EXCEPT ![c] = "track"]
  /\ UNCHANGED <<recordVars, tracked, handle, starter>>

\* CS_listPushHead under threadMutex; the handle goes to the program.
StartTrack(c) ==
  /\ start[c] = "track"
  /\ tracked' = [tracked EXCEPT ![handle[c]] = @ + 1]
  /\ start' = [start EXCEPT ![c] = "idle"]
  /\ handle' = [handle EXCEPT ![c] = NoSlot]
  /\ UNCHANGED <<recordVars, starter>>

\* CS_threadStop on the handle of a thread that has not stopped: thread.h
\* forbids the handle after that.
Stop(s) ==
  /\ s \in used /\ Started(s)
  /\ state[s] \in {"INIT", "START", "RUNNING", "STOP"}
  /\ kill' = [kill EXCEPT ![s] = TRUE]
  /\ UNCHANGED <<used, state, driver, called, tracked, start, handle, starter>>

-----------------------------------------------------------------------------
(* threadDriver                                                             *)

\* Mutant: the driver clears the flag as it starts, like serverThreadProc.
DriverLaunchClearsKill(s) ==
  /\ driver[s] = "launch"
  /\ state' = [state EXCEPT ![s] = "START"]
  /\ called' = [called EXCEPT ![s] = Call(@, "START")]
  /\ driver' = [driver EXCEPT ![s] = "started"]
  /\ kill' = [kill EXCEPT ![s] = FALSE]
  /\ UNCHANGED <<used, tracked, start, handle, starter>>

\* The pthread runs: state START, and the one call of cycle with START.
DriverLaunch(s) ==
  /\ driver[s] = "launch"
  /\ state' = [state EXCEPT ![s] = "START"]
  /\ called' = [called EXCEPT ![s] = Call(@, "START")]
  /\ driver' = [driver EXCEPT ![s] = "started"]
  /\ UNCHANGED <<used, kill, tracked, start, handle, starter>>

\* cycle answered true to START: a startup error, straight to the clean-up.
DriverStartError(s) ==
  /\ driver[s] = "started"
  /\ called' = [called EXCEPT ![s] = Answered(@, TRUE)]
  /\ state' = [state EXCEPT ![s] = "ERROR"]
  /\ driver' = [driver EXCEPT ![s] = "untrack"]
  /\ UNCHANGED <<used, kill, tracked, start, handle, starter>>

\* cycle answered false to START.
DriverRun(s) ==
  /\ driver[s] = "started"
  /\ state' = [state EXCEPT ![s] = "RUNNING"]
  /\ driver' = [driver EXCEPT ![s] = "loop"]
  /\ UNCHANGED <<used, kill, called, tracked, start, handle, starter>>

\* Not killed: one more call with RUNNING, and what it answers.
DriverCycle(s, done) ==
  /\ driver[s] = "loop"
  /\ ~kill[s]
  /\ called' = [called EXCEPT ![s] = Answered(Call(@, state[s]), done)]
  /\ state' = IF done THEN [state EXCEPT ![s] = "STOP"] ELSE state
  /\ driver' = IF done THEN [driver EXCEPT ![s] = "stop"] ELSE driver
  /\ UNCHANGED <<used, kill, tracked, start, handle, starter>>

\* killThread: STOP without another call.
DriverKilled(s) ==
  /\ driver[s] = "loop"
  /\ kill[s]
  /\ state' = [state EXCEPT ![s] = "STOP"]
  /\ driver' = [driver EXCEPT ![s] = "stop"]
  /\ UNCHANGED <<used, kill, called, tracked, start, handle, starter>>

\* Mutant: a stop that failed is tried again.
DriverStopAgain(s, failed) ==
  /\ driver[s] = "stop"
  /\ called' = [called EXCEPT ![s] = Call(@, state[s])]
  /\ state' = [state EXCEPT ![s] = IF failed THEN @ ELSE "STOPPED"]
  /\ driver' = [driver EXCEPT ![s] = IF failed THEN @ ELSE "untrack"]
  /\ UNCHANGED <<used, kill, tracked, start, handle, starter>>

\* The call with STOP: true means ERROR, anything else STOPPED.
DriverStop(s, failed) ==
  /\ driver[s] = "stop"
  /\ called' = [called EXCEPT ![s] = Call(@, state[s])]
  /\ state' = [state EXCEPT ![s] = IF failed THEN "ERROR" ELSE "STOPPED"]
  /\ driver' = [driver EXCEPT ![s] = IF failed THEN "failed" ELSE "untrack"]
  /\ UNCHANGED <<used, kill, tracked, start, handle, starter>>

\* There is no else: the ERROR of a failed stop is overwritten.
DriverStopped(s) ==
  /\ driver[s] = "failed"
  /\ state' = [state EXCEPT ![s] = "STOPPED"]
  /\ driver' = [driver EXCEPT ![s] = "untrack"]
  /\ UNCHANGED <<used, kill, called, tracked, start, handle, starter>>

\* Mutant: takes the head of trackedThreads off without comparing.
DriverUntrackHead(s) ==
  /\ driver[s] = "untrack"
  /\ tracked' \in {[tracked EXCEPT ![t] = @ - 1] : t \in {u \in Slot : tracked[u] > 0}}
  /\ driver' = [driver EXCEPT ![s] = "return"]
  /\ UNCHANGED <<used, state, kill, called, start, handle, starter>>

\* Mutant: the record goes back before it is off the list.
DriverUntrackReturned(s) ==
  /\ driver[s] = "untrack"
  /\ tracked' = [tracked EXCEPT ![s] = IF @ > 0 THEN @ - 1 ELSE 0]
  /\ driver' = [driver EXCEPT ![s] = "return"]
  /\ used' = used \ {s}
  /\ UNCHANGED <<state, kill, called, start, handle, starter>>

\* Mutant: an entry is taken off without looking whether there is one.
DriverUntrackBlind(s) ==
  /\ driver[s] = "untrack"
  /\ tracked' = [tracked EXCEPT ![s] = @ - 1]
  /\ driver' = [driver EXCEPT ![s] = "return"]
  /\ UNCHANGED <<used, state, kill, called, start, handle, starter>>

\* privateFreeFinishedThread, under threadMutex: the first entry goes, if
\* there is one.
DriverUntrack(s) ==
  /\ driver[s] = "untrack"
  /\ tracked' = [tracked EXCEPT ![s] = IF @ > 0 THEN @ - 1 ELSE 0]
  /\ driver' = [driver EXCEPT ![s] = "return"]
  /\ UNCHANGED <<used, state, kill, called, start, handle, starter>>

\* privateReturnThread: the record is free, the pthread ends.
DriverReturn(s) ==
  /\ driver[s] = "return"
  /\ used' = used \ {s}
  /\ driver' = [driver EXCEPT ![s] = "none"]
  /\ called' = [called EXCEPT ![s] = <<>>]
  /\ UNCHANGED <<state, kill, tracked, start, handle, starter>>

StartStep(c) == StartTake(c) \/ (\E ok \in BOOLEAN : StartCreate(c, ok))
                  \/ StartDetach(c) \/ StartTrack(c)

\* The steps of a driver that do not hang on what the cycle function wants.
DriverOwnStep(s) ==
  \/ DriverLaunch(s) \/ DriverStartError(s) \/ DriverRun(s) \/ DriverKilled(s)
  \/ \E failed \in BOOLEAN : DriverStop(s, failed)
  \/ DriverStopped(s) \/ DriverUntrack(s) \/ DriverReturn(s)

DriverStep(s) == DriverOwnStep(s) \/ (\E done \in BOOLEAN : DriverCycle(s, done))

ThreadNext == (\E c \in Callers : StartStep(c)) \/ (\E s \in Slot : DriverStep(s) \/ Stop(s))

ThreadSpec == ThreadInit /\ [][ThreadNext]_threadVars

\* The scheduler runs every pthread and every call of the cycle function
\* comes back; that the driver goes on to make one more RUNNING call is not
\* assumed.
FairThreadSpec == ThreadSpec /\ \A s \in Slot : WF_threadVars(DriverOwnStep(s))

-----------------------------------------------------------------------------
States == {"ERROR", "INIT", "START", "RUNNING", "STOP", "STOPPED"}

ThreadTypeOK ==
  /\ used \in SUBSET Slot
  /\ state \in [Slot -> States]
  /\ kill \in [Slot -> BOOLEAN]
  /\ driver \in [Slot -> {"none", "launch", "started", "loop", "stop", "failed",
                         "untrack", "return"}]
  /\ called \in [Slot -> Seq(States \cup {"true"})]
  /\ tracked \in [Slot -> Nat]
  /\ start \in [Callers -> {"idle", "create", "detach", "track"}]
  /\ handle \in [Callers -> Slot \cup {NoSlot}]
  /\ starter \in [Slot -> Callers]

\* threadDriver touches the record to its very end: no record is free, and
\* so none is given to a new thread, while an old driver still uses it.
RecordOutlivesDriver == \A s \in Slot : driver[s] # "none" => s \in used

\* A thread whose start has returned stays on trackedThreads until it takes
\* itself off, however the late entries of others that shared its record,
\* and the clean-up of other threads, interleave with it.
TrackedWhileRunning ==
  \A s \in Slot :
    (driver[s] \notin {"none", "return"} /\ Started(s)) => tracked[s] > 0

\* The rows of calls thread.h speaks of: the thread may be called again; the
\* function is done; it refused to start; it had its call with STOP.
Working == {<<"START">>, <<"START", "RUNNING">>}
Done == {<<"START", "RUNNING", "true">>}
Failed == {<<"START", "true">>}
Stopped == {Append(h, "STOP") : h \in Working \cup Done}

\* The calls of the cycle function (thread.h): one with START, then, unless
\* that answered true, any number with RUNNING up to the first that answers
\* true, then exactly one with STOP, early only if the thread was told to
\* stop, and none after it.  The record goes back, and may be the record of a
\* new thread, only when that is over.
CallProtocol ==
  [][\A s \in Slot :
       /\ called'[s] \in {<<>>} \cup Working \cup Done \cup Failed \cup Stopped
       /\ (called[s] \in Working /\ called'[s] \in Stopped) => kill[s]
       /\ (called[s] # <<>> /\ called'[s] = <<>>) => s \notin used'
       /\ (s \in used /\ s \notin used') => called[s] \in Failed \cup Stopped]_threadVars

\* CS_threadStop is never lost, not even when it comes before the pthread
\* first runs: the thread ends.
StopHonoured ==
  \A s \in Slot : (kill[s] /\ driver[s] # "none") ~> (driver[s] = "none")
=============================================================================
