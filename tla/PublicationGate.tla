--------------------------- MODULE PublicationGate ---------------------------
(***************************************************************************)
(* The writer-priority gate of tooling/src/session/read-write-gate.ts:     *)
(* readers of the published tree share it, the one publication that moves  *)
(* files excludes them.                                                    *)
(*                                                                         *)
(* JavaScript runs one job at a time, but a promise that was resolved      *)
(* resumes its awaiter in a later job.  A caller that waited and was let   *)
(* in is therefore "resumed" first, and takes its place when its job runs; *)
(* jobs that were queued earlier run before it.                            *)
(*                                                                         *)
(* With `serial` the callers of runWrite are those of a session            *)
(* (runtime.ts): the runs of one SerializedDirtyLoop, each of which starts *)
(* from a timer, and whose AbortSignal fires only in the close that closes *)
(* the gate in the same job.  Without it any caller may publish and cancel.*)
(***************************************************************************)
EXTENDS Integers, FiniteSets, Sequences, SequencesExt

CONSTANTS
  Reader,      \* calls of acquireRead
  Writer       \* calls of runWrite

ASSUME CallersAssumption == IsFiniteSet(Reader) /\ Reader \cap Writer = {}

Caller == Reader \cup Writer

VARIABLES
  readers,      \* #readers
  writer,       \* #writer
  closed,       \* #closed
  readWaiters,  \* #readWaiters
  writeWaiters, \* #writeWaiters
  aborted,      \* writers whose AbortSignal has fired
  at,           \* where each caller is
  timer,        \* whether the loop that publishes waits for its timer
  serial        \* whether the writers are the runs of one session's loop

gate == <<readers, writer, closed, readWaiters, writeWaiters, aborted, at, timer>>
vars == <<gate, serial>>

At == {"out", "waiting", "resumed", "inside", "done", "rejected"}

Init ==
  /\ readers = 0 /\ writer = FALSE /\ closed = FALSE
  /\ readWaiters = <<>> /\ writeWaiters = <<>>
  /\ aborted = {} /\ at = [c \in Caller |-> "out"]
  /\ serial \in BOOLEAN /\ timer = serial

Move(c, place) == [at EXCEPT ![c] = place]

\* A loop that publishes starts its next run from a timer, and a timer fires
\* only when no promise job is left (SerializedDirtyLoop).
StartsAtOnce == timer' = FALSE   \* mutant
LoopWaits == timer' = serial

TimerFires ==
  /\ timer /\ \A c \in Caller : at[c] # "resumed"
  /\ timer' = FALSE
  /\ UNCHANGED <<readers, writer, closed, readWaiters, writeWaiters, aborted, at>>

\* #drain, called with the values the caller left: nothing while somebody is
\* inside, else the longest-waiting writer, else every waiting reader.
Drain(n, w, waiting, places) ==
  \/ /\ closed \/ w \/ n > 0
     /\ writer' = w /\ writeWaiters' = waiting /\ at' = places
     /\ UNCHANGED readWaiters
  \/ /\ ~closed /\ ~w /\ n = 0 /\ waiting # <<>>
     /\ writer' = TRUE /\ writeWaiters' = Tail(waiting)
     /\ at' = [places EXCEPT ![Head(waiting)] = "resumed"]
     /\ UNCHANGED readWaiters
  \/ /\ ~closed /\ ~w /\ n = 0 /\ waiting = <<>>
     /\ writer' = FALSE /\ writeWaiters' = <<>> /\ readWaiters' = <<>>
     /\ at' = [c \in Caller |-> IF c \in ToSet(readWaiters) THEN "resumed" ELSE places[c]]

-----------------------------------------------------------------------------
\* acquireRead: rejected, let in, or behind the writers.
MustQueue == writer \/ writeWaiters # <<>>

AcquireRead(r) ==
  /\ at[r] = "out"
  /\ \/ /\ closed
        /\ at' = Move(r, "rejected")
        /\ UNCHANGED <<readers, readWaiters>>
     \/ /\ ~closed /\ MustQueue
        /\ at' = Move(r, "waiting") /\ readWaiters' = Append(readWaiters, r)
        /\ UNCHANGED readers
     \/ /\ ~closed /\ ~MustQueue
        /\ at' = Move(r, "inside") /\ readers' = readers + 1
        /\ UNCHANGED readWaiters
  /\ UNCHANGED <<writer, closed, writeWaiters, aborted, timer>>

\* The rest of acquireRead in the job of a reader that waited.
CountedAgain == readers + 1

ResumeRead(r) ==
  /\ at[r] = "resumed"
  /\ IF closed
     THEN at' = Move(r, "rejected") /\ UNCHANGED readers
     ELSE at' = Move(r, "inside") /\ readers' = CountedAgain
  /\ UNCHANGED <<writer, closed, readWaiters, writeWaiters, aborted, timer>>

\* The function acquireRead returned.
ReleaseRead(r) ==
  /\ at[r] = "inside"
  /\ readers' = readers - 1
  /\ Drain(readers - 1, writer, writeWaiters, Move(r, "done"))
  /\ UNCHANGED <<closed, aborted, timer>>

\* runWrite: rejected, let in, or behind whoever is inside.
Occupied == writer \/ readers > 0

RunWrite(w) ==
  /\ at[w] = "out"
  /\ ~timer /\ (serial => \A v \in Writer : at[v] \in {"out", "done", "rejected"})
  /\ \/ /\ closed \/ w \in aborted
        /\ at' = Move(w, "rejected") /\ LoopWaits
        /\ UNCHANGED <<writer, writeWaiters>>
     \/ /\ ~closed /\ w \notin aborted /\ Occupied
        /\ at' = Move(w, "waiting") /\ writeWaiters' = Append(writeWaiters, w)
        /\ UNCHANGED <<writer, timer>>
     \/ /\ ~closed /\ w \notin aborted /\ ~Occupied
        /\ at' = Move(w, "inside") /\ writer' = TRUE
        /\ UNCHANGED <<writeWaiters, timer>>
  /\ UNCHANGED <<readers, closed, readWaiters, aborted>>

\* The rest of runWrite in the job of a writer that waited: it holds the gate
\* already and gives it on when it was cancelled.
ResumeWrite(w) ==
  /\ at[w] = "resumed"
  /\ IF closed \/ w \in aborted
     THEN Drain(readers, FALSE, writeWaiters, Move(w, "rejected")) /\ LoopWaits
     ELSE at' = Move(w, "inside") /\ UNCHANGED <<writer, readWaiters, writeWaiters, timer>>
  /\ UNCHANGED <<readers, closed, aborted>>

\* The operation settles, with a value or an exception.
EndWrite(w) ==
  /\ at[w] = "inside"
  /\ Drain(readers, FALSE, writeWaiters, Move(w, "done"))
  /\ LoopWaits
  /\ UNCHANGED <<readers, closed, aborted>>

\* The writer's AbortSignal fires by itself; a waiting writer leaves its queue.
Abort(w) ==
  /\ ~serial /\ w \notin aborted
  /\ aborted' = aborted \cup {w}
  /\ IF at[w] = "waiting"
     THEN /\ \E i \in 1..Len(writeWaiters) :
               /\ writeWaiters[i] = w
               /\ Drain(readers, writer, RemoveAt(writeWaiters, i), Move(w, "rejected"))
          /\ LoopWaits
     ELSE UNCHANGED <<writer, readWaiters, writeWaiters, at, timer>>
  /\ UNCHANGED <<readers, closed>>

\* close: every waiter is rejected.  A session's close fires the signal of its
\* run just before; what that does, closed does as well.
ReadersOnly == ToSet(readWaiters)   \* mutant
Waiting == ToSet(readWaiters) \cup ToSet(writeWaiters)

Close ==
  /\ ~closed
  /\ closed' = TRUE
  /\ at' = [c \in Caller |-> IF c \in Waiting THEN "rejected" ELSE at[c]]
  /\ readWaiters' = <<>> /\ writeWaiters' = <<>>
  /\ UNCHANGED <<readers, writer, aborted, timer>>

-----------------------------------------------------------------------------
Resume == (\E r \in Reader : ResumeRead(r)) \/ (\E w \in Writer : ResumeWrite(w))
Leave  == (\E r \in Reader : ReleaseRead(r)) \/ (\E w \in Writer : EndWrite(w))

Next ==
  /\ \/ Resume \/ Leave \/ Close \/ TimerFires
     \/ \E r \in Reader : AcquireRead(r)
     \/ \E w \in Writer : RunWrite(w) \/ Abort(w)
  /\ UNCHANGED serial

Spec == Init /\ [][Next]_vars

\* Jobs run, readers release and publications end; nobody must call or abort.
FairSpec ==
  /\ Spec /\ WF_gate(Resume)
  /\ \A r \in Reader : WF_gate(ReleaseRead(r))
  /\ \A w \in Writer : WF_gate(EndWrite(w))

-----------------------------------------------------------------------------
(* Properties.                                                             *)

TypeOK ==
  /\ readers \in Nat /\ writer \in BOOLEAN /\ closed \in BOOLEAN
  /\ readWaiters \in Seq(Reader) /\ writeWaiters \in Seq(Writer)
  /\ aborted \in SUBSET Writer /\ at \in [Caller -> At]
  /\ timer \in BOOLEAN /\ serial \in BOOLEAN

\* A session's publication moves files while nobody reads them and nobody else
\* moves them, however callers wait and resume and whenever close comes.
ReadersExcludeWriter ==
  serial =>
    \A w \in Writer : at[w] = "inside" => \A c \in Caller \ {w} : at[c] # "inside"

\* Publications exclude each other also between the jobs of resumed callers.
WritersExclusive ==
  \A v, w \in Writer : v # w => ~(at[v] \in {"inside", "resumed"} /\ at[w] \in {"inside", "resumed"})

\* No wake-up is lost: somebody waits only while somebody is inside or about
\* to be.
NobodyWaitsAtFreeGate ==
  (\E c \in Caller : at[c] = "waiting") => \E c \in Caller : at[c] \in {"inside", "resumed"}

\* Writer priority: a reader does not enter past a publication that waits.
NoReaderPassesWriter ==
  [][ \A r \in Reader : at[r] = "out" /\ at'[r] = "inside" =>
        \A w \in Writer : at[w] # "waiting" ]_vars

\* Whoever waits is let in or rejected, also when the gate is closed or the
\* publication it waits behind is cancelled.
WaiterIsAnswered == \A c \in Caller : at[c] = "waiting" ~> at[c] # "waiting"
==============================================================================
