------------------------- MODULE SerializedDirtyLoop -------------------------
(***************************************************************************)
(* tooling/src/loop/serialized-dirty-loop.ts: requests are merged, a run   *)
(* starts once no request arrived for the debounce time, and requests that *)
(* arrive during a run make one more run.                                  *)
(*                                                                         *)
(* Each action is one synchronous piece of the class: a call of a client,  *)
(* a timer callback, or a promise job.  A cause is the set of the requests *)
(* it merges, so merge is union.  Time moves in ticks; both the timer and  *)
(* the time since the last request stop counting at the debounce time.     *)
(***************************************************************************)
EXTENDS Integers

CONSTANTS
  Request,    \* requests, each made at most once
  Client,     \* callers of waitForIdle and close, one call each
  Debounce    \* debounceMs, in ticks

ASSUME DebounceAssumption == Debounce \in Nat

NoTimer == -1

VARIABLES
  state,       \* #state
  pending,     \* #pending
  hasPending,  \* #hasPending
  quiet,       \* ticks since #lastRequestAt
  timer,       \* ticks until the timeout fires, or NoTimer
  active,      \* #active: no promise, one whose job has not run yet, or a run
  cause,       \* the cause of the active run
  at,          \* where each client is
  accepted,    \* history: requests made before close
  begun        \* history: requests whose run has started

vars == <<state, pending, hasPending, quiet, timer, active, cause, at, accepted, begun>>

State  == {"idle", "debouncing", "running", "closed"}
Active == {"none", "queued", "executing"}
At     == {"out", "waiting", "idle", "closing", "closed"}

Init ==
  /\ state = "idle" /\ pending = {} /\ hasPending = FALSE
  /\ quiet = Debounce /\ timer = NoTimer
  /\ active = "none" /\ cause = {}
  /\ at = [k \in Client |-> "out"]
  /\ accepted = {} /\ begun = {}

\* #resolveIdle: every caller of waitForIdle returns.
NobodyReturns(places) == places   \* mutant
ResolveIdle(places) == [k \in Client |-> IF places[k] = "waiting" THEN "idle" ELSE places[k]]

IsIdle == state = "idle" /\ ~hasPending /\ timer = NoTimer /\ active = "none"

\* The cause that waits together with a new one.
LatestOnly(r) == {r}   \* mutant
Merged(r) == IF hasPending THEN pending \cup {r} ELSE {r}

\* A request during a run sets no timer; any other replaces it.
NextTimer(r) == IF state = "running" THEN timer ELSE Debounce

-----------------------------------------------------------------------------
Ask(r) ==
  /\ r \notin accepted
  /\ state # "closed"
  /\ pending' = Merged(r) /\ hasPending' = TRUE /\ quiet' = 0
  /\ timer' = NextTimer(r)
  /\ state' = IF state = "running" THEN state ELSE "debouncing"
  /\ accepted' = accepted \cup {r}
  /\ UNCHANGED <<active, cause, at, begun>>

Tick ==
  /\ timer > 0 \/ quiet < Debounce
  /\ timer' = IF timer > 0 THEN timer - 1 ELSE timer
  /\ quiet' = IF quiet < Debounce THEN quiet + 1 ELSE quiet
  /\ UNCHANGED <<state, pending, hasPending, active, cause, at, accepted, begun>>

\* #start, in the timer's callback.  (Its other branches, a closed or running
\* loop or nothing pending, are never met: see TimerMeansWork.)
Fire ==
  /\ timer = 0
  /\ timer' = NoTimer
  /\ IF state = "closed" \/ active # "none"
     THEN UNCHANGED <<state, hasPending, active, cause, at>>
     ELSE IF ~hasPending
     THEN state' = "idle" /\ at' = ResolveIdle(at) /\ UNCHANGED <<hasPending, active, cause>>
     ELSE /\ cause' = pending /\ hasPending' = FALSE
          /\ state' = "running" /\ active' = "queued"
          /\ UNCHANGED at
  /\ UNCHANGED <<pending, quiet, accepted, begun>>

\* The promise job that calls run(cause), also when close came in between.
RunBegins ==
  /\ active = "queued"
  /\ active' = "executing"
  /\ begun' = begun \cup cause
  /\ UNCHANGED <<state, pending, hasPending, quiet, timer, cause, at, accepted>>

\* run settles, onError has seen an exception, and the finally job follows: the
\* loop is idle, or the timer is set to what is left of the debounce time.
Remaining(t) == Debounce - t

AlwaysIdle  == TRUE   \* mutant
NothingToDo == ~hasPending

RunEnds ==
  /\ active = "executing"
  /\ active' = "none" /\ cause' = {}
  /\ \/ /\ state = "closed"
        /\ at' = ResolveIdle(at) /\ UNCHANGED <<state, timer>>
     \/ /\ state # "closed" /\ NothingToDo
        /\ state' = "idle" /\ at' = ResolveIdle(at) /\ UNCHANGED timer
     \/ /\ state # "closed" /\ ~NothingToDo
        /\ state' = "debouncing" /\ timer' = Remaining(quiet) /\ UNCHANGED at
  /\ UNCHANGED <<pending, hasPending, quiet, accepted, begun>>

WaitForIdle(k) ==
  /\ at[k] = "out"
  /\ at' = [at EXCEPT ![k] = IF state = "closed" \/ IsIdle THEN "idle" ELSE "waiting"]
  /\ UNCHANGED <<state, pending, hasPending, quiet, timer, active, cause, accepted, begun>>

\* close stops the timer, forgets what is pending and awaits the active run.
MustAwait == active # "none"

Close(k) ==
  /\ at[k] = "out"
  /\ state' = "closed" /\ hasPending' = FALSE /\ timer' = NoTimer
  /\ at' = IF MustAwait
           THEN [at EXCEPT ![k] = "closing"]
           ELSE [ResolveIdle(at) EXCEPT ![k] = "closed"]
  /\ UNCHANGED <<pending, quiet, active, cause, accepted, begun>>

CloseReturns(k) ==
  /\ at[k] = "closing" /\ active = "none"
  /\ at' = [ResolveIdle(at) EXCEPT ![k] = "closed"]
  /\ UNCHANGED <<state, pending, hasPending, quiet, timer, active, cause, accepted, begun>>

-----------------------------------------------------------------------------
Next ==
  \/ \E r \in Request : Ask(r)
  \/ Tick \/ Fire \/ RunBegins \/ RunEnds
  \/ \E k \in Client : WaitForIdle(k) \/ Close(k) \/ CloseReturns(k)

Spec == Init /\ [][Next]_vars

\* Time passes, timers fire, promise jobs run and run() settles.
FairSpec ==
  /\ Spec
  /\ WF_vars(Tick) /\ WF_vars(Fire) /\ WF_vars(RunBegins) /\ WF_vars(RunEnds)
  /\ \A k \in Client : WF_vars(CloseReturns(k))

-----------------------------------------------------------------------------
(* Properties.                                                             *)

TypeOK ==
  /\ state \in State /\ active \in Active /\ hasPending \in BOOLEAN
  /\ pending \subseteq Request /\ cause \subseteq Request
  /\ quiet \in 0..Debounce /\ timer \in 0..Debounce \cup {NoTimer}
  /\ at \in [Client -> At]
  /\ accepted \subseteq Request /\ begun \subseteq Request

\* No request gets lost and none runs twice: until the loop is closed, what was
\* requested is what has run, what is about to run and what waits, disjointly.
EveryRequestAccounted ==
  LET queued  == IF active = "queued" THEN cause ELSE {}
      waiting == IF hasPending THEN pending ELSE {}
  IN  /\ state # "closed" => accepted = begun \cup queued \cup waiting
      /\ begun \cap queued = {} /\ begun \cap waiting = {} /\ queued \cap waiting = {}

\* Whatever waits has somebody to start it: a timer or a run whose end sets
\* one; and the timer only ever finds work to do.
TimerMeansWork ==
  /\ hasPending => timer # NoTimer \/ active # "none"
  /\ timer # NoTimer => hasPending /\ active = "none"

\* A run starts only after the debounce time without any request, also when
\* the requests came during the run before it.
RunFollowsQuiet ==
  [][ active = "none" /\ active' # "none" => quiet = Debounce ]_vars

\* After close returned nothing runs and nothing will.
ClosedMeansQuiet ==
  (\E k \in Client : at[k] = "closed") => active = "none" /\ timer = NoTimer /\ state = "closed"

\* waitForIdle returns from waiting only when no run executes and no request of
\* an open loop is left.
IdleMeansIdle ==
  [][ \A k \in Client : at[k] = "waiting" /\ at'[k] = "idle" =>
        active' = "none" /\ ~hasPending' ]_vars

\* Every request is run, unless the loop is closed first.
EveryRequestRuns == \A r \in Request : r \in accepted ~> r \in begun \/ state = "closed"

\* Every call of waitForIdle and close returns.
EveryCallReturns == \A k \in Client : at[k] \in {"waiting", "closing"} ~> at[k] \in {"idle", "closed"}
==============================================================================
