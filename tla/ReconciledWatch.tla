--------------------------- MODULE ReconciledWatch ---------------------------
(***************************************************************************)
(* watchReconciledInputs of tooling/src/watch/reconciled-watch.ts: the     *)
(* inputs of a build are compared with a snapshot again and again, and the *)
(* host is handed every difference.  Native events only start a comparison *)
(* earlier; polling starts it anyway.                                      *)
(*                                                                         *)
(* A comparison is one job of the event loop, but it reads input after     *)
(* input while other programs write, and it calls the host: onChange may   *)
(* throw, and both callbacks may close the watch that calls them.          *)
(***************************************************************************)
EXTENDS Naturals, FiniteSets

CONSTANTS
  Path,        \* the inputs, numbered in byte order
  Dir,         \* the directories of the inputs
  Root,        \* the nearest directory above that always exists
  Home,        \* the directory of each input
  MaxEdits,    \* bound on the edits of other programs
  MaxErrors    \* bound on captures, subscriptions and callbacks that fail

ASSUME InputsAssumption ==
  /\ Path \subseteq Nat /\ IsFiniteSet(Path)
  /\ Root \notin Dir /\ Home \in [Path -> Dir]
  /\ MaxEdits \in Nat /\ MaxErrors \in Nat

VARIABLES
  disk,       \* fingerprint of each input; Missing when it does not exist
  snapshot,   \* what the last complete comparison found
  seen,       \* what the capture under way has read
  report,     \* inputs the comparison under way still has to report
  told,       \* the state of each input the host was last handed
  lost,       \* inputs whose report was dropped when onChange threw
  stale,      \* inputs written since they were last read
  watchers,   \* directories with a native subscription
  opening,    \* directories refreshNative still has to subscribe to
  lastError,  \* the message that is not reported again
  event,      \* a native event is under way
  answer,     \* of the caller of reconcile
  closed,
  pc,         \* the part of the job under way
  round,      \* why the job runs
  edits, errors

watchVars == <<disk, snapshot, seen, report, told, lost, stale, watchers, opening, lastError,
          event, answer, closed, pc, round, edits, errors>>

Missing == 0
Fingerprint == 0..MaxEdits
Round == {"start", "registration", "open"}
Pc == {"baseline", "capture", "report", "subscribe", "opening", "idle", "failed"}
Message == {"none", "capture", "change", "native"}

WatchInit ==
  /\ disk \in [Path -> {Missing}]
  /\ snapshot = disk /\ told = disk /\ seen = <<>>
  /\ report = {} /\ lost = {} /\ stale = {}
  /\ watchers = {} /\ opening = {} /\ lastError = "none" /\ event = FALSE
  /\ answer = "none" /\ closed = FALSE
  /\ pc = "baseline" /\ round = "start" /\ edits = 0 /\ errors = 0

\* The host's callbacks may close the watch once the session was returned.
CloseHere == round = "open" /\ ~closed /\ closed' = TRUE

\* reportError: a message is passed on unless it was the last one; a host that
\* hears it may close the watch.  open: the subscriptions there are by then.
Complain(message, open) ==
  /\ lastError' = message
  /\ \/ watchers' = open /\ UNCHANGED closed
     \/ message # lastError /\ CloseHere /\ watchers' = {}

-----------------------------------------------------------------------------
\* Another program writes, creates or removes an input.  A native event may be
\* lost, and there is none where nothing is subscribed.
Edit(p) ==
  /\ edits < MaxEdits /\ edits' = edits + 1
  /\ \E v \in {Missing, edits + 1} \ {disk[p]} : disk' = [disk EXCEPT ![p] = v]
  /\ stale' = stale \cup {p}
  /\ \/ UNCHANGED event
     \/ {Home[p], Root} \cap watchers # {} /\ event' = TRUE
  /\ UNCHANGED <<snapshot, seen, report, told, lost, watchers, opening, lastError, answer,
                 closed, pc, round, errors>>

-----------------------------------------------------------------------------
(* emitReconciliation and the first capture.                               *)

Unread == Path \ DOMAIN seen

\* Inputs are read and reported in byte order.
Least(p, S) == p \in S /\ \A q \in S : p <= q

\* capture reads the next input.
CaptureRead ==
  /\ pc \in {"baseline", "capture"}
  /\ \E p \in Unread :
       /\ Least(p, Unread)
       /\ seen' = [q \in DOMAIN seen \cup {p} |-> IF q = p THEN disk[p] ELSE seen[q]]
       /\ stale' = stale \ {p}
  /\ UNCHANGED <<disk, snapshot, report, told, lost, watchers, opening, lastError, event,
                 answer, closed, pc, round, edits, errors>>

\* A symbolic link, the entry budget or a directory that vanished: the first
\* capture makes the call throw, a later one keeps the old snapshot.
ForgetsSnapshot == snapshot' = [p \in Path |-> IF p \in DOMAIN seen THEN seen[p] ELSE snapshot[p]]   \* mutant
KeepsSnapshot == UNCHANGED snapshot

CaptureFails ==
  /\ pc \in {"baseline", "capture"} /\ errors < MaxErrors
  /\ errors' = errors + 1 /\ seen' = <<>>
  /\ IF pc = "baseline"
     THEN pc' = "failed" /\ UNCHANGED <<lastError, watchers, closed, answer>>
     ELSE /\ Complain("capture", watchers) /\ pc' = "subscribe"
          /\ answer' = IF answer = "asked" THEN "failed" ELSE answer
  /\ KeepsSnapshot
  /\ UNCHANGED <<disk, report, told, lost, stale, opening, event, round, edits>>

\* changed: every input of the old or the new snapshot that differs.
OnlyPresent == {p \in Path : seen[p] # snapshot[p] /\ seen[p] # Missing}   \* mutant
Changed == {p \in Path : seen[p] # snapshot[p]}

\* The first capture is the baseline.
TakeBaseline ==
  /\ pc = "baseline" /\ Unread = {}
  /\ snapshot' = seen /\ told' = seen /\ seen' = <<>> /\ pc' = "subscribe"
  /\ UNCHANGED <<disk, report, lost, stale, watchers, opening, lastError, event, answer,
                 closed, round, edits, errors>>

Compare ==
  /\ pc = "capture" /\ Unread = {}
  /\ report' = Changed /\ snapshot' = seen /\ seen' = <<>>
  /\ lastError' = "none" /\ pc' = "report"
  /\ answer' = IF answer # "asked" THEN answer
               ELSE IF Changed = {} THEN "unchanged" ELSE "changed"
  /\ UNCHANGED <<disk, told, lost, stale, watchers, opening, event, closed, round,
                 edits, errors>>

\* onChange for the next difference; when it throws, the others are dropped.
Report ==
  /\ pc = "report"
  /\ \E p \in report : LET rest == report \ {p} IN
       /\ Least(p, report)
       /\ told' = [told EXCEPT ![p] = snapshot[p]]
       /\ \/ /\ report' = rest /\ lost' = lost \ {p}
             /\ \/ UNCHANGED <<closed, watchers>>
                \/ CloseHere /\ watchers' = {}
             /\ UNCHANGED <<lastError, answer, pc, errors>>
          \/ /\ errors < MaxErrors /\ errors' = errors + 1
             /\ report' = {} /\ lost' = (lost \ {p}) \cup rest
             /\ Complain("change", watchers)
             /\ answer' = IF answer = "changed" THEN "failed" ELSE answer
             /\ pc' = "subscribe"
  /\ UNCHANGED <<disk, snapshot, seen, stale, opening, event, round, edits>>

ReportDone ==
  /\ pc = "report" /\ report = {}
  /\ pc' = "subscribe"
  /\ UNCHANGED <<disk, snapshot, seen, report, told, lost, stale, watchers, opening, lastError,
                 event, answer, closed, round, edits, errors>>

-----------------------------------------------------------------------------
(* refreshNative.                                                          *)

\* A directory that does not exist is watched through the one above it.
Desired == {d \in Dir : \E p \in Path : Home[p] = d /\ disk[p] # Missing} \cup {Root}

\* What follows the job's refreshNative: the registration's comparison after
\* the first one, and then the polling timer.
ReturnFrom ==
  /\ round' = IF round = "start" THEN "registration" ELSE "open"
  /\ pc' = IF round = "start" THEN "capture" ELSE "idle"

Subscribe ==
  /\ pc = "subscribe"
  /\ \/ /\ closed
        /\ ReturnFrom
        /\ UNCHANGED <<watchers, opening, lastError, closed, errors>>
     \/ /\ ~closed
        /\ watchers' = watchers \cap Desired /\ opening' = Desired \ watchers
        /\ pc' = "opening"
        /\ UNCHANGED <<lastError, closed, round, errors>>
     \/ /\ ~closed /\ errors < MaxErrors /\ errors' = errors + 1   \* desiredDirectories throws
        /\ Complain("native", watchers)
        /\ ReturnFrom
        /\ UNCHANGED opening
  /\ UNCHANGED <<disk, snapshot, seen, report, told, lost, stale, event, answer, edits>>

\* One subscription; the loop goes on whatever onError does.
Open(d) ==
  /\ pc = "opening" /\ d \in opening
  /\ opening' = opening \ {d}
  /\ \/ watchers' = watchers \cup {d} /\ UNCHANGED <<lastError, closed, errors>>
     \/ /\ errors < MaxErrors /\ errors' = errors + 1
        /\ Complain("native", watchers)
  /\ UNCHANGED <<disk, snapshot, seen, report, told, lost, stale, event, answer, pc, round, edits>>

Opened ==
  /\ pc = "opening" /\ opening = {}
  /\ ReturnFrom
  /\ UNCHANGED <<disk, snapshot, seen, report, told, lost, stale, watchers, opening, lastError,
                 event, answer, closed, edits, errors>>

-----------------------------------------------------------------------------
(* What starts a job.                                                      *)

StartRound(reply) ==
  /\ pc = "idle" /\ ~closed
  /\ pc' = "capture" /\ answer' = reply
  /\ UNCHANGED <<disk, snapshot, seen, report, told, lost, stale, watchers, opening, lastError,
                 closed, round, edits, errors>>

Poll   == StartRound("none") /\ UNCHANGED event
Native == event /\ StartRound("none") /\ event' = FALSE

\* reconcile(): on a closed watch it fails at once.
Reconcile ==
  \/ StartRound("asked") /\ UNCHANGED event
  \/ /\ pc = "idle" /\ closed
     /\ answer' = "failed"
     /\ UNCHANGED <<disk, snapshot, seen, report, told, lost, stale, watchers, opening, lastError,
                    event, closed, pc, round, edits, errors>>

\* A subscription fails by itself.
WatcherFails(d) ==
  /\ pc = "idle" /\ d \in watchers /\ errors < MaxErrors
  /\ errors' = errors + 1
  /\ Complain("native", watchers \ {d})
  /\ UNCHANGED <<disk, snapshot, seen, report, told, lost, stale, opening, event, answer, pc,
                 round, edits>>

CloseWatch ==
  /\ pc = "idle" /\ CloseHere
  /\ watchers' = {}
  /\ UNCHANGED <<disk, snapshot, seen, report, told, lost, stale, opening, lastError, event,
                 answer, pc, round, edits, errors>>

-----------------------------------------------------------------------------
Work ==
  \/ CaptureRead \/ CaptureFails \/ TakeBaseline \/ Compare \/ Report \/ ReportDone
  \/ Subscribe \/ Opened \/ \E d \in Dir \cup {Root} : Open(d)

WatchNext ==
  \/ Work \/ Poll \/ Native \/ Reconcile \/ CloseWatch
  \/ \E p \in Path : Edit(p)
  \/ \E d \in Dir \cup {Root} : WatcherFails(d)

WatchSpec == WatchInit /\ [][WatchNext]_watchVars

\* Jobs run to their end and the polling timer fires; no event need arrive.
FairWatchSpec == WatchSpec /\ WF_watchVars(Work) /\ WF_watchVars(Poll)

-----------------------------------------------------------------------------
(* Properties.                                                             *)

WatchTypeOK ==
  /\ disk \in [Path -> Fingerprint] /\ snapshot \in [Path -> Fingerprint] /\ told \in [Path -> Fingerprint]
  /\ DOMAIN seen \subseteq Path /\ \A p \in DOMAIN seen : seen[p] \in Fingerprint
  /\ report \subseteq Path /\ lost \subseteq Path /\ stale \subseteq Path
  /\ watchers \subseteq Dir \cup {Root} /\ opening \subseteq Dir \cup {Root}
  /\ lastError \in Message /\ event \in BOOLEAN /\ closed \in BOOLEAN
  /\ answer \in {"none", "asked", "unchanged", "changed", "failed"}
  /\ pc \in Pc /\ round \in Round
  /\ edits \in 0..MaxEdits /\ errors \in 0..MaxErrors

\* The snapshot never runs ahead of the host: what it holds was handed to the
\* host or is about to be, except where onChange threw for an earlier input of
\* the same comparison.  (A failed capture must not touch the snapshot.)
SnapshotIsTold ==
  \A p \in Path : told[p] # snapshot[p] => p \in report \cup lost

\* What publication relies on: once reconcile() answered, the host has been
\* handed the state of every input except what was written after it was read.
\* A failed comparison never answers "unchanged".
AnswerIsCurrent ==
  pc = "idle" /\ answer \in {"unchanged", "changed"} =>
    \A p \in Path : told[p] # disk[p] => p \in stale \cup lost

\* Every change reaches the host, if no native event arrives, if captures fail
\* for a while and if it falls between the baseline and the registration.
ChangeReachesHost ==
  \A p \in Path : told[p] # disk[p] ~> told[p] = disk[p] \/ closed \/ p \in lost \/ pc = "failed"
==============================================================================
