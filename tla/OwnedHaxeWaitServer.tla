------------------------ MODULE OwnedHaxeWaitServer ------------------------
(***************************************************************************)
(* OwnedHaxeWaitServer of tooling/src/haxe-server/server.ts: each host     *)
(* process keeps at most one warm `haxe --wait` child for its project and  *)
(* names it in a lease file that all hosts of the project share.           *)
(*                                                                         *)
(* The operations of one host run one after the other (#serialized); an    *)
(* exit event is handled wherever an operation awaits.  Between two steps  *)
(* of one host come steps of another host, exits of children and the death *)
(* of a host, whose children live on.                                      *)
(***************************************************************************)
EXTENDS Naturals

CONSTANTS
  Host,       \* processes with one server object each
  Earlier,    \* a host that died before, and may have left a lease and a child
  Digest,     \* compatibility digests
  Asks,       \* the digests each host asks for
  None,       \* no lease, no child, no digest
  Torn,       \* a lease file created and not written, or not written by a host
  MaxStarts,  \* bound: children of each host
  MaxFaults   \* bound: hosts that die, reservations, spawns and writes that fail

ASSUME BoundsAssumption ==
  /\ Asks \in [Host -> SUBSET Digest]
  /\ Earlier \in Host /\ MaxStarts \in [Host -> Nat] /\ MaxStarts[Earlier] = 1
  /\ MaxFaults \in Nat

\* The n-th child of a host; its lease holds its pid and its host's, so the
\* bytes of a whole lease are the child.
Child == UNION {[host : {h}, n : 1..MaxStarts[h]] : h \in Host}

ASSUME NoneAssumption == None \notin Digest \cup Child /\ Torn \notin Child \cup {None}

VARIABLES
  lease,    \* the lease file
  alive,    \* children that run
  exited,   \* children whose exit event their host has handled
  served,   \* running children that were ready once
  survived, \* history: children that outlived SIGTERM and SIGKILL
  raced,    \* history: a claim removed a lease that it had not read
  host,     \* the server object and the operation under way of each host
  faults

serverVars == <<lease, alive, exited, served, survived, raced, host, faults>>
files == <<lease, raced>>
children == <<alive, exited, served, survived>>

\* Where an operation awaits, so that an exit event may come.
Awaits == {"idle", "start", "wait", "term", "kill", "connected", "probe"}
Place == Awaits \cup {"inspect", "read", "judge", "compare", "unlink", "create", "fill", "dead"}
After == {"restart", "fallback", "close"}

Server ==
  [pc : Place, after : After, want : Digest \cup {None}, process : Child \cup {None},
   digest : Digest \cup {None}, ready : BOOLEAN, fallback : Digest \cup {None},
   leaseBytes : Child \cup {None}, closed : BOOLEAN, seen : Child \cup {None}, starts : Nat]

ServerTypeOK ==
  /\ lease \in Child \cup {None, Torn}
  /\ alive \subseteq Child /\ exited \subseteq Child
  /\ served \subseteq alive /\ survived \subseteq Child
  /\ raced \in BOOLEAN /\ faults \in 0..MaxFaults
  /\ host \in [Host -> Server] /\ \A h \in Host : host[h].starts <= MaxStarts[h]

New == [pc |-> "idle", after |-> "close", want |-> None, process |-> None, digest |-> None,
        ready |-> FALSE, fallback |-> None, leaseBytes |-> None, closed |-> FALSE,
        seen |-> None, starts |-> 0]

Died(started) == [New EXCEPT !.pc = "dead", !.starts = started]

ServerInit ==
  /\ LET c == [host |-> Earlier, n |-> 1] IN
       \/ lease = None /\ alive = {}
       \/ lease = c /\ alive \in {{}, {c}}
  /\ served = alive /\ exited = {} /\ survived = {} /\ raced = FALSE
  /\ host = [h \in Host |-> IF h = Earlier THEN Died(1) ELSE New]
  /\ faults = 0

AtPlace(h, place) == host[h].pc = place
Set(h, server) == host' = [host EXCEPT ![h] = server]
Goto(h, place) == Set(h, [host[h] EXCEPT !.pc = place])
Returned(s) == [s EXCEPT !.pc = "idle", !.want = None]
Fault == faults < MaxFaults /\ faults' = faults + 1

\* Return "direct" and do not try this digest again.
FallsBack(s) == [Returned(s) EXCEPT !.fallback = s.want]
Fallback(h) == Set(h, [FallsBack(host[h]) EXCEPT !.seen = None])

-----------------------------------------------------------------------------
(* stopOwned.                                                              *)

\* The file goes only if it still holds what this host wrote.  Nobody else
\* removes the lease of a living host, so reading it and removing it are one
\* step (unless a claim raced).
CleanedLease(h) ==
  IF host[h].leaseBytes # None /\ lease = host[h].leaseBytes THEN None ELSE lease

Stopped(s) ==
  [s EXCEPT !.process = None, !.digest = None, !.ready = FALSE, !.leaseBytes = None,
            !.after = "close"]

\* What the operation that called stopOwned does next: ensure goes on with a
\* new child only if the old one is gone.
Ended(s, after) == IF after = "close" THEN [s EXCEPT !.pc = "idle"] ELSE FallsBack(s)
Continue(s, after) ==
  IF after = "restart" THEN [s EXCEPT !.pc = "inspect"] ELSE Ended(s, after)

\* Send SIGTERM, or have nothing to stop.
Stop(h, after, s) ==
  IF s.process = None
  THEN /\ lease' = CleanedLease(h)
       /\ Set(h, Stopped(Continue(s, after)))
  ELSE /\ Set(h, [s EXCEPT !.pc = "term", !.after = after])
       /\ UNCHANGED lease

Stopping(h) == host[h].pc \in {"term", "kill"}

\* The child's exit was handled within the bound.
StopEnds(h) ==
  /\ Stopping(h) /\ host[h].process \in exited
  /\ lease' = CleanedLease(h)
  /\ Set(h, Stopped(Continue(host[h], host[h].after)))
  /\ UNCHANGED <<children, raced, faults>>

Kill(h) ==
  /\ AtPlace(h, "term") /\ host[h].process \notin exited
  /\ Goto(h, "kill")
  /\ UNCHANGED <<children, files, faults>>

\* The child outlived both bounds: its lease stays, and is forgotten.
WaitsForExit(h) == FALSE   \* mutant
Abandon(h) ==
  /\ AtPlace(h, "kill") /\ host[h].process \notin exited
  /\ survived' = survived \cup {host[h].process}
  /\ Set(h, Stopped(Ended(host[h], host[h].after)))
  /\ UNCHANGED <<alive, exited, served, files, faults>>

-----------------------------------------------------------------------------
(* ensure.  A closed server, one that is ready for the digest and one that *)
(* fell back for it answer at once and change nothing.                     *)

Ensure(h, d) ==
  /\ AtPlace(h, "idle") /\ ~host[h].closed
  /\ ~(host[h].ready /\ host[h].digest = d) /\ host[h].fallback # d
  /\ host[h].starts < MaxStarts[h]
  /\ IF host[h].process = None
     THEN Set(h, [host[h] EXCEPT !.pc = "inspect", !.want = d])
     ELSE Set(h, [host[h] EXCEPT !.pc = "term", !.after = "restart", !.want = d])
  /\ UNCHANGED <<children, files, faults>>

\* claimLease: is there a lease?
Inspect(h) ==
  /\ AtPlace(h, "inspect")
  /\ Goto(h, IF lease = None THEN "start" ELSE "read")
  /\ UNCHANGED <<children, files, faults>>

ReadLease(h) ==
  /\ AtPlace(h, "read")
  /\ IF lease \in Child
     THEN Set(h, [host[h] EXCEPT !.pc = "judge", !.seen = lease])
     ELSE Fallback(h)
  /\ UNCHANGED <<children, files, faults>>

\* Both processes of the lease must be gone.
InUse(c) == host[c.host].pc # "dead" \/ c \in alive

Judge(h) ==
  /\ AtPlace(h, "judge")
  /\ IF InUse(host[h].seen) THEN Fallback(h) ELSE Goto(h, "compare")
  /\ UNCHANGED <<children, files, faults>>

CompareLease(h) ==
  /\ AtPlace(h, "compare")
  /\ IF lease = host[h].seen THEN Goto(h, "unlink") ELSE Fallback(h)
  /\ UNCHANGED <<children, files, faults>>

\* The comparison and the removal are two system calls.
Unlink(h) ==
  /\ AtPlace(h, "unlink")
  /\ IF lease = None
     THEN Fallback(h)
     ELSE Set(h, [host[h] EXCEPT !.pc = "start", !.seen = None])
  /\ lease' = None
  /\ raced' = (raced \/ lease \notin {None, host[h].seen})
  /\ UNCHANGED <<children, faults>>

\* Reserve a port and spawn the child.
StartChild(h) ==
  /\ AtPlace(h, "start")
  /\ \/ LET c == [host |-> h, n |-> host[h].starts + 1] IN
          /\ alive' = alive \cup {c}
          /\ Set(h, [host[h] EXCEPT !.pc = "wait", !.process = c, !.digest = host[h].want,
                                    !.starts = c.n])
          /\ UNCHANGED faults
     \/ Fallback(h) /\ Fault /\ UNCHANGED alive
  /\ UNCHANGED <<exited, served, survived, files>>

\* The probe answers before the exit event.
Ready(h) ==
  /\ AtPlace(h, "wait") /\ host[h].process # None
  /\ Goto(h, "create")
  /\ UNCHANGED <<children, files, faults>>

\* The child exits or the readiness bound passes first.
LeavesChild(h) ==   \* mutant
  /\ AtPlace(h, "wait") /\ Set(h, Stopped(FallsBack(host[h])))
  /\ UNCHANGED <<children, files, faults>>
NotReady(h) ==
  /\ AtPlace(h, "wait")
  /\ Stop(h, "fallback", host[h])
  /\ UNCHANGED <<children, raced, faults>>

\* writeLease: the file must not exist.
CreateLease(h) ==
  /\ AtPlace(h, "create")
  /\ \/ lease = None /\ lease' = Torn /\ Goto(h, "fill") /\ UNCHANGED faults
     \/ /\ \/ lease # None /\ UNCHANGED faults
           \/ Fault
        /\ Stop(h, "fallback", host[h])
  /\ UNCHANGED <<children, raced>>

\* The bytes go to the file that was created, which a race may have unlinked;
\* what was created stays when the write throws.
FillLease(h) ==
  /\ AtPlace(h, "fill")
  /\ \/ /\ \/ lease = Torn /\ lease' = host[h].process
           \/ raced /\ UNCHANGED lease
        /\ served' = served \cup ({host[h].process} \cap alive)
        /\ Set(h, [Returned(host[h]) EXCEPT !.ready = TRUE, !.fallback = None,
                                            !.leaseBytes = host[h].process])
        /\ UNCHANGED faults
     \/ Fault /\ Stop(h, "fallback", host[h]) /\ UNCHANGED served
  /\ UNCHANGED <<alive, exited, survived, raced>>

-----------------------------------------------------------------------------
(* compile and close.                                                      *)

\* A direct compiler changes nothing here; the connected one is modelled.
Compile(h, d) ==
  /\ AtPlace(h, "idle") /\ host[h].ready /\ host[h].digest = d
  /\ Set(h, [host[h] EXCEPT !.pc = "connected", !.want = d])
  /\ UNCHANGED <<children, files, faults>>

Compiled(h) ==
  /\ AtPlace(h, "connected")
  /\ Set(h, Returned(host[h]))
  /\ UNCHANGED <<children, files, faults>>

\* It failed: a server that still runs is asked whether it answers.
ConnectedFails(h) ==
  /\ AtPlace(h, "connected")
  /\ IF host[h].process # None
     THEN Goto(h, "probe") /\ UNCHANGED lease
     ELSE Stop(h, "fallback", host[h])
  /\ UNCHANGED <<children, raced, faults>>

Probed(h) ==
  /\ AtPlace(h, "probe")
  /\ \/ Set(h, Returned(host[h])) /\ UNCHANGED lease
     \/ Stop(h, "fallback", host[h])
  /\ UNCHANGED <<children, raced, faults>>

CloseServer(h) ==
  /\ AtPlace(h, "idle") /\ ~host[h].closed
  /\ Stop(h, "close", [host[h] EXCEPT !.closed = TRUE])
  /\ UNCHANGED <<children, raced, faults>>

-----------------------------------------------------------------------------
(* What happens to the processes.                                          *)

ChildExits(c) ==
  /\ c \in alive /\ alive' = alive \ {c} /\ served' = served \ {c}
  /\ UNCHANGED <<exited, survived, files, host, faults>>

\* unexpectedExit: nothing of a child that is no longer the current one, or
\* that is being stopped.
AnyExit(c) == TRUE   \* mutant
IsUnexpected(c) == host[c.host].process = c /\ ~Stopping(c.host)

ExitEvent(c) ==
  /\ c.n <= host[c.host].starts /\ c \notin alive \cup exited
  /\ host[c.host].pc \in Awaits
  /\ exited' = exited \cup {c}
  /\ IF IsUnexpected(c)
     THEN lease' = CleanedLease(c.host) /\ Set(c.host, Stopped(host[c.host]))
     ELSE UNCHANGED <<lease, host>>
  /\ UNCHANGED <<alive, served, survived, raced, faults>>

Crash(h) ==
  /\ ~AtPlace(h, "dead") /\ Fault
  /\ Set(h, Died(host[h].starts))
  /\ UNCHANGED <<children, files>>

-----------------------------------------------------------------------------
\* What an operation does by itself, or when a timer fires.
Step(h) ==
  \/ StopEnds(h) \/ Kill(h) \/ Abandon(h) \/ Inspect(h) \/ ReadLease(h) \/ Judge(h)
  \/ CompareLease(h) \/ Unlink(h) \/ StartChild(h) \/ NotReady(h) \/ CreateLease(h)
  \/ FillLease(h) \/ Compiled(h) \/ ConnectedFails(h) \/ Probed(h)

ServerNext ==
  \/ \E h \in Host :
       \/ Step(h) \/ Ready(h) \/ CloseServer(h) \/ Crash(h)
       \/ \E d \in Asks[h] : Ensure(h, d) \/ Compile(h, d)
  \/ \E c \in Child : ChildExits(c) \/ ExitEvent(c)

ServerSpec == ServerInit /\ [][ServerNext]_serverVars

\* Every await of an operation is bounded by a timer; compilers end.  Nothing
\* is assumed of the children: they may never answer and ignore both signals.
FairServerSpec == ServerSpec /\ \A h \in Host \ {Earlier} : WF_serverVars(Step(h))

-----------------------------------------------------------------------------
(* Properties.                                                             *)

\* A server that was ready and still runs is the one the lease names, also
\* after its host died, forgot it or started another: so a later host finds it
\* and there is one warm server per project.  A claim that raced is excepted.
ServersAreDiscoverable ==
  ~raced => \A c \in served : lease = c

\* A host has one child that it did not fail to stop.
OneChildPerHost ==
  \A c, d \in alive \ survived :
    c.host = d.host /\ ~AtPlace(c.host, "dead") => c = d

\* Every operation returns, even if the child never answers, ignores SIGTERM
\* and SIGKILL or its exit event comes late.
EveryOperationReturns ==
  \A h \in Host \ {Earlier} : ~AtPlace(h, "idle") ~> AtPlace(h, "idle") \/ AtPlace(h, "dead")
=============================================================================
