-------------------------- MODULE OutputTransaction --------------------------
(***************************************************************************)
(* src/genes/OutputTransaction.hx: how one compilation publishes its files *)
(* into an output directory it shares with other entry points (owners) and *)
(* with the user's own files.  Builds follow one another; each may fail or *)
(* die between any two calls of the file system, and publication as well   *)
(* as rollback is a sequence of such calls.                                *)
(*                                                                         *)
(* A name stands for its place in the order in which sortedKeys puts the   *)
(* names.  An owner is the name of its manifest, ".genes-output-...", and  *)
(* precedes every path.  Directories, symbolic links and the text of a     *)
(* manifest are left out; a generated file is the version of its source.   *)
(***************************************************************************)
EXTENDS Integers, Sequences, FiniteSets, SequencesExt

CONSTANTS
  Owner,       \* entry points, each named for its manifest
  Path,        \* the other names of the output directory
  Version,     \* versions of the program that is compiled
  MaxCrashes,  \* bound: compilers that die
  MaxFaults    \* bound: calls of the file system that throw

ASSUME NamesAssumption ==
  /\ Owner \subseteq Nat /\ Path \subseteq Nat /\ \A o \in Owner, p \in Path : o < p
  /\ IsFiniteSet(Owner) /\ IsFiniteSet(Path) /\ IsFiniteSet(Version)
  /\ MaxCrashes \in Nat /\ MaxFaults \in Nat

VARIABLES
  disk,       \* the output directory: what each name holds
  stage,      \* the owners whose private stage directory exists
  pc,
  owner, emits, version, skip,       \* the build: what its program emits
  staged, todo, mutated, backups,    \* its OutputTransaction and loops
  rollbackFailed,
  outcome,    \* how the last build ended
  prior,      \* history: the directory when the build began
  harmed,     \* history: a build died or could not be undone
  crashes, faults

build  == <<owner, emits, version, skip, prior>>
frame  == <<build, staged, todo, mutated, backups, rollbackFailed>>
bounds == <<harmed, crashes, faults>>
vars   == <<disk, stage, pc, frame, outcome, bounds>>

Name == Owner \cup Path

Absent  == [kind |-> "absent"]
User    == [kind |-> "user"]
Torn    == [kind |-> "torn"]
Code(v) == [kind |-> "code", version |-> v]
List(S) == [kind |-> "list", paths |-> S]

Holds == {Absent, User, Torn} \cup {Code(v) : v \in Version} \cup {List(S) : S \in SUBSET Path}

Exists(n) == disk[n] # Absent
IsList(o) == disk[o].kind = "list"

\* The paths a manifest declares; one that cannot be read declares none.
Listed(content) == IF content.kind = "list" THEN content.paths ELSE {}
Declared(o)     == Listed(disk[o])

\* What the build in hand publishes under a name.
New(n) == IF n \in Owner THEN List(staged) ELSE Code(version)

\* Each name stands where as many names precede it.
sortedKeys(S) ==
  [i \in 1..Cardinality(S) |-> CHOOSE n \in S : Cardinality({m \in S : m < n}) = i - 1]

Init ==
  /\ disk = [n \in Name |-> Absent] /\ stage = {}
  /\ pc = "idle" /\ owner = 0 /\ emits = {} /\ version = 0 /\ skip = FALSE /\ prior = <<>>
  /\ staged = {} /\ todo = <<>> /\ mutated = {} /\ backups = <<>> /\ rollbackFailed = FALSE
  /\ outcome = "none"
  /\ harmed = FALSE /\ crashes = 0 /\ faults = 0

-----------------------------------------------------------------------------
(* The build.                                                              *)

\* Generator.generate makes a transaction and runs the emitters; whether
\* unchanged files are left alone is a define of the build.
Begin(o, S, v, unchanged) ==
  /\ pc = "idle"
  /\ pc' = "emit" /\ outcome' = "none" /\ prior' = disk
  /\ owner' = o /\ emits' = S /\ version' = v /\ skip' = unchanged
  /\ staged' = {} /\ mutated' = {} /\ backups' = <<>> /\ todo' = <<>> /\ rollbackFailed' = FALSE
  /\ UNCHANGED <<disk, stage, bounds>>

\* register: the first file clears what an earlier build left on the stage.
Emit ==
  /\ pc = "emit"
  /\ pc' = "prepare" /\ staged' = emits
  /\ stage' = IF emits = {} THEN stage ELSE stage \cup {owner}
  /\ UNCHANGED <<disk, build, todo, mutated, backups, rollbackFailed, outcome, bounds>>

\* An emitter throws with part of its files staged.
EmitFails(S) ==
  /\ pc = "emit" /\ S \subseteq emits
  /\ pc' = "abort" /\ staged' = S
  /\ stage' = IF S = {} THEN stage ELSE stage \cup {owner}
  /\ UNCHANGED <<disk, build, todo, mutated, backups, rollbackFailed, outcome, bounds>>

\* Mutant of Stale: nothing is ever stale.
NothingStale == {}
Stale == Declared(owner) \ staged

\* commit() up to its first change of the public directory: the manifest in
\* force says what is stale, and the bytes of all that may change are kept.
Prepare ==
  /\ pc = "prepare" /\ ~(Exists(owner) /\ ~IsList(owner))
  /\ pc' = "stale" /\ todo' = sortedKeys(Stale)
  /\ stage' = stage \cup {owner}
  /\ backups' = [n \in {m \in Stale \cup staged \cup {owner} : Exists(m)} |-> disk[n]]
  /\ UNCHANGED <<disk, build, staged, mutated, rollbackFailed, outcome, bounds>>

\* The catch block of commit(): what was changed is undone from the last name
\* to the first.
Undo(S) ==
  /\ pc' = "rollback" /\ mutated' = S /\ todo' = Reverse(sortedKeys(S))
  /\ UNCHANGED <<build, staged, backups, rollbackFailed, outcome>>

\* readManifest throws on a manifest it cannot read.
Refuse ==
  /\ pc = "prepare" /\ Exists(owner) /\ ~IsList(owner)
  /\ Undo(mutated)
  /\ UNCHANGED <<disk, stage, bounds>>

\* With genes.unchanged_no_rewrite a file that would not change is left alone.
\* Mutant of Unchanged: any generated file counts as unchanged.
AnyGenerated(n) == skip /\ disk[n].kind = New(n).kind
Unchanged(n) == skip /\ disk[n] = New(n)

Coming == IF todo = <<>> THEN {} ELSE {Head(todo)}

\* The names commit() changes, and remembers as changed before it does.
Touches(n) == IF pc = "stale" THEN Exists(n) ELSE ~Unchanged(n)

RemoveStale ==
  /\ pc = "stale" /\ todo # <<>>
  /\ disk' = [disk EXCEPT ![Head(todo)] = Absent]
  /\ mutated' = mutated \cup {n \in Coming : Touches(n)}
  /\ todo' = Tail(todo)
  /\ UNCHANGED <<stage, pc, build, staged, backups, rollbackFailed, outcome, bounds>>

\* Mutant of PublicationPaths: names are published in their order.
InOrder == sortedKeys(staged \cup {owner})

\* The manifest goes last.
PublicationPaths == Append(sortedKeys(staged), owner)

StaleRemoved ==
  /\ pc = "stale" /\ todo = <<>>
  /\ pc' = "publish" /\ todo' = PublicationPaths
  /\ UNCHANGED <<disk, stage, build, staged, mutated, backups, rollbackFailed, outcome, bounds>>

KeepUnchanged ==
  /\ pc = "publish" /\ todo # <<>> /\ ~Touches(Head(todo))
  /\ todo' = Tail(todo)
  /\ UNCHANGED <<disk, stage, pc, build, staged, mutated, backups, rollbackFailed, outcome, bounds>>

\* The file in place is deleted, then the staged one is renamed to its name.
Replace ==
  /\ pc = "publish" /\ todo # <<>> /\ Touches(Head(todo))
  /\ mutated' = mutated \cup {Head(todo)}
  /\ LET n == Head(todo) IN
       IF Exists(n)
         THEN disk' = [disk EXCEPT ![n] = Absent] /\ UNCHANGED todo
         ELSE disk' = [disk EXCEPT ![n] = New(n)] /\ todo' = Tail(todo)
  /\ UNCHANGED <<stage, pc, build, staged, backups, rollbackFailed, outcome, bounds>>

\* The build is over and its variables are gone.
End(how) ==
  /\ pc' = "idle" /\ outcome' = how
  /\ owner' = 0 /\ emits' = {} /\ version' = 0 /\ skip' = FALSE /\ prior' = <<>>
  /\ staged' = {} /\ todo' = <<>> /\ mutated' = {} /\ backups' = <<>> /\ rollbackFailed' = FALSE

Committed ==
  /\ pc = "publish" /\ todo = <<>>
  /\ End("committed") /\ stage' = stage \ {owner}
  /\ UNCHANGED <<disk, bounds>>

\* generate deletes the compiler's private sentinel when the commit is over; if
\* that throws, the build fails with everything published.
SentinelStays ==
  /\ pc = "publish" /\ todo = <<>> /\ faults < MaxFaults
  /\ faults' = faults + 1
  /\ End("published") /\ stage' = stage \ {owner}
  /\ UNCHANGED <<disk, harmed, crashes>>

-----------------------------------------------------------------------------
(* Rollback and the end of a failed build.                                 *)

\* Mutant of NeedsRestore: files a user wrote are not kept.
OwnFilesOnly(n) == n \in DOMAIN backups /\ backups[n] # User
NeedsRestore(n) == n \in DOMAIN backups

\* rollback deletes what is there and writes the kept bytes back.
RollBack ==
  /\ pc = "rollback" /\ todo # <<>>
  /\ LET n == Head(todo) IN
       IF Exists(n)
         THEN /\ disk' = [disk EXCEPT ![n] = Absent]
              /\ todo' = IF NeedsRestore(n) THEN todo ELSE Tail(todo)
         ELSE /\ disk' = [disk EXCEPT ![n] = IF NeedsRestore(n) THEN backups[n] ELSE Absent]
              /\ todo' = Tail(todo)
  /\ UNCHANGED <<stage, pc, build, staged, mutated, backups, rollbackFailed, outcome, bounds>>

RolledBack ==
  /\ pc = "rollback" /\ todo = <<>>
  /\ pc' = "abort" /\ stage' = stage \ {owner}
  /\ UNCHANGED <<disk, build, staged, todo, mutated, backups, rollbackFailed, outcome, bounds>>

\* The catch block of Generator.generate: abort() drops the stage (again) and
\* the first error goes to the caller, unless something could not be undone.
Abort ==
  /\ pc = "abort"
  /\ End(IF rollbackFailed THEN "unrestored" ELSE "failed")
  /\ harmed' = (harmed \/ rollbackFailed)
  /\ stage' = stage \ {owner}
  /\ UNCHANGED <<disk, crashes, faults>>

-----------------------------------------------------------------------------
(* Failure and the user.                                                   *)

\* What a write that was cut short may leave: no file, part of it, all of it.
\* Part of a manifest may still be read as a shorter one.
Cut(content) ==
  {Absent, Torn, content} \cup
    (IF content.kind = "list" THEN {List(S) : S \in SUBSET content.paths} ELSE {})

\* The rollback that restores the next name is in the middle of saveBytes.
Writing == pc = "rollback" /\ todo # <<>> /\ ~Exists(Head(todo)) /\ NeedsRestore(Head(todo))

CutShort ==
  \/ UNCHANGED disk
  \/ Writing /\ \E c \in Cut(backups[Head(todo)]) : disk' = [disk EXCEPT ![Head(todo)] = c]

\* A call throws before the commit is complete: the name it was for counts as
\* changed.  The removal of the stage is the last of these calls.
CommitFails ==
  /\ pc \in {"prepare", "stale", "publish"} /\ faults < MaxFaults
  /\ faults' = faults + 1
  /\ \E reached \in BOOLEAN :
       Undo(mutated \cup {n \in Coming : reached /\ Touches(n)})
  /\ stage' \in {stage, stage \cup {owner}, stage \ {owner}}
  /\ UNCHANGED <<disk, harmed, crashes>>

\* A call throws during rollback or clean-up: the rest of it is not done.
UndoFails ==
  /\ pc \in {"rollback", "abort"} /\ faults < MaxFaults
  /\ faults' = faults + 1
  /\ CutShort
  /\ \/ /\ pc = "rollback" /\ todo' = <<>> /\ rollbackFailed' = TRUE
        /\ pc' = IF todo = <<>> THEN "abort" ELSE pc
        /\ UNCHANGED <<stage, build, staged, mutated, backups, outcome, harmed>>
     \/ /\ pc = "abort" /\ End("unrestored") /\ harmed' = TRUE
        /\ stage' \in {stage, stage \ {owner}}
  /\ UNCHANGED crashes

Crash ==
  /\ pc # "idle" /\ crashes < MaxCrashes
  /\ crashes' = crashes + 1 /\ harmed' = TRUE /\ End("none")
  /\ CutShort
  /\ stage' \in {stage, stage \cup {owner}}
  /\ UNCHANGED faults

\* Between builds the user writes and deletes files, generated ones included.
UserEdit(p, content) ==
  /\ pc = "idle" /\ disk[p] # content
  /\ disk' = [disk EXCEPT ![p] = content] /\ outcome' = "none"
  /\ UNCHANGED <<stage, pc, frame, bounds>>

-----------------------------------------------------------------------------
Build ==
  \/ Emit \/ (\E S \in SUBSET Path : EmitFails(S)) \/ Prepare \/ Refuse
  \/ RemoveStale \/ StaleRemoved \/ KeepUnchanged \/ Replace \/ Committed
  \/ RollBack \/ RolledBack \/ Abort

Next ==
  \/ \E o \in Owner, S \in SUBSET Path, v \in Version, unchanged \in BOOLEAN :
       Begin(o, S, v, unchanged)
  \/ Build
  \/ SentinelStays \/ CommitFails \/ UndoFails \/ Crash
  \/ \E p \in Path, content \in {User, Absent} : UserEdit(p, content)

Spec == Init /\ [][Next]_vars

-----------------------------------------------------------------------------
(* Properties.                                                             *)

\* Every name holds an absent, user's, torn or generated file or, if it is a
\* manifest, a list, and the loops of a build stay inside its own names.
TypeOK ==
  /\ disk \in [Name -> Holds] /\ stage \subseteq Owner
  /\ pc \in {"idle", "emit", "prepare", "stale", "publish", "rollback", "abort"}
  /\ owner \in Owner \cup {0} /\ emits \subseteq Path /\ staged \subseteq emits
  /\ mutated \subseteq emits \cup {owner} \cup DOMAIN backups
  /\ DOMAIN backups \subseteq Name /\ ToSet(todo) \subseteq Name
  /\ skip \in BOOLEAN /\ rollbackFailed \in BOOLEAN /\ harmed \in BOOLEAN
  /\ outcome \in {"none", "committed", "published", "failed", "unrestored"}
  /\ crashes \in 0..MaxCrashes /\ faults \in 0..MaxFaults

Ends == pc # "idle" /\ pc' = "idle"

\* A build that returns, or fails only to delete the compiler's sentinel, has
\* published all it emits, at one version, removed what only its last build
\* emitted, declared exactly its files and touched nothing else; unchanged files may have been left alone, and what an earlier
\* build that died left behind does not show.
CommitIsComplete ==
  [][ Ends /\ outcome' \in {"committed", "published"} =>
        /\ disk' = [n \in Name |->
                      CASE n = owner -> List(emits)
                        [] n \in emits -> Code(version)
                        [] n \in Listed(prior[owner]) \ emits -> Absent
                        [] OTHER -> prior[n]]
        /\ owner \notin stage' ]_vars

\* A build that throws the error of its emission, its publication or the removal
\* of its stage has left the directory as it found it and no stage.
FailureRestores ==
  [][ Ends /\ outcome' = "failed" => disk' = prior /\ owner \notin stage' ]_vars

\* Unless a build died or could not be undone, every generated file is declared
\* by some owner, so that a later build can find it and remove it.
NothingIsOrphaned ==
  pc = "idle" /\ ~harmed =>
    \A p \in Path : disk[p] \notin {Absent, User} => \E o \in Owner : p \in Declared(o)

\* While a commit goes forward, and so also after a death in it, a manifest that
\* is not the previous one declares files that are all in place and new.
NewManifestIsComplete ==
  pc \in {"stale", "publish"} /\ disk[owner] \notin {prior[owner], Absent} =>
    \A p \in emits : p \in Declared(owner) /\ disk[p] = Code(version)

(* What the comments of the repository say, and the code does not do.      *)

\* "A reader can therefore never observe a new ownership declaration before its
\* files exist" (commit): a rollback takes the new files away first.
DeclarationHasItsFiles ==
  pc # "idle" /\ disk[owner] \notin {prior[owner], Absent} =>
    \A p \in Declared(owner) : Exists(p)

\* "... remain independent owners in one directory" (docs/ARCHITECTURE.md): a
\* build never removes a file that another owner declares.
OwnersAreIndependent ==
  [][ Ends /\ outcome' = "committed" =>
        \A o \in Owner \ {owner}, p \in Path :
          p \in Declared(o) /\ prior[p] # Absent => disk'[p] # Absent ]_vars
==============================================================================
