--------------------------- MODULE CompilerProofs ---------------------------
(***************************************************************************)
(* Proofs about what the compiler writes and imports.                      *)
(*                                                                         *)
(* OutputTransaction: for any owners, paths and versions and any number of *)
(* calls that throw and compilers that die.  DependencyPlan: for any edges *)
(* of a module, aliases and names of the module and of the language.       *)
(***************************************************************************)
EXTENDS OutputTransaction, DependencyPlan,
        FiniteSetTheorems, FunctionTheorems, SequenceTheorems, WellFoundedInduction, TLAPS

-----------------------------------------------------------------------------
(* What the names and their contents are.                                  *)

\* There are finitely many names, all numbers, and none is a manifest's and a
\* path's at once.
LEMMA NamesAreFinite ==
  /\ Name \subseteq Nat /\ IsFiniteSet(Name)
  /\ \A S \in SUBSET Name : IsFiniteSet(S) /\ S \subseteq Nat
  /\ Owner \cap Path = {} /\ Owner \subseteq Name /\ Path \subseteq Name
<1>1. Name \subseteq Nat /\ IsFiniteSet(Name)
  BY NamesAssumption, FS_Union DEF Name
<1>2. \A S \in SUBSET Name : IsFiniteSet(S)
  BY <1>1, FS_Subset
<1>3. Owner \cap Path = {}
  BY NamesAssumption
<1> QED BY <1>1, <1>2, <1>3 DEF Name

\* The contents a name can have are told apart by their kind.
LEMMA ContentsDiffer ==
  /\ Absent \in Holds /\ User \in Holds /\ Torn \in Holds
  /\ User # Absent /\ Listed(Absent) = {} /\ Listed(User) = {}
  /\ \A v \in Version : Code(v) \in Holds /\ Code(v) # Absent
  /\ \A S \in SUBSET Path : /\ List(S) \in Holds /\ List(S) # Absent
                            /\ Listed(List(S)) = S /\ List(S).kind = "list" /\ List(S).paths = S
  /\ \A c \in Holds : Listed(c) \subseteq Path
  /\ \A c \in Holds : c.kind = "list" => c.paths \subseteq Path
<1> USE DEF Absent, User, Torn, Code, List, Listed
<1>1. /\ Absent \in Holds /\ User \in Holds /\ Torn \in Holds
      /\ \A v \in Version : Code(v) \in Holds
      /\ \A S \in SUBSET Path : List(S) \in Holds
  BY DEF Holds
<1>2. Absent.kind = "absent" /\ User.kind = "user" /\ Torn.kind = "torn"
  OBVIOUS
<1>3. \A v \in Version : Code(v).kind = "code"
  OBVIOUS
<1>4. \A S \in SUBSET Path : List(S).kind = "list" /\ List(S).paths = S /\ Listed(List(S)) = S
  OBVIOUS
<1>5. \A c \in Holds : c.kind = "list" => c.paths \subseteq Path
  BY <1>2, <1>3, <1>4 DEF Holds
<1>6. \A c \in Holds : Listed(c) \subseteq Path
  BY <1>5
<1> HIDE DEF Absent, User, Torn, Code, List, Listed
<1>7. User # Absent /\ (\A v \in Version : Code(v) # Absent)
      /\ (\A S \in SUBSET Path : List(S) # Absent)
  BY <1>2, <1>3, <1>4
<1>8. Listed(Absent) = {} /\ Listed(User) = {}
  BY <1>2 DEF Listed
<1> QED BY <1>1, <1>4, <1>5, <1>6, <1>7, <1>8

\* What a build publishes is something a name can hold.
LEMMA NewIsContent ==
  ASSUME staged \subseteq Path, version \in Version, NEW n \in Name
  PROVE  New(n) \in Holds /\ New(n) # Absent
BY ContentsDiffer DEF New

-----------------------------------------------------------------------------
(* sortedKeys and Reverse lose no name and add none.                       *)

\* The rank of a name in a finite set of numbers is below the size of the set
\* and belongs to no other name.
LEMMA RanksDiffer ==
  ASSUME NEW S \in SUBSET Nat, IsFiniteSet(S)
  PROVE  LET rank == [n \in S |-> Cardinality({m \in S : m < n})]
         IN  rank \in Injection(S, 0..(Cardinality(S) - 1))
<1> DEFINE Below(n) == {m \in S : m < n}
           rank == [n \in S |-> Cardinality(Below(n))]
<1>1. ASSUME NEW n \in S PROVE IsFiniteSet(Below(n)) /\ Cardinality(Below(n)) \in Nat
                               /\ Cardinality(Below(n)) < Cardinality(S)
  <2>1. Below(n) \in SUBSET S /\ Below(n) # S
    BY <1>1
  <2>2. /\ IsFiniteSet(Below(n)) /\ Cardinality(Below(n)) <= Cardinality(S)
        /\ Cardinality(Below(n)) # Cardinality(S)
    BY <2>1, FS_Subset
  <2>3. Cardinality(Below(n)) \in Nat /\ Cardinality(S) \in Nat
    BY <2>2, FS_CardinalityType
  <2> HIDE DEF Below
  <2> QED BY <2>2, <2>3
<1>2. ASSUME NEW n \in S, NEW k \in S, n < k PROVE Cardinality(Below(n)) # Cardinality(Below(k))
  <2>1. Below(n) \in SUBSET Below(k) /\ Below(n) # Below(k)
    <3>1. n \in Nat /\ k \in Nat /\ \A m \in S : m \in Nat
      OBVIOUS
    <3>2. n \in Below(k) /\ n \notin Below(n)
      BY <1>2, <3>1
    <3>3. \A m \in Below(n) : m \in S /\ m < k
      BY <1>2, <3>1
    <3> QED BY <3>2, <3>3
  <2> QED BY <1>1, <2>1, FS_Subset
<1>3. Cardinality(S) \in Nat
  BY FS_CardinalityType
<1> HIDE DEF Below
<1>4. rank \in [S -> 0..(Cardinality(S) - 1)]
  BY <1>1, <1>3
<1>5. ASSUME NEW n \in S, NEW k \in S, rank[n] = rank[k] PROVE n = k
  <2>1. n \in Nat /\ k \in Nat
    OBVIOUS
  <2> QED BY <1>2, <1>5, <2>1
<1>6. rank \in Injection(S, 0..(Cardinality(S) - 1))
  BY <1>4, <1>5 DEF Injection, IsInjective
<1> QED BY <1>6 DEF Below

\* sortedKeys enumerates the set it is given.
LEMMA SortedKeysAll ==
  ASSUME NEW S \in SUBSET Nat, IsFiniteSet(S)
  PROVE  sortedKeys(S) \in Seq(S) /\ ToSet(sortedKeys(S)) = S
<1> DEFINE N == Cardinality(S)
           Rank(n) == Cardinality({m \in S : m < n})
           rank == [n \in S |-> Rank(n)]
<1>1. N \in Nat
  BY FS_CardinalityType
<1>2. rank \in Injection(S, 0..(N - 1))
  BY RanksDiffer
<1> HIDE DEF Rank
<1>3. rank \in Surjection(S, 0..(N - 1))
  <2>1. IsFiniteSet(0..(N - 1)) /\ Cardinality(0..(N - 1)) = N
    <3> HIDE DEF N
    <3>1. 0 \in Int /\ N - 1 \in Int
      BY <1>1
    <3>2. /\ IsFiniteSet(0..(N - 1))
          /\ Cardinality(0..(N - 1)) = IF 0 > N - 1 THEN 0 ELSE (N - 1) - 0 + 1
      BY <3>1, FS_Interval
    <3> QED BY <1>1, <3>2
  <2> HIDE DEF N, rank
  <2> QED BY <1>2, <2>1, FS_Injection DEF N
<1>4. ASSUME NEW i \in 1..N PROVE \E n \in S : Rank(n) = i - 1
  <2>1. i - 1 \in 0..(N - 1)
    BY <1>1
  <2> HIDE DEF N
  <2>2. PICK n \in S : rank[n] = i - 1
    BY <1>3, <2>1 DEF Surjection
  <2> QED BY <2>2
<1>5. ASSUME NEW n \in S PROVE Rank(n) \in 0..(N - 1)
  BY <1>2 DEF Injection, IsInjective
<1>6. ASSUME NEW n \in S, NEW k \in S, Rank(n) = Rank(k) PROVE n = k
  BY <1>2, <1>6 DEF Injection, IsInjective
<1> DEFINE s == [i \in 1..N |-> CHOOSE n \in S : Rank(n) = i - 1]
<1>7. sortedKeys(S) = s
  BY DEF sortedKeys, Rank
<1>8. ASSUME NEW i \in 1..N PROVE s[i] \in S /\ Rank(s[i]) = i - 1
  BY <1>4
<1>9. s \in Seq(S) /\ DOMAIN s = 1..N
  BY <1>1, <1>8
<1>10. ASSUME NEW n \in S PROVE \E i \in 1..N : s[i] = n
  <2>1. Rank(n) + 1 \in 1..N
    BY <1>1, <1>5
  <2>2. s[Rank(n) + 1] = n
    <3>1. Rank(n) \in Int /\ (Rank(n) + 1) - 1 = Rank(n)
      BY <1>1, <1>5
    <3> HIDE DEF s
    <3> QED BY <1>6, <1>8, <2>1, <3>1
  <2> QED BY <2>1, <2>2
<1> HIDE DEF s, N
<1>11. ToSet(s) = S
  BY <1>8, <1>9, <1>10 DEF ToSet
<1> QED BY <1>7, <1>9, <1>11

\* Reverse keeps the elements of a sequence.
LEMMA ReverseAll ==
  ASSUME NEW S, NEW s \in Seq(S)
  PROVE  Reverse(s) \in Seq(S) /\ ToSet(Reverse(s)) = ToSet(s)
<1>1. Len(s) \in Nat /\ DOMAIN s = 1..Len(s) /\ \A i \in 1..Len(s) : s[i] \in S
  OBVIOUS
<1>2. Reverse(s) \in Seq(S) /\ DOMAIN Reverse(s) = 1..Len(s)
  BY <1>1 DEF Reverse
<1>3. \A i \in 1..Len(s) : (Len(s) - i) + 1 \in 1..Len(s)
                           /\ (Len(s) - ((Len(s) - i) + 1)) + 1 = i
  BY <1>1
<1>4. \A i \in 1..Len(s) : Reverse(s)[i] = s[(Len(s) - i) + 1]
  BY DEF Reverse
<1>5. ToSet(Reverse(s)) \subseteq ToSet(s)
  BY <1>1, <1>2, <1>3, <1>4 DEF ToSet
<1>6. ToSet(s) \subseteq ToSet(Reverse(s))
  <2> SUFFICES ASSUME NEW i \in 1..Len(s) PROVE \E j \in 1..Len(s) : Reverse(s)[j] = s[i]
    BY <1>1, <1>2 DEF ToSet
  <2> QED BY <1>3, <1>4
<1> QED BY <1>2, <1>5, <1>6

\* A loop that takes the head of its list keeps every other name in it.
LEMMA HeadAndTail ==
  ASSUME NEW S, NEW s \in Seq(S), s # <<>>
  PROVE  /\ Head(s) \in S /\ Tail(s) \in Seq(S)
         /\ ToSet(s) = {Head(s)} \cup ToSet(Tail(s))
<1>1. /\ Len(s) \in Nat \ {0} /\ DOMAIN s = 1..Len(s) /\ Head(s) = s[1]
      /\ Tail(s) \in Seq(S) /\ Len(Tail(s)) = Len(s) - 1 /\ DOMAIN Tail(s) = 1..(Len(s) - 1)
      /\ \A i \in 1..(Len(s) - 1) : Tail(s)[i] = s[i + 1]
  OBVIOUS
<1>2. ToSet(s) \subseteq {Head(s)} \cup ToSet(Tail(s))
  <2> SUFFICES ASSUME NEW i \in 1..Len(s), i # 1 PROVE s[i] \in ToSet(Tail(s))
    BY <1>1 DEF ToSet
  <2>1. i - 1 \in 1..(Len(s) - 1) /\ Tail(s)[i - 1] = s[i]
    BY <1>1
  <2> QED BY <1>1, <2>1 DEF ToSet
<1>3. {Head(s)} \cup ToSet(Tail(s)) \subseteq ToSet(s)
  <2>1. Head(s) \in ToSet(s)
    BY <1>1 DEF ToSet
  <2>2. ASSUME NEW i \in 1..(Len(s) - 1) PROVE Tail(s)[i] \in ToSet(s)
    <3>1. i + 1 \in 1..Len(s)
      BY <1>1
    <3> QED BY <1>1, <3>1 DEF ToSet
  <2> QED BY <1>1, <2>1, <2>2 DEF ToSet
<1>4. Head(s) \in S
  BY <1>1
<1> QED BY <1>1, <1>2, <1>3, <1>4
-----------------------------------------------------------------------------
(* The inductive invariant.                                                *)

\* What the last build of the owner emitted and this one does not, and all
\* names that a build may change.
Gone == Listed(prior[owner]) \ staged
Mine == Gone \cup staged \cup {owner}

\* The types, and that the variables of a build are there during one.
Shape ==
  /\ disk \in [Name -> Holds] /\ stage \subseteq Owner
  /\ pc \in {"idle", "emit", "prepare", "stale", "publish", "rollback", "abort"}
  /\ emits \subseteq Path /\ staged \subseteq emits /\ todo \in Seq(Name)
  /\ skip \in BOOLEAN /\ rollbackFailed \in BOOLEAN /\ harmed \in BOOLEAN
  /\ outcome \in {"none", "committed", "published", "failed", "unrestored"}
  /\ crashes \in 0..MaxCrashes /\ faults \in 0..MaxFaults
  /\ pc = "idle" => /\ owner = 0 /\ staged = {} /\ todo = <<>> /\ mutated = {} /\ backups = <<>>
  /\ pc # "idle" => /\ owner \in Owner /\ version \in Version /\ prior \in [Name -> Holds]
                    /\ mutated \subseteq staged \cup {owner} \cup DOMAIN backups
  /\ pc \in {"emit", "prepare", "abort"} => todo = <<>>
  /\ pc \in {"prepare", "stale", "publish"} => staged = emits
  /\ pc \in {"emit", "prepare", "stale", "publish"} => ~rollbackFailed

\* Before the commit nothing has changed.
NothingChanged ==
  pc \in {"emit", "prepare"} => disk = prior /\ mutated = {} /\ backups = <<>>

\* What commit() keeps are the bytes that were there; a name it may change and
\* has not kept did not exist.
BackupsAreOld ==
  pc # "idle" => /\ DOMAIN backups \subseteq Mine
                 /\ \A n \in DOMAIN backups : backups[n] = prior[n] /\ prior[n] # Absent
                 /\ \A n \in mutated \cup ToSet(todo) :
                      pc # "abort" /\ n \notin DOMAIN backups => prior[n] = Absent

\* Every name that has changed counts as changed.
ChangesAreKnown ==
  pc \in {"emit", "prepare", "stale", "publish"} =>
    \A n \in Name : disk[n] # prior[n] => n \in mutated

CommitKeepsAll == \A n \in Mine : n \notin DOMAIN backups => prior[n] = Absent

\* The first loop of commit(): what is not listed any more is gone.
StaleLoop ==
  pc = "stale" =>
    /\ ToSet(todo) \subseteq Gone /\ CommitKeepsAll
    /\ \A n \in Name \ Gone : disk[n] = prior[n]
    /\ \A n \in Gone : disk[n] = Absent \/ (n \in ToSet(todo) /\ disk[n] = prior[n])

\* The second one: the manifest comes last.
PublishLoop ==
  pc = "publish" =>
    /\ ToSet(todo) \subseteq staged \cup {owner} /\ CommitKeepsAll
    /\ \A i \in 1..Len(todo) : todo[i] = owner <=> i = Len(todo)
    /\ \A n \in Gone : disk[n] = Absent
    /\ \A n \in Name \ Mine : disk[n] = prior[n]
    /\ \A n \in staged \cup {owner} : n \in ToSet(todo) \/ disk[n] = New(n)
    /\ todo # <<>> => disk[owner] \in {prior[owner], Absent}

\* The loop of rollback: what it has left behind is as the build found it.
RollbackLoop ==
  pc \in {"rollback", "abort"} /\ ~rollbackFailed =>
    \A n \in Name : n \in ToSet(todo) \/ disk[n] = prior[n]

\* What some owner declares, of all that was generated.
Declares(files) ==
  \A p \in Path : files[p] \notin {Absent, User} => \E o \in Owner : p \in Listed(files[o])

\* The last directory at rest declared what it held.
RestDeclares == ~harmed => Declares(IF pc = "idle" THEN disk ELSE prior)

OutputInv ==
  /\ Shape /\ NothingChanged /\ BackupsAreOld /\ ChangesAreKnown
  /\ StaleLoop /\ PublishLoop /\ RollbackLoop /\ RestDeclares
-----------------------------------------------------------------------------
(* Steps that actions share.                                               *)

\* A build changes names of the output directory only.
LEMMA MineIsNames ==
  ASSUME Shape, pc # "idle"
  PROVE  Gone \subseteq Path /\ Mine \subseteq Name /\ owner \in Name /\ staged \subseteq Path
BY ContentsDiffer, NamesAreFinite DEF Shape, Gone, Mine

\* The end of a build: what is left is the directory.
LEMMA EndStep ==
  ASSUME OutputInv, NEW how \in {"none", "committed", "published", "failed", "unrestored"}, End(how),
         disk' \in [Name -> Holds], stage' \subseteq Owner, harmed' \in BOOLEAN,
         crashes' \in 0..MaxCrashes, faults' \in 0..MaxFaults,
         ~harmed' => Declares(disk)'
  PROVE  OutputInv'
<1>1. <<>> \in Seq(Name)
  OBVIOUS
<1>2. Shape'
  BY <1>1 DEF End, Shape
<1>3. /\ NothingChanged' /\ BackupsAreOld' /\ ChangesAreKnown' /\ StaleLoop' /\ PublishLoop'
      /\ RollbackLoop'
  BY DEF End, NothingChanged, BackupsAreOld, ChangesAreKnown, StaleLoop, PublishLoop, RollbackLoop
<1>4. RestDeclares'
  BY DEF End, RestDeclares, Declares
<1> QED BY <1>2, <1>3, <1>4 DEF OutputInv

\* The catch block of commit(): the names to undo are all that have changed,
\* and perhaps the next one.
LEMMA UndoStep ==
  ASSUME OutputInv, pc \in {"prepare", "stale", "publish"},
         NEW S, mutated \subseteq S, S \subseteq mutated \cup ToSet(todo), Undo(S),
         S \subseteq staged \cup {owner} \cup DOMAIN backups,
         UNCHANGED <<disk, harmed, crashes>>, stage' \subseteq Owner, faults' \in 0..MaxFaults
  PROVE  OutputInv'
<1>1. pc # "idle" /\ S \subseteq Mine
  BY DEF OutputInv, Shape, BackupsAreOld, Mine
<1>2. S \subseteq Name /\ S \subseteq Nat /\ IsFiniteSet(S)
  BY <1>1, MineIsNames, NamesAreFinite DEF OutputInv
<1>3. sortedKeys(S) \in Seq(S) /\ ToSet(sortedKeys(S)) = S
  BY <1>2, SortedKeysAll
<1>4. todo' \in Seq(S) /\ ToSet(todo') = S
  BY <1>3, ReverseAll DEF Undo
<1>5. Shape'
  <2>1. todo' \in Seq(Name)
    BY <1>2, <1>4, SeqMonotonic
  <2> QED BY <1>1, <2>1 DEF OutputInv, Shape, Undo, build, Mine, Gone
<1>6. BackupsAreOld'
  BY <1>1, <1>4 DEF OutputInv, BackupsAreOld, Undo, build, Mine, Gone, ToSet
<1>7. RollbackLoop'
  BY <1>4 DEF OutputInv, ChangesAreKnown, RollbackLoop, Undo, build, ToSet
<1>8. NothingChanged' /\ ChangesAreKnown' /\ StaleLoop' /\ PublishLoop'
  BY DEF NothingChanged, ChangesAreKnown, StaleLoop, PublishLoop, Undo
<1>9. RestDeclares'
  BY <1>1 DEF OutputInv, RestDeclares, Declares, Undo, build
<1> QED BY <1>5, <1>6, <1>7, <1>8, <1>9 DEF OutputInv
-----------------------------------------------------------------------------
(* The steps.                                                              *)

\* An empty directory.
LEMMA OutputInit == Init => OutputInv
<1> SUFFICES ASSUME Init PROVE OutputInv
  OBVIOUS
<1>1. Shape
  <2>1. disk \in [Name -> Holds]
    BY ContentsDiffer DEF Init
  <2>2. crashes \in 0..MaxCrashes /\ faults \in 0..MaxFaults
    BY NamesAssumption DEF Init
  <2>3. todo \in Seq(Name)
    BY DEF Init
  <2> QED BY <2>1, <2>2, <2>3 DEF Init, Shape
<1>2. RestDeclares
  BY NamesAreFinite DEF Init, RestDeclares, Declares
<1> QED BY <1>1, <1>2 DEF Init, OutputInv, NothingChanged, BackupsAreOld, ChangesAreKnown,
  StaleLoop, PublishLoop, RollbackLoop

\* What no step of a build but its last one changes.
LEMMA RestKept ==
  ASSUME OutputInv, pc # "idle", pc' # "idle", UNCHANGED <<prior, harmed>>
  PROVE  RestDeclares'
BY DEF OutputInv, RestDeclares, Declares

LEMMA BeginKeeps ==
  ASSUME OutputInv, NEW o \in Owner, NEW S \in SUBSET Path, NEW v \in Version,
         NEW unchanged \in BOOLEAN, Begin(o, S, v, unchanged)
  PROVE  OutputInv'
<1> USE DEF Begin, OutputInv, bounds
<1>1. Shape'
  BY DEF Shape
<1>2. NothingChanged' /\ BackupsAreOld' /\ ChangesAreKnown'
  BY DEF NothingChanged, BackupsAreOld, ChangesAreKnown, ToSet
<1>3. StaleLoop' /\ PublishLoop' /\ RollbackLoop'
  BY DEF StaleLoop, PublishLoop, RollbackLoop
<1>4. RestDeclares'
  BY DEF RestDeclares, Declares
<1> QED BY <1>1, <1>2, <1>3, <1>4

LEMMA EmitKeeps ==
  ASSUME OutputInv, Emit \/ \E S \in SUBSET Path : EmitFails(S)
  PROVE  OutputInv'
<1> USE DEF Emit, EmitFails, OutputInv, build, bounds
<1>1. Shape'
  BY DEF Shape, NothingChanged
<1>2. NothingChanged' /\ BackupsAreOld' /\ ChangesAreKnown'
  BY DEF NothingChanged, BackupsAreOld, ChangesAreKnown, Shape, ToSet
<1>3. StaleLoop' /\ PublishLoop' /\ RollbackLoop'
  BY DEF StaleLoop, PublishLoop, RollbackLoop, NothingChanged
<1>4. RestDeclares'
  BY RestKept
<1> QED BY <1>1, <1>2, <1>3, <1>4

\* commit() keeps the bytes of all names it may change.
LEMMA PrepareKeeps ==
  ASSUME OutputInv, Prepare
  PROVE  OutputInv'
<1>1. /\ pc = "prepare" /\ disk = prior /\ mutated = {} /\ Stale = Gone /\ Mine' = Mine /\ Gone' = Gone
      /\ Gone \subseteq Path /\ Mine \subseteq Name /\ pc' = "stale" /\ staged = emits
  BY MineIsNames DEF Prepare, OutputInv, NothingChanged, Shape, Stale, Declared, Gone, Mine, build
<1>2. sortedKeys(Gone) \in Seq(Gone) /\ ToSet(sortedKeys(Gone)) = Gone
  BY <1>1, NamesAreFinite, SortedKeysAll
<1>3. todo' \in Seq(Name) /\ ToSet(todo') = Gone /\ ToSet(todo)' = ToSet(todo')
  BY <1>1, <1>2, SeqMonotonic, NamesAreFinite DEF Prepare
<1>4. /\ DOMAIN backups' = {m \in Mine : prior[m] # Absent}
      /\ \A n \in DOMAIN backups' : backups'[n] = prior[n]
  BY <1>1 DEF Prepare, Exists, Mine
<1>5. Shape'
  BY <1>1, <1>3 DEF Prepare, OutputInv, Shape, build, bounds
<1>6. NothingChanged' /\ BackupsAreOld' /\ ChangesAreKnown'
  BY <1>1, <1>3, <1>4 DEF NothingChanged, BackupsAreOld, ChangesAreKnown, Prepare, build, Mine
<1>7. StaleLoop' /\ PublishLoop' /\ RollbackLoop'
  BY <1>1, <1>3, <1>4 DEF StaleLoop, PublishLoop, RollbackLoop, CommitKeepsAll, Prepare, build,
     Mine, Gone
<1>8. RestDeclares'
  BY <1>1, RestKept DEF Prepare, build, bounds
<1> QED BY <1>5, <1>6, <1>7, <1>8 DEF OutputInv

LEMMA RefuseKeeps ==
  ASSUME OutputInv, Refuse
  PROVE  OutputInv'
BY UndoStep DEF Refuse, bounds, OutputInv, Shape

LEMMA RemoveStaleKeeps ==
  ASSUME OutputInv, RemoveStale
  PROVE  OutputInv'
<1> DEFINE n == Head(todo)
<1>1. /\ pc = "stale" /\ pc' = "stale" /\ n \in Name /\ todo' \in Seq(Name)
      /\ ToSet(todo) = {n} \cup ToSet(todo')
  BY HeadAndTail DEF RemoveStale, OutputInv, Shape
<1>2. /\ n \in Gone /\ n \in Path /\ n # owner /\ Mine' = Mine /\ Gone' = Gone
      /\ ToSet(todo)' = ToSet(todo') /\ n \in Mine
  BY <1>1, MineIsNames, NamesAreFinite
     DEF RemoveStale, OutputInv, StaleLoop, build, Mine, Gone, Shape
<1>3. disk' \in [Name -> Holds] /\ disk'[n] = Absent /\ \A m \in Name \ {n} : disk'[m] = disk[m]
  BY <1>1, ContentsDiffer DEF RemoveStale, OutputInv, Shape
<1>4. mutated \subseteq mutated' /\ mutated' \subseteq mutated \cup {n} /\ (disk[n] # Absent => n \in mutated')
      /\ (n \in mutated' \ mutated => n \in DOMAIN backups)
  BY <1>1, <1>2 DEF RemoveStale, Coming, Touches, Exists, OutputInv, StaleLoop, CommitKeepsAll
<1> HIDE DEF n
<1>5. Shape'
  BY <1>1, <1>2, <1>3, <1>4 DEF RemoveStale, OutputInv, Shape, build, bounds
<1>6. NothingChanged' /\ BackupsAreOld' /\ ChangesAreKnown'
  BY <1>1, <1>2, <1>3, <1>4
     DEF OutputInv, NothingChanged, BackupsAreOld, ChangesAreKnown, RemoveStale, build
<1>7. StaleLoop' /\ PublishLoop' /\ RollbackLoop'
  BY <1>1, <1>2, <1>3
     DEF OutputInv, StaleLoop, PublishLoop, RollbackLoop, CommitKeepsAll, RemoveStale, build, Mine,
     Gone
<1>8. RestDeclares'
  BY <1>1, RestKept DEF RemoveStale, build, bounds
<1> QED BY <1>5, <1>6, <1>7, <1>8 DEF OutputInv

LEMMA StaleRemovedKeeps ==
  ASSUME OutputInv, StaleRemoved
  PROVE  OutputInv'
<1> DEFINE keys == sortedKeys(staged)
<1>1. /\ pc = "stale" /\ pc' = "publish" /\ todo = <<>> /\ staged \subseteq Path /\ owner \in Owner
      /\ Mine' = Mine /\ Gone' = Gone /\ Mine \subseteq Name /\ owner \notin staged
  BY MineIsNames, NamesAreFinite DEF StaleRemoved, OutputInv, Shape, build, Mine, Gone
<1>2. keys \in Seq(staged) /\ ToSet(keys) = staged
  BY <1>1, NamesAreFinite, SortedKeysAll
<1> HIDE DEF keys
<1>3. /\ todo' \in Seq(staged \cup {owner}) /\ Len(todo') = Len(keys) + 1 /\ Len(keys) \in Nat
      /\ \A i \in 1..Len(keys) : todo'[i] = keys[i] /\ keys[i] \in staged
      /\ todo'[Len(todo')] = owner
  BY <1>2 DEF StaleRemoved, PublicationPaths, keys
<1>4. todo' \in Seq(Name) /\ todo' # <<>>
  BY <1>1, <1>3, SeqMonotonic DEF Mine
<1>5. ToSet(todo') = staged \cup {owner} /\ ToSet(todo)' = ToSet(todo')
  <2>1. DOMAIN todo' = 1..(Len(keys) + 1) /\ DOMAIN keys = 1..Len(keys)
    BY <1>2, <1>3
  <2>2. ToSet(todo') \subseteq staged \cup {owner}
    BY <1>3, <2>1 DEF ToSet
  <2>3. ASSUME NEW n \in staged PROVE n \in ToSet(todo')
    <3>1. PICK i \in 1..Len(keys) : keys[i] = n
      BY <1>2, <2>1 DEF ToSet
    <3> QED BY <1>3, <2>1, <3>1 DEF ToSet
  <2>4. owner \in ToSet(todo')
    BY <1>3, <2>1 DEF ToSet
  <2> QED BY <2>2, <2>3, <2>4
<1>6. \A i \in 1..Len(todo') : todo'[i] = owner <=> i = Len(todo')
  BY <1>1, <1>3
<1>7. Shape'
  BY <1>1, <1>4 DEF StaleRemoved, OutputInv, Shape, build, bounds
<1>8. NothingChanged' /\ BackupsAreOld' /\ ChangesAreKnown'
  BY <1>1, <1>5
     DEF OutputInv, NothingChanged, BackupsAreOld, ChangesAreKnown, StaleLoop, CommitKeepsAll,
         StaleRemoved, build, Mine
<1>9. ToSet(todo) = {} /\ owner \notin Gone
  BY <1>1, MineIsNames, NamesAreFinite DEF ToSet, OutputInv
<1>10. StaleLoop' /\ PublishLoop' /\ RollbackLoop'
  BY <1>1, <1>5, <1>6, <1>9
     DEF OutputInv, Shape, StaleLoop, PublishLoop, RollbackLoop, CommitKeepsAll, StaleRemoved,
     build,
         Mine, Gone
<1>11. RestDeclares'
  BY <1>1, RestKept DEF StaleRemoved, build, bounds
<1> QED BY <1>7, <1>8, <1>10, <1>11 DEF OutputInv
\* The next name to publish is one of the build's, and the manifest exactly if
\* nothing comes after it.
LEMMA NextToPublish ==
  ASSUME OutputInv, pc = "publish", todo # <<>>
  PROVE  /\ Head(todo) \in staged \cup {owner} /\ Head(todo) \in Name /\ Head(todo) \in Mine
         /\ Tail(todo) \in Seq(Name) /\ ToSet(todo) = {Head(todo)} \cup ToSet(Tail(todo))
         /\ Head(todo) = owner <=> Tail(todo) = <<>>
         /\ \A i \in 1..Len(Tail(todo)) : Tail(todo)[i] = owner <=> i = Len(Tail(todo))
<1>1. /\ todo \in Seq(Name) /\ ToSet(todo) = {Head(todo)} \cup ToSet(Tail(todo))
      /\ Tail(todo) \in Seq(Name) /\ Head(todo) \in Name
  BY HeadAndTail DEF OutputInv, Shape
<1>2. /\ Len(todo) \in Nat \ {0} /\ Len(Tail(todo)) = Len(todo) - 1 /\ Head(todo) = todo[1]
      /\ \A i \in 1..(Len(todo) - 1) : Tail(todo)[i] = todo[i + 1]
  BY <1>1
<1>3. \A i \in 1..Len(todo) : todo[i] = owner <=> i = Len(todo)
  BY DEF OutputInv, PublishLoop
<1>4. Head(todo) = owner <=> Len(todo) = 1
  <2>1. 1 \in 1..Len(todo)
    BY <1>2
  <2>2. todo[1] = owner <=> 1 = Len(todo)
    BY <1>3, <2>1
  <2> QED BY <1>2, <2>2
<1>5. Tail(todo) = <<>> <=> Len(todo) = 1
  BY <1>1, <1>2
<1>6. ASSUME NEW i \in 1..Len(Tail(todo)) PROVE Tail(todo)[i] = owner <=> i = Len(Tail(todo))
  <2>1. i \in 1..(Len(todo) - 1) /\ i + 1 \in 1..Len(todo) /\ Len(Tail(todo)) = Len(todo) - 1
    BY <1>2
  <2>2. todo[i + 1] = owner <=> i + 1 = Len(todo)
    BY <1>3, <2>1
  <2>3. Tail(todo)[i] = todo[i + 1]
    BY <1>2, <2>1
  <2> DEFINE k == Len(todo)
  <2>4. k \in Int /\ i \in Int /\ Len(Tail(todo)) = k - 1
    BY <1>2
  <2> HIDE DEF k
  <2>5. i + 1 = k <=> i = k - 1
    BY <2>4
  <2> QED BY <2>2, <2>3, <2>4, <2>5 DEF k
<1>7. Head(todo) \in staged \cup {owner}
  BY <1>1 DEF OutputInv, PublishLoop
<1> QED BY <1>1, <1>4, <1>5, <1>6, <1>7 DEF Mine

LEMMA KeepUnchangedKeeps ==
  ASSUME OutputInv, KeepUnchanged
  PROVE  OutputInv'
<1> DEFINE n == Head(todo)
<1>1. /\ pc = "publish" /\ pc' = "publish" /\ n \in staged \cup {owner} /\ n \in Name
      /\ todo' = Tail(todo) /\ todo' \in Seq(Name) /\ ToSet(todo) = {n} \cup ToSet(todo')
      /\ (n = owner <=> todo' = <<>>)
      /\ \A i \in 1..Len(todo') : todo'[i] = owner <=> i = Len(todo')
  BY NextToPublish DEF KeepUnchanged
<1>2. /\ Mine' = Mine /\ Gone' = Gone /\ ToSet(todo)' = ToSet(todo') /\ disk' = disk
      /\ disk[n] = New(n) /\ \A m \in Name : New(m)' = New(m)
  BY <1>1 DEF KeepUnchanged, Touches, Unchanged, build, Mine, Gone, New
<1> HIDE DEF n
<1>3. Shape'
  BY <1>1, <1>2 DEF KeepUnchanged, OutputInv, Shape, build, bounds
<1>4. NothingChanged' /\ BackupsAreOld' /\ ChangesAreKnown'
  BY <1>1, <1>2 DEF OutputInv, NothingChanged, BackupsAreOld, ChangesAreKnown, KeepUnchanged, build
<1>5. StaleLoop' /\ RollbackLoop'
  BY <1>1 DEF StaleLoop, RollbackLoop
<1>6. PublishLoop'
  <2>1. ToSet(todo)' \subseteq staged \cup {owner} /\ CommitKeepsAll'
    BY <1>1, <1>2 DEF OutputInv, PublishLoop, CommitKeepsAll, KeepUnchanged, build
  <2>2. todo' # <<>> => disk[owner] \in {prior[owner], Absent}
    BY <1>1 DEF OutputInv, PublishLoop, KeepUnchanged
  <2>3. \A m \in staged \cup {owner} : m \in ToSet(todo') \/ disk[m] = New(m)
    BY <1>1, <1>2 DEF OutputInv, PublishLoop
  <2>4. (\A m \in Gone : disk[m] = Absent) /\ (\A m \in Name \ Mine : disk[m] = prior[m])
    BY <1>1 DEF OutputInv, PublishLoop
  <2>5. Mine \subseteq Name
    BY <1>1, MineIsNames DEF OutputInv
  <2> QED BY <1>1, <1>2, <2>1, <2>2, <2>3, <2>4, <2>5 DEF PublishLoop, KeepUnchanged, build, Mine
<1>7. RestDeclares'
  BY <1>1, RestKept DEF KeepUnchanged, build, bounds
<1> QED BY <1>3, <1>4, <1>5, <1>6, <1>7 DEF OutputInv

LEMMA ReplaceKeeps ==
  ASSUME OutputInv, Replace
  PROVE  OutputInv'
<1> DEFINE n == Head(todo)
<1>1. /\ pc = "publish" /\ pc' = "publish" /\ n \in staged \cup {owner} /\ n \in Name /\ n \in Mine
      /\ todo \in Seq(Name) /\ todo # <<>>
      /\ Tail(todo) \in Seq(Name) /\ ToSet(todo) = {n} \cup ToSet(Tail(todo))
      /\ (n = owner <=> Tail(todo) = <<>>)
      /\ \A i \in 1..Len(Tail(todo)) : Tail(todo)[i] = owner <=> i = Len(Tail(todo))
  BY NextToPublish DEF Replace, OutputInv, Shape
<1>2. /\ Mine' = Mine /\ Gone' = Gone /\ ToSet(todo)' = ToSet(todo')
      /\ Mine \subseteq Name /\ New(n) \in Holds /\ \A m \in Name : New(m)' = New(m)
  BY <1>1, MineIsNames, NewIsContent DEF Replace, OutputInv, Shape, build, Mine, Gone, New
<1>3. /\ disk' \in [Name -> Holds] /\ \A m \in Name \ {n} : disk'[m] = disk[m]
      /\ \/ disk'[n] = Absent /\ todo' = todo
         \/ disk'[n] = New(n) /\ todo' = Tail(todo)
  BY <1>1, <1>2, ContentsDiffer DEF Replace, OutputInv, Shape
<1>4. mutated' = mutated \cup {n}
  BY DEF Replace
<1>5. n \notin Gone /\ owner \in Name
  BY <1>1, MineIsNames, NamesAreFinite DEF Gone, OutputInv, Shape
<1> HIDE DEF n
<1>6. Shape'
  BY <1>1, <1>2, <1>3, <1>4 DEF Replace, OutputInv, Shape, build, bounds
<1>7. NothingChanged' /\ BackupsAreOld' /\ ChangesAreKnown'
  <2>1. ToSet(todo') \subseteq ToSet(todo) /\ n \in ToSet(todo)
    BY <1>1, <1>3
  <2> QED BY <1>1, <1>2, <1>3, <1>4, <2>1
             DEF OutputInv, NothingChanged, BackupsAreOld, ChangesAreKnown, Replace, build
<1>8. StaleLoop' /\ RollbackLoop'
  BY <1>1 DEF StaleLoop, RollbackLoop
<1>9. PublishLoop'
  <2>1. ToSet(todo)' \subseteq staged \cup {owner} /\ CommitKeepsAll'
    BY <1>1, <1>2, <1>3 DEF OutputInv, PublishLoop, CommitKeepsAll, Replace, build
  <2>2. todo' # <<>> => disk'[owner] \in {prior[owner], Absent}
    BY <1>1, <1>3, <1>5 DEF OutputInv, PublishLoop
  <2>3. \A m \in staged \cup {owner} : m \in ToSet(todo') \/ disk'[m] = New(m)
    BY <1>1, <1>2, <1>3 DEF OutputInv, PublishLoop, Mine
  <2>4. (\A m \in Gone : disk'[m] = Absent) /\ (\A m \in Name \ Mine : disk'[m] = prior[m])
    BY <1>1, <1>2, <1>3, <1>5 DEF OutputInv, PublishLoop, Mine
  <2>5. \A i \in 1..Len(todo') : todo'[i] = owner <=> i = Len(todo')
    BY <1>1, <1>3 DEF OutputInv, PublishLoop
  <2> QED BY <1>1, <1>2, <2>1, <2>2, <2>3, <2>4, <2>5 DEF PublishLoop, Replace, build, Mine
<1>10. RestDeclares'
  BY <1>1, RestKept DEF Replace, build, bounds
<1> QED BY <1>6, <1>7, <1>8, <1>9, <1>10 DEF OutputInv

\* When the loops of commit() are through, every name is as it should be.
LEMMA LoopsAreThrough ==
  ASSUME OutputInv, pc = "publish", todo = <<>>
  PROVE  /\ disk[owner] = List(emits) /\ \A n \in emits : disk[n] = Code(version)
         /\ \A n \in Gone : disk[n] = Absent
         /\ \A n \in Name \ Mine : disk[n] = prior[n]
<1>1. ToSet(todo) = {}
  BY DEF ToSet
<1>2. staged = emits /\ owner \in Owner /\ staged \subseteq Path /\ Owner \cap Path = {}
  BY NamesAreFinite DEF OutputInv, Shape
<1> QED BY <1>1, <1>2 DEF OutputInv, PublishLoop, New

LEMMA CommittedKeeps ==
  ASSUME OutputInv, Committed \/ SentinelStays
  PROVE  OutputInv'
<1>1. /\ pc = "publish" /\ todo = <<>> /\ disk' = disk
      /\ \E how \in {"committed", "published"} : End(how)
      /\ harmed' = harmed /\ crashes' = crashes /\ faults' \in 0..MaxFaults
      /\ stage' \subseteq Owner
  <2>1. CASE Committed
    BY <2>1 DEF Committed, bounds, OutputInv, Shape
  <2>2. CASE SentinelStays
    <3>1. faults' \in 0..MaxFaults
      BY <2>2, NamesAssumption DEF SentinelStays, OutputInv, Shape
    <3>2. stage' \subseteq Owner
      BY <2>2 DEF SentinelStays, OutputInv, Shape
    <3> QED BY <2>2, <3>1, <3>2 DEF SentinelStays
  <2> QED BY <2>1, <2>2
<1>2. ASSUME ~harmed, NEW p \in Path, disk[p] \notin {Absent, User}
      PROVE  \E o \in Owner : p \in Listed(disk[o])
  <2>1. owner \in Owner /\ emits \in SUBSET Path /\ staged = emits /\ Path \subseteq Name
    BY <1>1, NamesAreFinite DEF OutputInv, Shape
  <2>2. CASE p \in emits
    BY <1>1, <2>1, <2>2, LoopsAreThrough, ContentsDiffer
  <2>3. CASE p \notin emits
    <3>1. p \notin Gone /\ p \notin Mine
      BY <1>1, <1>2, <2>1, <2>3, LoopsAreThrough, NamesAreFinite DEF Mine
    <3>2. disk[p] = prior[p]
      BY <1>1, <2>1, <3>1, LoopsAreThrough
    <3>3. PICK o \in Owner : p \in Listed(prior[o])
      BY <1>1, <1>2, <3>2 DEF OutputInv, RestDeclares, Declares
    <3>4. o # owner
      BY <2>1, <2>3, <3>1, <3>3 DEF Gone
    <3>5. o \in Name \ Mine
      BY <1>1, <2>1, <3>4, MineIsNames, NamesAreFinite DEF Mine, OutputInv
    <3> QED BY <1>1, <3>3, <3>5, LoopsAreThrough
  <2> QED BY <2>2, <2>3
<1>3. ~harmed' => Declares(disk)'
  BY <1>1, <1>2 DEF Declares, bounds
<1> QED BY <1>1, <1>3, EndStep DEF OutputInv, Shape, bounds
LEMMA CommitFailsKeeps ==
  ASSUME OutputInv, CommitFails
  PROVE  OutputInv'
<1>1. PICK reached \in BOOLEAN : Undo(mutated \cup {n \in Coming : reached /\ Touches(n)})
  BY DEF CommitFails
<1>2. Coming \subseteq ToSet(todo)
  BY HeadAndTail DEF Coming, OutputInv, Shape
<1>3. pc \in {"prepare", "stale", "publish"} /\ stage' \subseteq Owner /\ faults' \in 0..MaxFaults
  BY NamesAssumption DEF CommitFails, OutputInv, Shape
<1>4. ASSUME NEW n \in Coming, Touches(n) PROVE n \in staged \cup {owner} \cup DOMAIN backups
  BY <1>2, <1>3, <1>4, MineIsNames
     DEF OutputInv, Shape, StaleLoop, PublishLoop, NothingChanged, CommitKeepsAll, Touches, Exists,
     Mine,
         Coming
<1>5. mutated \subseteq staged \cup {owner} \cup DOMAIN backups
  BY <1>3 DEF OutputInv, Shape
<1> QED BY <1>1, <1>2, <1>3, <1>4, <1>5, UndoStep DEF CommitFails

\* The next name to restore, and what rollback writes to it.
LEMMA NextToRestore ==
  ASSUME OutputInv, pc = "rollback", todo # <<>>
  PROVE  /\ Head(todo) \in Name /\ Head(todo) \in ToSet(todo)
         /\ Tail(todo) \in Seq(Name) /\ ToSet(todo) = {Head(todo)} \cup ToSet(Tail(todo))
         /\ NeedsRestore(Head(todo)) => /\ backups[Head(todo)] = prior[Head(todo)]
                                        /\ backups[Head(todo)] \in Holds
         /\ ~NeedsRestore(Head(todo)) => prior[Head(todo)] = Absent
<1>1. /\ Head(todo) \in Name /\ Tail(todo) \in Seq(Name)
      /\ ToSet(todo) = {Head(todo)} \cup ToSet(Tail(todo))
  BY HeadAndTail DEF OutputInv, Shape
<1> QED BY <1>1 DEF OutputInv, Shape, BackupsAreOld, NeedsRestore

LEMMA RollBackKeeps ==
  ASSUME OutputInv, RollBack
  PROVE  OutputInv'
<1> DEFINE n == Head(todo)
<1>1. /\ pc = "rollback" /\ pc' = "rollback" /\ n \in Name /\ n \in ToSet(todo) /\ todo \in Seq(Name)
      /\ Tail(todo) \in Seq(Name) /\ ToSet(todo) = {n} \cup ToSet(Tail(todo))
      /\ (NeedsRestore(n) => backups[n] = prior[n] /\ backups[n] \in Holds)
      /\ (~NeedsRestore(n) => prior[n] = Absent)
  BY NextToRestore DEF RollBack, OutputInv, Shape
<1>2. /\ Mine' = Mine /\ Gone' = Gone /\ ToSet(todo)' = ToSet(todo')
  BY DEF RollBack, build, Mine, Gone
<1>3. /\ disk' \in [Name -> Holds] /\ \A m \in Name \ {n} : disk'[m] = disk[m]
      /\ \/ todo' = todo
         \/ disk'[n] = prior[n] /\ todo' = Tail(todo)
  BY <1>1, ContentsDiffer DEF RollBack, OutputInv, Shape
<1> HIDE DEF n
<1>4. Shape'
  BY <1>1, <1>2, <1>3 DEF RollBack, OutputInv, Shape, build, bounds
<1>5. BackupsAreOld' /\ RollbackLoop'
  <2>1. ToSet(todo') \subseteq ToSet(todo) /\ \A m \in ToSet(todo) : m = n \/ m \in ToSet(todo')
    BY <1>1, <1>3
  <2> QED BY <1>1, <1>2, <1>3, <2>1 DEF OutputInv, BackupsAreOld, RollbackLoop, RollBack, build
<1>6. NothingChanged' /\ ChangesAreKnown' /\ StaleLoop' /\ PublishLoop'
  BY <1>1 DEF NothingChanged, ChangesAreKnown, StaleLoop, PublishLoop
<1>7. RestDeclares'
  BY <1>1, RestKept DEF RollBack, build, bounds
<1> QED BY <1>4, <1>5, <1>6, <1>7 DEF OutputInv

LEMMA RolledBackKeeps ==
  ASSUME OutputInv, RolledBack
  PROVE  OutputInv'
<1> USE DEF RolledBack, OutputInv, build, bounds
<1>1. Mine' = Mine /\ ToSet(todo)' = ToSet(todo)
  BY DEF Mine, Gone, ToSet
<1>2. Shape'
  BY <1>1 DEF Shape
<1>3. BackupsAreOld' /\ RollbackLoop'
  BY <1>1 DEF BackupsAreOld, RollbackLoop
<1>4. NothingChanged' /\ ChangesAreKnown' /\ StaleLoop' /\ PublishLoop'
  BY DEF NothingChanged, ChangesAreKnown, StaleLoop, PublishLoop
<1>5. RestDeclares'
  BY RestKept
<1> QED BY <1>2, <1>3, <1>4, <1>5

\* A build that comes to abort() without a failed rollback has changed nothing.
LEMMA AbortFindsPrior ==
  ASSUME OutputInv, pc = "abort", ~rollbackFailed
  PROVE  disk = prior
<1>1. ToSet(todo) = {}
  BY DEF OutputInv, Shape, ToSet
<1>2. \A n \in Name : disk[n] = prior[n]
  BY <1>1 DEF OutputInv, RollbackLoop
<1>3. disk \in [Name -> Holds] /\ prior \in [Name -> Holds]
  BY DEF OutputInv, Shape
<1> QED BY <1>2, <1>3

LEMMA AbortKeeps ==
  ASSUME OutputInv, Abort
  PROVE  OutputInv'
<1>1. PICK how \in {"failed", "unrestored"} : End(how)
  BY DEF Abort
<1>2. ~harmed' => Declares(disk)'
  BY AbortFindsPrior DEF Abort, OutputInv, RestDeclares, Declares
<1> QED BY <1>1, <1>2, EndStep DEF Abort, OutputInv, Shape

\* A write that was cut short leaves something a name can hold.
LEMMA CutShortKeepsType ==
  ASSUME OutputInv, CutShort
  PROVE  disk' \in [Name -> Holds]
<1>1. CASE UNCHANGED disk
  BY <1>1 DEF OutputInv, Shape
<1>2. CASE Writing /\ \E c \in Cut(backups[Head(todo)]) : disk' = [disk EXCEPT ![Head(todo)] = c]
  <2>1. backups[Head(todo)] \in Holds
    BY <1>2, NextToRestore DEF Writing
  <2>2. \A c \in Cut(backups[Head(todo)]) : c \in Holds
    BY <2>1, ContentsDiffer DEF Cut
  <2> QED BY <1>2, <2>2 DEF OutputInv, Shape
<1> QED BY <1>1, <1>2 DEF CutShort

LEMMA UndoFailsKeeps ==
  ASSUME OutputInv, UndoFails
  PROVE  OutputInv'
<1>1. disk' \in [Name -> Holds] /\ faults' \in 0..MaxFaults /\ crashes' \in 0..MaxCrashes
      /\ stage' \subseteq Owner
  <2>1. disk' \in [Name -> Holds]
    BY CutShortKeepsType DEF UndoFails
  <2>2. faults' \in 0..MaxFaults /\ crashes' \in 0..MaxCrashes
    BY NamesAssumption DEF UndoFails, OutputInv, Shape
  <2>3. stage' \subseteq Owner
    BY DEF UndoFails, OutputInv, Shape
  <2> QED BY <2>1, <2>2, <2>3
<1>2. CASE pc = "abort" /\ End("unrestored") /\ harmed' = TRUE
  BY <1>1, <1>2, EndStep
<1>3. CASE /\ pc = "rollback" /\ todo' = <<>> /\ rollbackFailed' = TRUE
           /\ pc' = IF todo = <<>> THEN "abort" ELSE pc
           /\ UNCHANGED <<stage, build, staged, mutated, backups, outcome, harmed>>
  <2>1. pc' \in {"rollback", "abort"} /\ ToSet(todo)' = {} /\ Mine' = Mine
    BY <1>3 DEF ToSet, Mine, Gone, build
  <2>2. Shape'
    <3>1. todo' \in Seq(Name)
      BY <1>3
    <3> QED BY <1>1, <1>3, <2>1, <3>1 DEF OutputInv, Shape, build
  <2>3. BackupsAreOld' /\ RollbackLoop'
    BY <1>3, <2>1 DEF OutputInv, BackupsAreOld, RollbackLoop, build
  <2>4. NothingChanged' /\ ChangesAreKnown' /\ StaleLoop' /\ PublishLoop'
    BY <2>1 DEF NothingChanged, ChangesAreKnown, StaleLoop, PublishLoop
  <2>5. RestDeclares'
    BY <1>3, <2>1, RestKept DEF build
  <2> QED BY <2>2, <2>3, <2>4, <2>5 DEF OutputInv
<1> QED BY <1>2, <1>3 DEF UndoFails

LEMMA CrashKeeps ==
  ASSUME OutputInv, Crash
  PROVE  OutputInv'
<1>1. disk' \in [Name -> Holds] /\ faults' \in 0..MaxFaults /\ crashes' \in 0..MaxCrashes
      /\ stage' \subseteq Owner
  BY CutShortKeepsType, NamesAssumption DEF Crash, OutputInv, Shape
<1> QED BY <1>1, EndStep DEF Crash

\* The user's files are declared by nobody, and manifests are not touched.
LEMMA UserEditKeeps ==
  ASSUME OutputInv, NEW p \in Path, NEW content \in {User, Absent}, UserEdit(p, content)
  PROVE  OutputInv'
<1> USE DEF UserEdit, OutputInv, frame, build, bounds
<1>1. disk' \in [Name -> Holds] /\ \A n \in Name \ {p} : disk'[n] = disk[n]
  BY ContentsDiffer DEF Shape
<1>2. p \in Name /\ disk'[p] \in {User, Absent} /\ Owner \subseteq Name \ {p} /\ Path \subseteq Name
  BY NamesAreFinite DEF Shape
<1>3. Shape'
  BY <1>1 DEF Shape
<1>4. NothingChanged' /\ BackupsAreOld' /\ ChangesAreKnown' /\ StaleLoop' /\ PublishLoop'
      /\ RollbackLoop'
  BY DEF NothingChanged, BackupsAreOld, ChangesAreKnown, StaleLoop, PublishLoop, RollbackLoop
<1>5. RestDeclares'
  BY <1>1, <1>2 DEF RestDeclares, Declares
<1> QED BY <1>3, <1>4, <1>5

\* Nothing happens.
LEMMA OutputStutters ==
  ASSUME OutputInv, UNCHANGED vars
  PROVE  OutputInv'
BY DEF vars, frame, build, bounds, OutputInv, Shape, NothingChanged, BackupsAreOld, ChangesAreKnown,
   StaleLoop, PublishLoop, RollbackLoop, RestDeclares, Declares, CommitKeepsAll, Mine, Gone, New, ToSet

LEMMA OutputStep == OutputInv /\ [Next]_vars => OutputInv'
<1> SUFFICES ASSUME OutputInv, [Next]_vars PROVE OutputInv'
  OBVIOUS
<1>1. ASSUME NEW o \in Owner, NEW S \in SUBSET Path, NEW v \in Version, NEW unchanged \in BOOLEAN,
             Begin(o, S, v, unchanged)
      PROVE  OutputInv'
  BY <1>1, BeginKeeps
<1>2. CASE Build
  BY <1>2, EmitKeeps, PrepareKeeps, RefuseKeeps, RemoveStaleKeeps, StaleRemovedKeeps,
     KeepUnchangedKeeps, ReplaceKeeps, CommittedKeeps, RollBackKeeps, RolledBackKeeps, AbortKeeps
     DEF Build
<1>3. CASE SentinelStays \/ CommitFails \/ UndoFails \/ Crash
  BY <1>3, CommittedKeeps, CommitFailsKeeps, UndoFailsKeeps, CrashKeeps
<1>4. ASSUME NEW p \in Path, NEW content \in {User, Absent}, UserEdit(p, content) PROVE OutputInv'
  BY <1>4, UserEditKeeps
<1> QED BY <1>1, <1>2, <1>3, <1>4, OutputStutters DEF Next

-----------------------------------------------------------------------------
(* The results.                                                            *)

\* The inductive invariant of the output directory and the build in hand.
THEOREM OutputInvariant == Spec => []OutputInv
BY OutputInit, OutputStep, PTL DEF Spec

\* Every variable keeps its type, and the loops of commit() and rollback stay
\* inside the names of their build.
THEOREM OutputTypeCorrect == Spec => []TypeOK
<1>1. OutputInv => TypeOK
  <2> SUFFICES ASSUME OutputInv PROVE TypeOK
    OBVIOUS
  <2>1. ToSet(todo) \subseteq Name
    BY DEF OutputInv, Shape, ToSet
  <2>2. CASE pc = "idle"
    BY <2>1, <2>2 DEF OutputInv, Shape, TypeOK
  <2>3. CASE pc # "idle"
    <3>1. mutated \subseteq emits \cup {owner} \cup DOMAIN backups
      BY <2>3 DEF OutputInv, Shape
    <3>2. DOMAIN backups \subseteq Name
      BY <2>3, MineIsNames DEF OutputInv, BackupsAreOld
    <3> QED BY <2>1, <2>3, <3>1, <3>2 DEF OutputInv, Shape, TypeOK
  <2> QED BY <2>2, <2>3
<1> QED BY <1>1, OutputInvariant, PTL

\* Unless a compiler died or an undo failed, some manifest declares every
\* generated file (readManifest and commit: what is stale can be found).
THEOREM NoOrphans == Spec => []NothingIsOrphaned
<1>1. OutputInv => NothingIsOrphaned
  BY DEF OutputInv, RestDeclares, Declares, NothingIsOrphaned, Declared
<1> QED BY <1>1, OutputInvariant, PTL

\* The manifest is published last: while it differs from the previous one, all
\* it declares is there and new.
THEOREM ManifestIsLast == Spec => []NewManifestIsComplete
<1>1. OutputInv => NewManifestIsComplete
  <2> SUFFICES ASSUME OutputInv, pc \in {"stale", "publish"}, disk[owner] \notin {prior[owner], Absent},
                      NEW p \in emits
               PROVE  p \in Declared(owner) /\ disk[p] = Code(version)
    BY DEF NewManifestIsComplete
  <2>1. owner \in Name /\ owner \notin Gone /\ emits \in SUBSET Path
    BY MineIsNames, NamesAreFinite DEF OutputInv, Shape, Gone
  <2>2. pc = "publish" /\ todo = <<>>
    BY <2>1 DEF OutputInv, StaleLoop, PublishLoop
  <2> QED BY <2>1, <2>2, LoopsAreThrough, ContentsDiffer DEF Declared
<1> QED BY <1>1, OutputInvariant, PTL

\* A build that returns, or fails only to delete the compiler's sentinel, has
\* published exactly its files (commit).
THEOREM CommitsAreComplete == Spec => CommitIsComplete
<1> DEFINE Result == [n \in Name |-> CASE n = owner -> List(emits)
                                       [] n \in emits -> Code(version)
                                       [] n \in Listed(prior[owner]) \ emits -> Absent
                                       [] OTHER -> prior[n]]
<1>1. OutputInv /\ [Next]_vars =>
        [Ends /\ outcome' \in {"committed", "published"} => disk' = Result /\ owner \notin stage']_vars
  <2> SUFFICES ASSUME OutputInv, Next, Ends, outcome' \in {"committed", "published"}
               PROVE  disk' = Result /\ owner \notin stage'
    OBVIOUS
  <2>1. Committed \/ SentinelStays
    BY DEF Next, Build, Ends, Begin, Emit, EmitFails, Prepare, Refuse, Undo, RemoveStale,
       StaleRemoved,
       KeepUnchanged, Replace, RollBack, RolledBack, Abort, End, CommitFails, UndoFails, Crash,
       UserEdit
  <2>2. /\ pc = "publish" /\ todo = <<>> /\ disk' = disk /\ owner \notin stage'
        /\ staged = emits /\ emits \subseteq Path /\ owner \in Owner
        /\ disk \in [Name -> Holds]
    BY <2>1 DEF Committed, SentinelStays, OutputInv, Shape
  <2>3. ASSUME NEW n \in Name PROVE disk[n] = Result[n]
    <3>1. CASE n = owner
      <4>1. n \notin emits /\ n \notin Listed(prior[owner])
        BY <2>2, <3>1, NamesAreFinite, ContentsDiffer DEF OutputInv, Shape
      <4> QED BY <2>2, <3>1, <4>1, LoopsAreThrough
    <3>2. CASE n # owner /\ n \in emits
      BY <2>2, <3>2, LoopsAreThrough
    <3>3. CASE n # owner /\ n \notin emits /\ n \in Listed(prior[owner]) \ emits
      BY <2>2, <3>3, LoopsAreThrough DEF Gone
    <3>4. CASE n # owner /\ n \notin emits /\ ~(n \in Listed(prior[owner]) \ emits)
      <4>1. disk[n] = prior[n]
        BY <2>2, <3>4, LoopsAreThrough DEF Gone, Mine
      <4>2. Result[n] = prior[n]
        BY <3>4
      <4> QED BY <4>1, <4>2
    <3> QED BY <3>1, <3>2, <3>3, <3>4
  <2> QED BY <2>2, <2>3
<1> QED BY <1>1, OutputInvariant, PTL DEF Spec, CommitIsComplete

\* A build that throws the error of its emission, its publication or the removal
\* of its stage leaves everything as it found it.
THEOREM FailuresRestore == Spec => FailureRestores
<1>1. OutputInv /\ [Next]_vars =>
        [Ends /\ outcome' = "failed" => disk' = prior /\ owner \notin stage']_vars
  <2> SUFFICES ASSUME OutputInv, Next, Ends, outcome' = "failed"
               PROVE  disk' = prior /\ owner \notin stage'
    OBVIOUS
  <2>1. Abort
    BY DEF Next, Build, Ends, Begin, Emit, EmitFails, Prepare, Refuse, Undo, RemoveStale,
       StaleRemoved,
       KeepUnchanged, Replace, RollBack, RolledBack, Committed, SentinelStays, End, CommitFails, UndoFails, Crash,
       UserEdit
  <2> QED BY <2>1, AbortFindsPrior DEF Abort, End
<1> QED BY <1>1, OutputInvariant, PTL DEF Spec, FailureRestores

-----------------------------------------------------------------------------
(* DependencyPlan: the local names of a projection.                        *)

\* What words, locals and the parts of a plan are made of.
Words == {requestedLocal(e) : e \in Edge}
Locals == Words \cup {Suffixed(w, n) : w \in Words, n \in Nat}
Intents == {Intent(e) : e \in Edge}
Requests == {Request(e) : e \in Edge}
Mappings == {Mapping(e) : e \in Edge}
Binding == [intent : Intents, local : Locals]
Declaration == [request : Requests, bindings : Seq(Intents)]
Counts == UNION {[W -> Nat] : W \in SUBSET Words}
Imports == [mappings : Seq(Mappings), allocated : Seq(Binding), aliasCount : Counts,
            runtime : Seq(Declaration), types : Seq(Declaration), failed : BOOLEAN]

PlanTypeOK == edges \in Seq(Edge) /\ plan \in [Profile -> Imports]

\* Numbers have a smallest one among them.
LEMMA SmallestMember ==
  ASSUME NEW S \in SUBSET Nat, S # {}
  PROVE  \E n \in S : \A m \in S : n <= m
<1>1. \E x \in S : \A y \in S : ~(<<y, x>> \in OpToRel(<, Nat))
  BY NatLessThanWellFounded, WFMin
<1>2. PICK x \in S : \A y \in S : <<y, x>> \notin OpToRel(<, Nat)
  BY <1>1
<1>3. \A y \in S : <<y, x>> \in Nat \X Nat /\ <<y, x>>[1] = y /\ <<y, x>>[2] = x
  OBVIOUS
<1>4. \A y \in S : ~(y < x)
  BY <1>2, <1>3 DEF OpToRel
<1> QED BY <1>4

\* The appended word differs for every number.
LEMMA SuffixesDiffer ==
  ASSUME NEW w \in Words, NEW m \in Nat, NEW n \in Nat, Suffixed(w, m) = Suffixed(w, n)
  PROVE  m = n
<1>1. Len(w) \in Nat
  BY EdgeAssumption DEF Words, requestedLocal
<1>2. Len(w) + 1 \in 1..(Len(w) + 1) /\ ~(Len(w) + 1 <= Len(w))
  BY <1>1
<1>3. Suffixed(w, m)[Len(w) + 1] = m /\ Suffixed(w, n)[Len(w) + 1] = n
  BY <1>2 DEF Suffixed
<1> QED BY <1>3

\* The locals given out are as many as the bindings at most.
LEMMA LocalsAreFinite ==
  ASSUME NEW p \in Imports
  PROVE  LET given == {b.local : b \in ToSet(p.allocated)}
         IN IsFiniteSet(given) /\ Cardinality(given) <= Len(p.allocated)
<1> DEFINE n == Len(p.allocated)
           f == [i \in 1..n |-> p.allocated[i].local]
           given == {b.local : b \in ToSet(p.allocated)}
<1>1. n \in Nat /\ DOMAIN p.allocated = 1..n
  BY DEF Imports
<1>2. f \in Surjection(1..n, given)
  BY <1>1, Fun_IsSurj DEF ToSet
<1>3. IsFiniteSet(1..n) /\ Cardinality(1..n) = n
  BY <1>1, FS_Interval
<1> HIDE DEF f, given, n
<1>4. IsFiniteSet(given) /\ Cardinality(given) <= n
  BY <1>2, <1>3, FS_Surjection
<1> QED BY <1>4 DEF given, n

\* The allocator's search always finds a number behind the word: there are more
\* numbers in its range than names that can be in the way.
LEMMA SuffixIsFree ==
  ASSUME NEW p \in Imports, NEW w \in Words
  PROVE  suffix(p, w) \in Nat /\ ~unavailable(p, Suffixed(w, suffix(p, w)))
<1> DEFINE first == Count(p, w) + 1
           own == Globals \cup Names
           given == {b.local : b \in ToSet(p.allocated)}
           range == first..(first + Len(p.allocated) + Cardinality(own))
           free == {n \in range : ~unavailable(p, Suffixed(w, n))}
<1>1. first \in Nat /\ Len(p.allocated) \in Nat
  BY DEF Count, Imports, Counts
<1>2. IsFiniteSet(own) /\ Cardinality(own) \in Nat
  BY EdgeAssumption, FS_Union, FS_CardinalityType
<1>3. IsFiniteSet(given) /\ Cardinality(given) \in Nat /\ Cardinality(given) <= Len(p.allocated)
  BY LocalsAreFinite, FS_CardinalityType
<1>4. \A n : unavailable(p, Suffixed(w, n)) <=> Suffixed(w, n) \in own \cup given
  BY DEF unavailable
<1>5. range \subseteq Nat
  BY <1>1, <1>2
<1>6. IsFiniteSet(range) /\ Cardinality(range) = Len(p.allocated) + Cardinality(own) + 1
  <2> DEFINE last == first + Len(p.allocated) + Cardinality(own)
  <2> HIDE DEF own, first
  <2>1. first \in Int /\ last \in Int /\ ~(first > last)
    BY <1>1, <1>2
  <2>2. last - first + 1 = Len(p.allocated) + Cardinality(own) + 1
    BY <1>1, <1>2
  <2> HIDE DEF last
  <2>3. IsFiniteSet(first..last) /\ Cardinality(first..last) = last - first + 1
    BY <2>1, FS_Interval
  <2> QED BY <2>2, <2>3 DEF last
<1>7. IsFiniteSet(own \cup given) /\ Cardinality(own \cup given) <= Cardinality(own) + Len(p.allocated)
  <2> HIDE DEF own, given
  <2>1. /\ IsFiniteSet(own \cup given) /\ IsFiniteSet(own \cap given)
        /\ Cardinality(own \cup given) = Cardinality(own) + Cardinality(given) - Cardinality(own \cap given)
    BY <1>2, <1>3, FS_Union, FS_Intersection
  <2>2. Cardinality(own \cap given) \in Nat
    BY <2>1, FS_CardinalityType
  <2> QED BY <1>1, <1>2, <1>3, <2>1, <2>2
<1>8. free # {}
  <2> SUFFICES ASSUME free = {} PROVE FALSE
    OBVIOUS
  <2> DEFINE f == [n \in range |-> Suffixed(w, n)]
  <2>1. f \in [range -> own \cup given]
    BY <1>4
  <2> HIDE DEF range, own, given
  <2>2. Cardinality(own \cup given) < Cardinality(range)
    BY <1>1, <1>2, <1>6, <1>7, FS_CardinalityType
  <2>3. PICK m, n \in range : m # n /\ f[m] = f[n]
    <3> HIDE DEF f
    <3> QED BY <1>6, <1>7, <2>1, <2>2, FS_PigeonHole
  <2> QED BY <1>5, <2>3, SuffixesDiffer
<1>9. \E n \in free : \A m \in free : n <= m
  <2>1. free \in SUBSET Nat
    BY <1>5
  <2> HIDE DEF free
  <2> QED BY <1>8, <2>1, SmallestMember
<1>10. suffix(p, w) = CHOOSE n \in free : \A m \in free : n <= m
  BY DEF suffix
<1> QED BY <1>5, <1>9, <1>10

\* A function on 1..n is a sequence.
LEMMA FunctionIsSeq ==
  ASSUME NEW S, NEW n \in Nat, NEW f \in [1..n -> S]
  PROVE  f \in Seq(S)
<1>1. f = [i \in 1..n |-> f[i]]
  OBVIOUS
<1>2. \A i \in 1..n : f[i] \in S
  OBVIOUS
<1>3. [i \in 1..n |-> f[i]] \in Seq(S)
  BY <1>2, IsASeq
<1> QED BY <1>1, <1>3

\* What a sequence with one more element holds.
LEMMA Appended ==
  ASSUME NEW S, NEW s \in Seq(S), NEW x \in S
  PROVE  /\ Append(s, x) \in Seq(S) /\ Len(s) \in Nat
         /\ DOMAIN s = 1..Len(s) /\ DOMAIN Append(s, x) = 1..(Len(s) + 1)
         /\ \A i \in 1..Len(s) : Append(s, x)[i] = s[i]
         /\ Append(s, x)[Len(s) + 1] = x
         /\ ToSet(Append(s, x)) = ToSet(s) \cup {x}
<1>1. /\ Append(s, x) \in Seq(S) /\ Len(s) \in Nat /\ Len(Append(s, x)) = Len(s) + 1
      /\ \A i \in 1..Len(s) : Append(s, x)[i] = s[i]
      /\ Append(s, x)[Len(s) + 1] = x
  BY AppendProperties, LenProperties
<1>2. DOMAIN s = 1..Len(s) /\ DOMAIN Append(s, x) = 1..(Len(s) + 1)
  BY <1>1, LenProperties
<1>3. \A i \in 1..(Len(s) + 1) : i \in 1..Len(s) \/ i = Len(s) + 1
  BY <1>1
<1>4. 1..Len(s) \subseteq 1..(Len(s) + 1) /\ Len(s) + 1 \in 1..(Len(s) + 1)
  BY <1>1
<1>5. ToSet(Append(s, x)) = ToSet(s) \cup {x}
  BY <1>1, <1>2, <1>3, <1>4 DEF ToSet
<1> QED BY <1>1, <1>2, <1>5

\* The edges of B are bound, origins and local names are unique, and no local name
\* is the module's or the language's.
Named(p, B) ==
  /\ \A e \in B : Mapping(e) \in ToSet(p.mappings) /\ Known(p, e)
  /\ \A i, j \in DOMAIN p.mappings : p.mappings[i].origin = p.mappings[j].origin => i = j
  /\ \A i, j \in DOMAIN p.allocated : p.allocated[i].local = p.allocated[j].local => i = j
  /\ \A b \in ToSet(p.allocated) : b.local \notin Globals \cup Names

\* The declarations are the same.
Same(p, q) == p.runtime = q.runtime /\ p.types = q.types

\* The counters of the suffixes stay counters.
LEMMA CountTypes ==
  ASSUME NEW c \in Counts, NEW w \in Words, NEW n \in Nat
  PROVE  Counted(c, w, n) \in Counts
<1>1. PICK W \in SUBSET Words : c \in [W -> Nat]
  BY DEF Counts
<1>2. Counted(c, w, n) \in [W \cup {w} -> Nat]
  BY <1>1 DEF Counted
<1>3. W \cup {w} \in SUBSET Words
  BY <1>1
<1> QED BY <1>2, <1>3 DEF Counts

\* Allocate gives the export of an edge one local name that is free, and changes
\* nothing else but the counter.
LEMMA AllocateStep ==
  ASSUME NEW p \in Imports, NEW e \in Edge
  PROVE  /\ Allocate(p, e) \in Imports /\ Same(Allocate(p, e), p)
         /\ Allocate(p, e).failed = p.failed /\ Allocate(p, e).mappings = p.mappings
         /\ \E l \in Locals :
              /\ ~unavailable(p, l)
              /\ Allocate(p, e).allocated = Append(p.allocated, [intent |-> Intent(e), local |-> l])
<1> DEFINE w == requestedLocal(e)
           n == suffix(p, w)
           at(l) == [intent |-> Intent(e), local |-> l]
           count == Counted(p.aliasCount, w, n)
<1>1. w \in Words /\ w \in Locals /\ Intent(e) \in Intents
  BY DEF Words, Locals, Intents
<1>2. n \in Nat /\ ~unavailable(p, Suffixed(w, n)) /\ Suffixed(w, n) \in Locals
  BY <1>1, SuffixIsFree DEF Locals
<1>3. \A l \in Locals : at(l) \in Binding /\ Append(p.allocated, at(l)) \in Seq(Binding)
  BY <1>1, Appended DEF Binding, Imports
<1>4. count \in Counts
  BY <1>1, <1>2, CountTypes DEF Imports
<1>5. Allocate(p, e) = IF ~unavailable(p, w) THEN [p EXCEPT !.allocated = Append(@, at(w))]
                       ELSE [p EXCEPT !.allocated = Append(@, at(Suffixed(w, n))), !.aliasCount = count]
  BY DEF Allocate
<1> HIDE DEF w, n, at, count
<1>6. CASE ~unavailable(p, w)
  <2>1. Allocate(p, e) = [p EXCEPT !.allocated = Append(p.allocated, at(w))]
    BY <1>5, <1>6
  <2>2. Append(p.allocated, at(w)) \in Seq(Binding)
    BY <1>1, <1>3
  <2> HIDE DEF Allocate
  <2>3. Allocate(p, e) \in Imports /\ Same(Allocate(p, e), p)
        /\ Allocate(p, e).failed = p.failed /\ Allocate(p, e).mappings = p.mappings
        /\ Allocate(p, e).allocated = Append(p.allocated, at(w))
    BY <2>1, <2>2 DEF Imports, Same
  <2> QED BY <1>1, <1>6, <2>3 DEF at
<1>7. CASE unavailable(p, w)
  <2> DEFINE l == Suffixed(w, n)
  <2>1. Allocate(p, e) = [p EXCEPT !.allocated = Append(p.allocated, at(l)), !.aliasCount = count]
    BY <1>5, <1>7
  <2>2. Append(p.allocated, at(l)) \in Seq(Binding)
    BY <1>2, <1>3
  <2> HIDE DEF Allocate, l
  <2>3. Allocate(p, e) \in Imports /\ Same(Allocate(p, e), p)
        /\ Allocate(p, e).failed = p.failed /\ Allocate(p, e).mappings = p.mappings
        /\ Allocate(p, e).allocated = Append(p.allocated, at(l))
    BY <1>4, <2>1, <2>2 DEF Imports, Same
  <2> QED BY <1>2, <2>3 DEF at, l
<1> QED BY <1>6, <1>7

\* A push that does not fail binds the new edge, keeps what was bound, and keeps
\* origins and local names unique.
LEMMA PushStep ==
  ASSUME NEW p \in Imports, NEW e \in Edge, NEW B \in SUBSET Edge, ~p.failed => Named(p, B)
  PROVE  /\ pushAndGet(p, e) \in Imports /\ Same(pushAndGet(p, e), p)
         /\ ~pushAndGet(p, e).failed => ~p.failed /\ Named(pushAndGet(p, e), B \cup {e})
<1>1. CASE OriginConflict(p, e) \/ AttributeConflict(p, e)
  <2>1. pushAndGet(p, e) = [p EXCEPT !.failed = TRUE]
    BY <1>1 DEF pushAndGet
  <2> QED BY <2>1 DEF Imports, Same
<1>2. CASE ~(OriginConflict(p, e) \/ AttributeConflict(p, e))
  <2> DEFINE ms == IF Resolves(p, e.origin) THEN p.mappings ELSE Append(p.mappings, Mapping(e))
             q == [p EXCEPT !.mappings = ms]
  <2>1. pushAndGet(p, e) = IF Known(q, e) THEN q ELSE Allocate(q, e)
    BY <1>2 DEF pushAndGet
  <2>2. p.mappings \in Seq(Mappings) /\ Mapping(e) \in Mappings
    BY DEF Imports, Mappings
  <2>3. ms \in Seq(Mappings) /\ ToSet(p.mappings) \subseteq ToSet(ms) /\ Mapping(e) \in ToSet(ms)
    <3>1. CASE Resolves(p, e.origin)
      BY <1>2, <2>2, <3>1 DEF Resolves, OriginConflict
    <3>2. CASE ~Resolves(p, e.origin)
      BY <2>2, <3>2, Appended
    <3> QED BY <3>1, <3>2
  <2>4. ~p.failed => \A i, j \in DOMAIN ms : ms[i].origin = ms[j].origin => i = j
    <3>1. CASE Resolves(p, e.origin)
      BY <3>1 DEF Named
    <3>2. CASE ~Resolves(p, e.origin)
      <4>1. \A i \in 1..Len(p.mappings) : p.mappings[i].origin # e.origin
        BY <2>2, <3>2, LenProperties DEF Resolves, ToSet
      <4>2. DOMAIN p.mappings = 1..Len(p.mappings) /\ DOMAIN ms = 1..(Len(p.mappings) + 1)
            /\ Len(p.mappings) \in Nat
            /\ \A i \in 1..Len(p.mappings) : ms[i] = p.mappings[i]
            /\ ms[Len(p.mappings) + 1].origin = e.origin
        BY <2>2, <3>2, Appended DEF Mapping
      <4> HIDE DEF ms
      <4> QED BY <4>1, <4>2 DEF Named
    <3> QED BY <3>1, <3>2
  <2> HIDE DEF ms
  <2>5. /\ q \in Imports /\ Same(q, p) /\ q.failed = p.failed /\ q.mappings = ms
        /\ q.allocated = p.allocated
    BY <2>3 DEF Imports, Same
  <2> HIDE DEF q
  <2>6. \A f \in B : ~p.failed => Mapping(f) \in ToSet(ms) /\ Known(q, f)
    BY <2>3, <2>5 DEF Named, Known
  <2>7. CASE Known(q, e)
    BY <2>1, <2>3, <2>4, <2>5, <2>6, <2>7 DEF Named
  <2>8. CASE ~Known(q, e)
    <3>1. pushAndGet(p, e) = Allocate(q, e)
      BY <2>1, <2>8
    <3>2. PICK l \in Locals :
            /\ ~unavailable(q, l)
            /\ Allocate(q, e).allocated = Append(q.allocated, [intent |-> Intent(e), local |-> l])
      BY <2>5, AllocateStep
    <3>3. /\ Allocate(q, e) \in Imports /\ Same(Allocate(q, e), q)
          /\ Allocate(q, e).failed = q.failed /\ Allocate(q, e).mappings = q.mappings
      BY <2>5, AllocateStep
    <3> DEFINE a == Allocate(q, e)
               b == [intent |-> Intent(e), local |-> l]
    <3> HIDE DEF a
    <3>4. q.allocated \in Seq(Binding) /\ b \in Binding
      BY <2>5 DEF Imports, Binding, Intents
    <3>5. b.local = l /\ b.intent = Intent(e)
      OBVIOUS
    <3> HIDE DEF b
    <3>6. /\ Len(q.allocated) \in Nat /\ DOMAIN q.allocated = 1..Len(q.allocated)
          /\ DOMAIN a.allocated = 1..(Len(q.allocated) + 1)
          /\ \A i \in 1..Len(q.allocated) : a.allocated[i] = q.allocated[i]
          /\ a.allocated[Len(q.allocated) + 1] = b
          /\ ToSet(a.allocated) = ToSet(q.allocated) \cup {b}
      BY <3>2, <3>4, Appended DEF a, b
    <3>7. \A f \in B \cup {e} : ~p.failed => Mapping(f) \in ToSet(a.mappings) /\ Known(a, f)
      BY <2>3, <2>5, <2>6, <3>3, <3>5, <3>6 DEF Known, a
    <3>8. ~p.failed => \A i, j \in DOMAIN a.mappings : a.mappings[i].origin = a.mappings[j].origin => i = j
      BY <2>4, <2>5, <3>3 DEF a
    <3>9. \A i \in 1..Len(q.allocated) : q.allocated[i].local # l
      BY <3>2, <3>6 DEF unavailable, ToSet
    <3>10. ~p.failed => \A i, j \in DOMAIN a.allocated :
                           a.allocated[i].local = a.allocated[j].local => i = j
      <4> SUFFICES ASSUME ~p.failed, NEW i \in DOMAIN a.allocated, NEW j \in DOMAIN a.allocated,
                          a.allocated[i].local = a.allocated[j].local
                   PROVE  i = j
        OBVIOUS
      <4>1. \A k \in 1..Len(q.allocated) : a.allocated[k].local # l
        BY <3>6, <3>9
      <4>2. a.allocated[Len(q.allocated) + 1].local = l
        BY <3>5, <3>6
      <4>3. i \in 1..Len(q.allocated) \/ i = Len(q.allocated) + 1
        BY <3>6
      <4>4. j \in 1..Len(q.allocated) \/ j = Len(q.allocated) + 1
        BY <3>6
      <4>5. CASE i \in 1..Len(q.allocated) /\ j \in 1..Len(q.allocated)
        <5>1. p.allocated[i].local = p.allocated[j].local /\ i \in DOMAIN p.allocated /\ j \in DOMAIN p.allocated
          BY <2>5, <3>6, <4>5
        <5> QED BY <5>1 DEF Named
      <4> QED BY <4>1, <4>2, <4>3, <4>4, <4>5
    <3>11. ~p.failed => \A x \in ToSet(a.allocated) : x.local \notin Globals \cup Names
      BY <2>5, <3>2, <3>5, <3>6 DEF Named, unavailable
    <3>12. ~p.failed => Named(a, B \cup {e})
      BY <3>7, <3>8, <3>10, <3>11 DEF Named
    <3> QED BY <2>5, <3>1, <3>3, <3>12 DEF a, Same
  <2> QED BY <2>7, <2>8
<1> QED BY <1>1, <1>2

-----------------------------------------------------------------------------
(* The declarations of a projection.                                     *)

\* What declarations ask for, and that none binds a name twice.
Requested(ds) == {d.request : d \in ToSet(ds)}
Distinct(ds) == \A d \in ToSet(ds) : IsInjective(d.bindings)

\* A pair is declared by some declaration.
LEMMA DeclaredPairs ==
  ASSUME NEW ds
  PROVE  \A x : x \in DeclaredBy(ds) <=> \E d \in ds : \E c \in ToSet(d.bindings) : x = <<d.request, c>>
<1>1. \A x : x \in DeclaredBy(ds) <=>
               \E d \in ds : x \in {<<d.request, b>> : b \in ToSet(d.bindings)}
  BY DEF DeclaredBy
<1> QED BY <1>1

\* findOrAdd adds a request that binds nothing, at the end, if it is new.
LEMMA FindOrAddStep ==
  ASSUME NEW ds \in Seq(Declaration), NEW q \in Requests
  PROVE  LET fs == findOrAdd(ds, q)
         IN  /\ fs \in Seq(Declaration) /\ DOMAIN ds \subseteq DOMAIN fs
             /\ \A i \in DOMAIN ds : fs[i] = ds[i]
             /\ Requested(fs) = Requested(ds) \cup {q}
             /\ DeclaredBy(ToSet(fs)) = DeclaredBy(ToSet(ds))
             /\ Distinct(ds) => Distinct(fs)
             /\ fs = ds \/ (q \notin Requested(ds) /\ fs = Append(ds, [request |-> q, bindings |-> <<>>]))
<1> DEFINE new == [request |-> q, bindings |-> <<>>]
<1>1. CASE q \in Requested(ds)
  <2>1. findOrAdd(ds, q) = ds
    BY <1>1 DEF findOrAdd, Requested
  <2> QED BY <1>1, <2>1
<1>2. CASE q \notin Requested(ds)
  <2>1. findOrAdd(ds, q) = Append(ds, new)
    BY <1>2 DEF findOrAdd, Requested
  <2>2. <<>> \in Seq(Intents) /\ ToSet(<<>>) = {} /\ IsInjective(<<>>)
    BY EmptySeq DEF ToSet, IsInjective
  <2>3. new \in Declaration /\ new.request = q /\ new.bindings = <<>>
    BY <2>2 DEF Declaration
  <2> HIDE DEF new
  <2>4. /\ Append(ds, new) \in Seq(Declaration) /\ DOMAIN ds \subseteq DOMAIN Append(ds, new)
        /\ \A i \in DOMAIN ds : Append(ds, new)[i] = ds[i]
        /\ ToSet(Append(ds, new)) = ToSet(ds) \cup {new}
    BY <2>3, Appended
  <2> DEFINE fs == Append(ds, new)
  <2> HIDE DEF fs
  <2>5. ToSet(fs) = ToSet(ds) \cup {new}
    BY <2>4 DEF fs
  <2>6. Requested(fs) = Requested(ds) \cup {q}
    BY <2>3, <2>5 DEF Requested
  <2>7. DeclaredBy(ToSet(fs)) = DeclaredBy(ToSet(ds))
    BY <2>2, <2>3, <2>5 DEF DeclaredBy
  <2>8. Distinct(ds) => Distinct(fs)
    BY <2>2, <2>3, <2>5 DEF Distinct
  <2> QED BY <1>2, <2>1, <2>4, <2>6, <2>7, <2>8 DEF fs, new
<1> QED BY <1>1, <1>2

\* attach adds one binding to one request, once.
LEMMA AttachStep ==
  ASSUME NEW ds \in Seq(Declaration), NEW q \in Requests, NEW b \in Intents
  PROVE  LET as == attach(ds, q, b)
             fs == findOrAdd(ds, q)
         IN  /\ as \in Seq(Declaration) /\ DOMAIN as = DOMAIN fs
             /\ \A i \in DOMAIN fs : as[i].request = fs[i].request
             /\ Requested(as) = Requested(ds) \cup {q}
             /\ DeclaredBy(ToSet(as)) = DeclaredBy(ToSet(ds)) \cup {<<q, b>>}
             /\ Distinct(ds) => Distinct(as)
<1> DEFINE fs == findOrAdd(ds, q)
           as == attach(ds, q, b)
           put(d) == IF d.request = q /\ ~Contains(d.bindings, b)
                       THEN [d EXCEPT !.bindings = Append(@, b)] ELSE d
<1>1. as = [i \in DOMAIN fs |-> put(fs[i])]
  BY DEF attach
<1>2. /\ fs \in Seq(Declaration) /\ Requested(fs) = Requested(ds) \cup {q}
      /\ DeclaredBy(ToSet(fs)) = DeclaredBy(ToSet(ds)) /\ (Distinct(ds) => Distinct(fs))
  BY FindOrAddStep
<1>3. \A d \in Declaration :
        /\ put(d) \in Declaration /\ put(d).request = d.request
        /\ ToSet(put(d).bindings) = IF d.request = q THEN ToSet(d.bindings) \cup {b} ELSE ToSet(d.bindings)
        /\ IsInjective(d.bindings) => IsInjective(put(d).bindings)
  <2> TAKE d \in Declaration
  <2>0. d.bindings \in Seq(Intents) /\ DOMAIN d.bindings = 1..Len(d.bindings)
    BY LenProperties DEF Declaration
  <2>1. CASE d.request # q
    BY <2>1
  <2>2. CASE d.request = q /\ Contains(d.bindings, b)
    BY <2>0, <2>2 DEF Contains, ToSet
  <2>3. CASE d.request = q /\ ~Contains(d.bindings, b)
    <3> DEFINE bs == Append(d.bindings, b)
    <3>1. put(d) = [d EXCEPT !.bindings = bs]
      BY <2>3
    <3>2. /\ bs \in Seq(Intents) /\ ToSet(bs) = ToSet(d.bindings) \cup {b}
          /\ Len(d.bindings) \in Nat
          /\ DOMAIN bs = 1..(Len(d.bindings) + 1) /\ bs[Len(d.bindings) + 1] = b
          /\ \A i \in 1..Len(d.bindings) : bs[i] = d.bindings[i]
      BY <2>0, Appended
    <3>3. \A i \in 1..Len(d.bindings) : d.bindings[i] # b
      BY <2>3 DEF Contains
    <3> HIDE DEF bs, put
    <3>4. put(d) \in Declaration /\ put(d).request = d.request /\ put(d).bindings = bs
      BY <3>1, <3>2 DEF Declaration
    <3>5. IsInjective(d.bindings) => IsInjective(bs)
      <4> SUFFICES ASSUME IsInjective(d.bindings), NEW i \in DOMAIN bs,
                          NEW j \in DOMAIN bs, bs[i] = bs[j]
                   PROVE  i = j
        BY DEF IsInjective
      <4>1. i \in 1..Len(d.bindings) \/ i = Len(d.bindings) + 1
        BY <3>2
      <4>2. j \in 1..Len(d.bindings) \/ j = Len(d.bindings) + 1
        BY <3>2
      <4>3. CASE i \in 1..Len(d.bindings) /\ j \in 1..Len(d.bindings)
        BY <2>0, <3>2, <4>3 DEF IsInjective
      <4> QED BY <3>2, <3>3, <4>1, <4>2, <4>3
    <3> QED BY <2>3, <3>2, <3>4, <3>5
  <2> QED BY <2>1, <2>2, <2>3
<1> HIDE DEF put, fs, as
<1>4. DOMAIN fs = 1..Len(fs) /\ Len(fs) \in Nat /\ \A i \in DOMAIN fs : fs[i] \in Declaration
  BY <1>2, LenProperties
<1>5. as \in Seq(Declaration)
  <2>1. as = [i \in 1..Len(fs) |-> put(fs[i])]
    BY <1>1, <1>4
  <2>2. \A i \in 1..Len(fs) : put(fs[i]) \in Declaration
    BY <1>3, <1>4
  <2> QED BY <1>4, <2>1, <2>2, FunctionIsSeq
<1>6. DOMAIN as = DOMAIN fs /\ \A i \in DOMAIN fs : as[i] = put(fs[i]) /\ as[i].request = fs[i].request
  BY <1>1, <1>3, <1>4
<1>7. ToSet(as) = {put(d) : d \in ToSet(fs)} /\ ToSet(fs) \subseteq Declaration
  BY <1>4, <1>6 DEF ToSet
<1>8. Requested(as) = Requested(fs)
  BY <1>3, <1>7 DEF Requested
<1>9. \E d \in ToSet(fs) : d.request = q
  BY <1>2 DEF Requested
<1>10. DeclaredBy(ToSet(as)) = DeclaredBy(ToSet(fs)) \cup {<<q, b>>}
  <2>1. \A x : x \in DeclaredBy(ToSet(as)) <=>
                 \E d \in ToSet(fs) : \E c \in ToSet(put(d).bindings) : x = <<d.request, c>>
    <3>1. \A x : x \in DeclaredBy(ToSet(as)) <=>
                   \E d \in ToSet(as) : \E c \in ToSet(d.bindings) : x = <<d.request, c>>
      BY DeclaredPairs
    <3>2. \A d \in ToSet(fs) : put(d).request = d.request
      BY <1>3, <1>7
    <3> QED BY <1>7, <3>1, <3>2
  <2>2. \A x : x \in DeclaredBy(ToSet(fs)) <=>
                 \E d \in ToSet(fs) : \E c \in ToSet(d.bindings) : x = <<d.request, c>>
    BY DeclaredPairs
  <2>3. \A x : x \in DeclaredBy(ToSet(as)) <=> x \in DeclaredBy(ToSet(fs)) \cup {<<q, b>>}
    <3>1. \A d \in ToSet(fs) :
            ToSet(put(d).bindings) = IF d.request = q THEN ToSet(d.bindings) \cup {b} ELSE ToSet(d.bindings)
      BY <1>3, <1>7
    <3> SUFFICES ASSUME NEW x
                 PROVE  x \in DeclaredBy(ToSet(as)) <=> x \in DeclaredBy(ToSet(fs)) \/ x = <<q, b>>
      OBVIOUS
    <3>2. x \in DeclaredBy(ToSet(as)) => x \in DeclaredBy(ToSet(fs)) \/ x = <<q, b>>
      <4> SUFFICES ASSUME x \in DeclaredBy(ToSet(as)) PROVE x \in DeclaredBy(ToSet(fs)) \/ x = <<q, b>>
        OBVIOUS
      <4>1. PICK d \in ToSet(fs) : \E c \in ToSet(put(d).bindings) : x = <<d.request, c>>
        BY <2>1
      <4>2. PICK c \in ToSet(put(d).bindings) : x = <<d.request, c>>
        BY <4>1
      <4>3. c \in ToSet(d.bindings) \/ (d.request = q /\ c = b)
        BY <3>1, <4>2
      <4> QED BY <2>2, <4>2, <4>3
    <3>3. x \in DeclaredBy(ToSet(fs)) => x \in DeclaredBy(ToSet(as))
      BY <2>1, <2>2, <3>1
    <3>4. <<q, b>> \in DeclaredBy(ToSet(as))
      BY <1>9, <2>1, <3>1
    <3> QED BY <3>2, <3>3, <3>4
  <2> QED BY <2>3
<1>11. Distinct(fs) => Distinct(as)
  BY <1>3, <1>7 DEF Distinct
<1> QED BY <1>2, <1>5, <1>6, <1>8, <1>10, <1>11 DEF fs, as

\* The binding leaves the requests, which stay.
LEMMA SplicedStep ==
  ASSUME NEW S, NEW bs \in Seq(S), NEW b, IsInjective(bs)
  PROVE  /\ Spliced(bs, b) \in Seq(S) /\ IsInjective(Spliced(bs, b))
         /\ ToSet(Spliced(bs, b)) = ToSet(bs) \ {b}
<1>0. Len(bs) \in Nat /\ DOMAIN bs = 1..Len(bs) /\ \A i \in 1..Len(bs) : bs[i] \in S
  BY LenProperties
<1>1. CASE ~Contains(bs, b)
  <2>1. Spliced(bs, b) = bs
    BY <1>1 DEF Spliced
  <2>2. b \notin ToSet(bs)
    BY <1>0, <1>1 DEF Contains, ToSet
  <2> QED BY <2>1, <2>2
<1>2. CASE Contains(bs, b)
  <2> DEFINE k == CHOOSE i \in DOMAIN bs : bs[i] = b
             before == SubSeq(bs, 1, k - 1)
             behind == SubSeq(bs, k + 1, Len(bs))
             rest == before \o behind
  <2>1. k \in 1..Len(bs) /\ bs[k] = b
    BY <1>0, <1>2 DEF Contains
  <2>2. Spliced(bs, b) = rest
    BY <1>2 DEF Spliced, RemoveAt
  <2> HIDE DEF k
  <2>3. before \in Seq(S) /\ Len(before) = k - 1 /\ \A i \in 1..(k - 1) : before[i] = bs[i]
    <3>1. /\ k - 1 \in Int /\ \A i \in 1..(k - 1) : bs[i] \in S
          /\ (k - 1) - 1 + 1 = k - 1 /\ (1 <= k - 1 \/ k - 1 = 0)
          /\ \A i \in 1..(k - 1) : 1 + i - 1 = i
      BY <1>0, <2>1
    <3>2. /\ before \in Seq(S) /\ Len(before) = IF 1 <= k - 1 THEN (k - 1) - 1 + 1 ELSE 0
          /\ \A i \in 1..((k - 1) - 1 + 1) : before[i] = bs[1 + i - 1]
      BY <3>1, SubSeqProperties
    <3> HIDE DEF before
    <3> QED BY <3>1, <3>2
  <2>4. behind \in Seq(S) /\ Len(behind) = Len(bs) - k
        /\ \A i \in 1..(Len(bs) - k) : behind[i] = bs[k + i]
    <3>1. /\ k + 1 \in Int /\ \A i \in (k + 1)..Len(bs) : bs[i] \in S
          /\ Len(bs) - (k + 1) + 1 = Len(bs) - k /\ (k + 1 <= Len(bs) \/ Len(bs) - k = 0)
          /\ \A i \in 1..(Len(bs) - k) : (k + 1) + i - 1 = k + i
      <4>1. k \in Int /\ Len(bs) \in Int /\ 1 <= k /\ k <= Len(bs)
        BY <1>0, <2>1
      <4>2. \A i \in (k + 1)..Len(bs) : i \in 1..Len(bs)
        BY <4>1
      <4>3. \A i \in (k + 1)..Len(bs) : bs[i] \in S
        BY <1>0, <4>2
      <4> QED BY <4>1, <4>3
    <3>2. /\ behind \in Seq(S) /\ Len(behind) = IF k + 1 <= Len(bs) THEN Len(bs) - (k + 1) + 1 ELSE 0
          /\ \A i \in 1..(Len(bs) - (k + 1) + 1) : behind[i] = bs[(k + 1) + i - 1]
      BY <1>0, <3>1, SubSeqProperties
    <3> HIDE DEF behind
    <3> QED BY <3>1, <3>2
  <2> HIDE DEF before, behind
  <2>5. /\ rest \in Seq(S) /\ Len(rest) = Len(before) + Len(behind)
        /\ \A i \in 1..(Len(before) + Len(behind)) :
             rest[i] = IF i <= Len(before) THEN before[i] ELSE behind[i - Len(before)]
    BY <2>3, <2>4, ConcatProperties
  <2>6. DOMAIN rest = 1..Len(rest)
    BY <2>5, LenProperties
  <2> HIDE DEF rest
  <2>7. DOMAIN rest = 1..(Len(bs) - 1)
        /\ \A i \in 1..(Len(bs) - 1) : rest[i] = IF i < k THEN bs[i] ELSE bs[i + 1]
    <3>1. k \in Int /\ Len(bs) \in Int /\ 1 <= k /\ k <= Len(bs)
      BY <1>0, <2>1
    <3>2. Len(before) + Len(behind) = Len(bs) - 1 /\ Len(rest) = Len(bs) - 1
      BY <2>3, <2>4, <2>5, <3>1
    <3>3. ASSUME NEW i \in 1..(Len(bs) - 1)
          PROVE  rest[i] = IF i < k THEN bs[i] ELSE bs[i + 1]
      <4>1. rest[i] = IF i <= k - 1 THEN before[i] ELSE behind[i - (k - 1)]
        BY <2>3, <2>5, <3>2
      <4>2. CASE i < k
        <5>1. i \in 1..(k - 1) /\ i <= k - 1
          BY <3>1, <4>2
        <5> QED BY <2>3, <4>1, <4>2, <5>1
      <4>3. CASE ~(i < k)
        <5>1. i - (k - 1) \in 1..(Len(bs) - k) /\ k + (i - (k - 1)) = i + 1 /\ ~(i <= k - 1)
          BY <3>1, <4>3
        <5> QED BY <2>4, <4>1, <4>3, <5>1
      <4> QED BY <4>2, <4>3
    <3> QED BY <2>6, <3>2, <3>3
  <2>8. IsInjective(rest)
    BY <1>0, <2>1, <2>7 DEF IsInjective
  <2>9. \A i \in 1..Len(bs) : i # k => bs[i] # b
    BY <1>0, <2>1 DEF IsInjective
  <2>10. ToSet(rest) \subseteq ToSet(bs) \ {b}
    BY <1>0, <2>1, <2>7, <2>9 DEF ToSet
  <2>11. ToSet(bs) \ {b} \subseteq ToSet(rest)
    <3> SUFFICES ASSUME NEW i \in 1..Len(bs), bs[i] # b PROVE bs[i] \in ToSet(rest)
      BY <1>0 DEF ToSet
    <3>1. CASE i < k
      BY <1>0, <2>1, <2>7, <3>1 DEF ToSet
    <3>2. CASE i > k
      <4>1. i - 1 \in 1..(Len(bs) - 1) /\ ~(i - 1 < k) /\ (i - 1) + 1 = i
        BY <1>0, <2>1, <3>2
      <4> QED BY <2>7, <4>1 DEF ToSet
    <3> QED BY <1>0, <2>1, <3>1, <3>2
  <2> QED BY <2>2, <2>5, <2>8, <2>10, <2>11
<1> QED BY <1>1, <1>2

\* removeTypeOnlyBinding takes one binding out of every request, and nothing else.
LEMMA RemoveStep ==
  ASSUME NEW ds \in Seq(Declaration), NEW b \in Intents, Distinct(ds)
  PROVE  LET rs == removeTypeOnlyBinding(ds, b)
         IN  /\ rs \in Seq(Declaration) /\ Distinct(rs)
             /\ DeclaredBy(ToSet(rs)) = {x \in DeclaredBy(ToSet(ds)) : x[2] # b}
<1> DEFINE cut(d) == [d EXCEPT !.bindings = Spliced(@, b)]
           rs == removeTypeOnlyBinding(ds, b)
<1>1. rs = [i \in DOMAIN ds |-> cut(ds[i])]
  BY DEF removeTypeOnlyBinding
<1>2. DOMAIN ds = 1..Len(ds) /\ Len(ds) \in Nat /\ \A i \in DOMAIN ds : ds[i] \in Declaration
  BY LenProperties
<1>3. \A d \in ToSet(ds) :
        /\ d \in Declaration /\ cut(d) \in Declaration /\ cut(d).request = d.request
        /\ ToSet(cut(d).bindings) = ToSet(d.bindings) \ {b} /\ IsInjective(cut(d).bindings)
  <2> TAKE d \in ToSet(ds)
  <2>1. d \in Declaration /\ IsInjective(d.bindings) /\ d.bindings \in Seq(Intents)
    BY <1>2 DEF ToSet, Distinct, Declaration
  <2>2. /\ Spliced(d.bindings, b) \in Seq(Intents) /\ IsInjective(Spliced(d.bindings, b))
        /\ ToSet(Spliced(d.bindings, b)) = ToSet(d.bindings) \ {b}
    BY <2>1, SplicedStep
  <2> QED BY <2>1, <2>2 DEF Declaration
<1> HIDE DEF cut, rs
<1>4. rs \in Seq(Declaration) /\ ToSet(rs) = {cut(d) : d \in ToSet(ds)}
  <2>1. rs \in [1..Len(ds) -> Declaration]
    BY <1>1, <1>2, <1>3 DEF ToSet
  <2>2. ToSet(rs) = {cut(d) : d \in ToSet(ds)}
    BY <1>1, <1>2 DEF ToSet
  <2> QED BY <1>2, <2>1, <2>2, FunctionIsSeq
<1>5. Distinct(rs)
  BY <1>3, <1>4 DEF Distinct
<1>6. DeclaredBy(ToSet(rs)) = {x \in DeclaredBy(ToSet(ds)) : x[2] # b}
  <2>1. \A x : x \in DeclaredBy(ToSet(rs)) <=>
                 \E d \in ToSet(ds) : \E c \in ToSet(d.bindings) : c # b /\ x = <<d.request, c>>
    <3>1. \A x : x \in DeclaredBy(ToSet(rs)) <=>
                   \E d \in ToSet(rs) : \E c \in ToSet(d.bindings) : x = <<d.request, c>>
      BY DeclaredPairs
    <3>2. \A x : x \in DeclaredBy(ToSet(rs)) <=>
                   \E d \in ToSet(ds) : \E c \in ToSet(cut(d).bindings) : x = <<cut(d).request, c>>
      BY <1>4, <3>1
    <3>3. \A d \in ToSet(ds) : \A c : c \in ToSet(cut(d).bindings) <=> c \in ToSet(d.bindings) /\ c # b
      BY <1>3
    <3>4. \A d \in ToSet(ds) : cut(d).request = d.request
      BY <1>3
    <3> HIDE <1>3
    <3>5. \A x : x \in DeclaredBy(ToSet(rs)) <=>
                   \E d \in ToSet(ds) : \E c \in ToSet(cut(d).bindings) : x = <<d.request, c>>
      BY <3>2, <3>4
    <3> QED BY <3>3, <3>5
  <2>2. \A x : x \in DeclaredBy(ToSet(ds)) <=>
                 \E d \in ToSet(ds) : \E c \in ToSet(d.bindings) : x = <<d.request, c>>
    BY DeclaredPairs
  <2>3. \A x : \A q : \A c : x = <<q, c>> => x[2] = c
    OBVIOUS
  <2> QED BY <2>1, <2>2, <2>3
<1> QED BY <1>4, <1>5, <1>6 DEF rs

-----------------------------------------------------------------------------
(* The order of the requests.                                              *)

\* What edges ask for at run time, and declarations that do so in their order.
Asked(es) == {Request(e) : e \in {f \in ToSet(es) : Runs(f)}}
OrderedBy(es, ds) ==
  /\ Requested(ds) = Asked(es)
  /\ \A i, j \in DOMAIN ds : i < j => MetBefore(es, ds[i].request, ds[j].request)

\* What was met first stays so.
LEMMA MetEarlier ==
  ASSUME NEW es \in Seq(Edge), NEW e \in Edge
  PROVE  /\ \A q, q2 : MetBefore(es, q, q2) => MetBefore(Append(es, e), q, q2)
         /\ \A q \in Asked(es) : \A q2 : q2 \notin Asked(es) => MetBefore(Append(es, e), q, q2)
         /\ Asked(Append(es, e)) = IF Runs(e) THEN Asked(es) \cup {Request(e)} ELSE Asked(es)
<1> DEFINE fs == Append(es, e)
<1>1. /\ Len(es) \in Nat /\ DOMAIN es = 1..Len(es) /\ DOMAIN fs = 1..(Len(es) + 1)
      /\ \A i \in 1..Len(es) : fs[i] = es[i]
      /\ ToSet(fs) = ToSet(es) \cup {e}
  BY Appended
<1> HIDE DEF fs
<1>2. \A k \in DOMAIN es : k \in DOMAIN fs /\ fs[k] = es[k] /\ \A l \in 1..k : l \in DOMAIN es /\ fs[l] = es[l]
  BY <1>1
<1>3. \A q, q2 : MetBefore(es, q, q2) => MetBefore(fs, q, q2)
  BY <1>2 DEF MetBefore
<1>4. ASSUME NEW q \in Asked(es), NEW q2, q2 \notin Asked(es) PROVE MetBefore(fs, q, q2)
  <2>1. PICK k \in DOMAIN es : Runs(es[k]) /\ Request(es[k]) = q
    BY DEF Asked, ToSet
  <2>2. \A l \in DOMAIN es : Runs(es[l]) => Request(es[l]) # q2
    BY <1>4 DEF Asked, ToSet
  <2> QED BY <1>2, <2>1, <2>2 DEF MetBefore
<1>5. Asked(fs) = IF Runs(e) THEN Asked(es) \cup {Request(e)} ELSE Asked(es)
  BY <1>1 DEF Asked
<1> QED BY <1>3, <1>4, <1>5 DEF fs

\* Adding a request where an edge that runs asks for it keeps the order, and an
\* edge that does not run needs none.
LEMMA OrderStep ==
  ASSUME NEW es \in Seq(Edge), NEW e \in Edge, NEW ds \in Seq(Declaration), OrderedBy(es, ds)
  PROVE  /\ ~Runs(e) => OrderedBy(Append(es, e), ds)
         /\ Runs(e) => OrderedBy(Append(es, e), findOrAdd(ds, Request(e)))
<1> DEFINE fs == findOrAdd(ds, Request(e))
           new == [request |-> Request(e), bindings |-> <<>>]
<1>1. Request(e) \in Requests
  BY DEF Requests
<1>2. CASE ~Runs(e)
  BY <1>2, MetEarlier DEF OrderedBy
<1>3. CASE Runs(e) /\ fs = ds
  <2>1. Request(e) \in Requested(ds)
    <3>1. Requested(findOrAdd(ds, Request(e))) = Requested(ds) \cup {Request(e)}
      BY <1>1, FindOrAddStep
    <3>2. findOrAdd(ds, Request(e)) = ds
      BY <1>3
    <3> QED BY <3>1, <3>2
  <2>2. Asked(Append(es, e)) = Asked(es)
    BY <1>3, <2>1, MetEarlier DEF OrderedBy
  <2> QED BY <1>3, <2>2, MetEarlier DEF OrderedBy
<1>4. CASE Runs(e) /\ fs # ds
  <2>1. /\ Request(e) \notin Requested(ds) /\ fs = Append(ds, new)
        /\ Requested(fs) = Requested(ds) \cup {Request(e)}
    BY <1>1, <1>4, FindOrAddStep
  <2>2. new \in Declaration /\ new.request = Request(e)
    BY <1>1, EmptySeq DEF Declaration
  <2>3. /\ Len(ds) \in Nat /\ DOMAIN ds = 1..Len(ds) /\ DOMAIN fs = 1..(Len(ds) + 1)
        /\ \A i \in 1..Len(ds) : fs[i] = ds[i]
        /\ fs[Len(ds) + 1].request = Request(e)
    BY <2>1, <2>2, Appended
  <2>4. Requested(fs) = Asked(Append(es, e))
    BY <1>4, <2>1, MetEarlier DEF OrderedBy
  <2> HIDE DEF fs, new
  <2>5. ASSUME NEW i \in DOMAIN fs, NEW j \in DOMAIN fs, i < j
        PROVE  MetBefore(Append(es, e), fs[i].request, fs[j].request)
    <3>1. i \in 1..Len(ds) /\ fs[i] = ds[i]
      BY <2>3, <2>5
    <3>2. CASE j \in 1..Len(ds)
      BY <2>3, <2>5, <3>1, <3>2, MetEarlier DEF OrderedBy
    <3>3. CASE j = Len(ds) + 1
      <4>1. fs[i].request \in Asked(es)
        BY <2>3, <3>1 DEF OrderedBy, Requested, ToSet
      <4>2. Request(e) \notin Asked(es)
        BY <2>1 DEF OrderedBy
      <4> QED BY <2>3, <3>3, <4>1, <4>2, MetEarlier
    <3> QED BY <2>3, <3>2, <3>3
  <2>6. OrderedBy(Append(es, e), fs)
    BY <2>4, <2>5 DEF OrderedBy
  <2> QED BY <1>4, <2>6 DEF fs
<1> QED BY <1>2, <1>3, <1>4

\* The order of requests does not depend on what they bind.
LEMMA SameOrder ==
  ASSUME NEW es, NEW fs, NEW as, OrderedBy(es, fs), DOMAIN as = DOMAIN fs,
         \A i \in DOMAIN fs : as[i].request = fs[i].request
  PROVE  OrderedBy(es, as)
<1>1. Requested(as) = Requested(fs)
  BY DEF Requested, ToSet
<1>2. Requested(as) = Asked(es)
  BY <1>1 DEF OrderedBy
<1>3. ASSUME NEW i \in DOMAIN as, NEW j \in DOMAIN as, i < j
      PROVE  MetBefore(es, as[i].request, as[j].request)
  <2>1. MetBefore(es, fs[i].request, fs[j].request)
    BY <1>3 DEF OrderedBy
  <2>2. as[i].request = fs[i].request /\ as[j].request = fs[j].request
    BY <1>3
  <2> QED BY <2>1, <2>2
<1> QED BY <1>2, <1>3 DEF OrderedBy

-----------------------------------------------------------------------------
(* One projection.                                                         *)

\* What edges need bound, and declarations that bind the values of V and, erased,
\* the types of T.
Pairs(B) == {<<Request(e), Intent(e)>> : e \in B}
DeclaresAll(p, V, T) ==
  /\ DeclaredBy(ToSet(p.runtime)) = Pairs(V)
  /\ DeclaredBy(ToSet(p.types)) = Pairs(T) \ Pairs(V)
  /\ Distinct(p.runtime) /\ Distinct(p.types)

\* A binding belongs to one request.
LEMMA SameIntent ==
  ASSUME NEW e, NEW f, Intent(e) = Intent(f)
  PROVE  Request(e) = Request(f)
BY DEF Intent

\* One more edge needs one more binding.
LEMMA PairsOfUnion ==
  ASSUME NEW B, NEW e
  PROVE  Pairs(B \cup {e}) = Pairs(B) \cup {<<Request(e), Intent(e)>>}
BY DEF Pairs

\* A value declares its binding where it runs and nowhere else.
LEMMA ValueStep ==
  ASSUME NEW p \in Imports, NEW e \in Edge, NEW B \in SUBSET Edge, NEW V \in SUBSET Edge,
         NEW T \in SUBSET Edge,
         ~p.failed => Named(p, B) /\ DeclaresAll(p, V, T)
  PROVE  LET q == PushValue(p, e)
         IN  /\ q \in Imports
             /\ ~q.failed => /\ ~p.failed
                             /\ Named(q, B \cup {e}) /\ DeclaresAll(q, V \cup {e}, T)
                             /\ q.runtime = attach(p.runtime, Request(e), Intent(e))
<1> DEFINE a == pushAndGet(p, e)
           ts == removeTypeOnlyBinding(a.types, Intent(e))
           rs == attach(a.runtime, Request(e), Intent(e))
           q == [a EXCEPT !.types = ts, !.runtime = rs]
<1>1. /\ a \in Imports /\ Same(a, p)
      /\ ~a.failed => ~p.failed /\ Named(a, B \cup {e})
  BY PushStep
<1>2. PushValue(p, e) = IF a.failed THEN a ELSE q
  BY DEF PushValue
<1> HIDE DEF a
<1>3. CASE a.failed
  BY <1>1, <1>2, <1>3
<1>4. CASE ~a.failed
  <2>1. ~p.failed /\ Named(a, B \cup {e}) /\ a.runtime = p.runtime /\ a.types = p.types
        /\ DeclaresAll(p, V, T)
    BY <1>1, <1>4 DEF Same
  <2>2. /\ Request(e) \in Requests /\ Intent(e) \in Intents
        /\ a.runtime \in Seq(Declaration) /\ a.types \in Seq(Declaration)
    BY <1>1 DEF Requests, Intents, Imports
  <2>3. /\ ts \in Seq(Declaration) /\ Distinct(ts)
        /\ DeclaredBy(ToSet(ts)) = {x \in DeclaredBy(ToSet(a.types)) : x[2] # Intent(e)}
    BY <2>1, <2>2, RemoveStep DEF DeclaresAll
  <2>4. /\ rs \in Seq(Declaration) /\ Distinct(rs)
        /\ DeclaredBy(ToSet(rs)) = DeclaredBy(ToSet(a.runtime)) \cup {<<Request(e), Intent(e)>>}
    BY <2>1, <2>2, AttachStep DEF DeclaresAll
  <2> HIDE DEF ts, rs
  <2>5. /\ q \in Imports /\ q.types = ts /\ q.runtime = rs /\ q.failed = a.failed
        /\ q.mappings = a.mappings /\ q.allocated = a.allocated
    BY <1>1, <2>3, <2>4 DEF Imports
  <2> HIDE DEF q
  <2>6. Named(q, B \cup {e})
    BY <2>1, <2>5 DEF Named, Known
  <2>7. DeclaredBy(ToSet(rs)) = Pairs(V \cup {e})
    BY <2>1, <2>4, PairsOfUnion DEF DeclaresAll
  <2>8. DeclaredBy(ToSet(ts)) = Pairs(T) \ Pairs(V \cup {e})
    <3>1. \A f : <<Request(f), Intent(f)>>[2] = Intent(f)
      OBVIOUS
    <3>2. \A x \in Pairs(T) : x[2] = Intent(e) <=> x = <<Request(e), Intent(e)>>
      <4> SUFFICES ASSUME NEW f \in T
                   PROVE  Intent(f) = Intent(e) <=>
                            <<Request(f), Intent(f)>> = <<Request(e), Intent(e)>>
        BY <3>1 DEF Pairs
      <4> QED BY SameIntent
    <3>3. DeclaredBy(ToSet(ts)) = {x \in Pairs(T) \ Pairs(V) : x[2] # Intent(e)}
      BY <2>1, <2>3 DEF DeclaresAll
    <3> QED BY <3>2, <3>3, PairsOfUnion
  <2>9. DeclaresAll(q, V \cup {e}, T)
    BY <2>3, <2>4, <2>5, <2>7, <2>8 DEF DeclaresAll
  <2> QED BY <1>2, <1>4, <2>1, <2>5, <2>6, <2>9 DEF rs
<1> QED BY <1>3, <1>4

\* A type declares its binding where it is erased, unless the value is declared.
LEMMA TypeStep ==
  ASSUME NEW p \in Imports, NEW e \in Edge, NEW B \in SUBSET Edge, NEW V \in SUBSET Edge,
         NEW T \in SUBSET Edge,
         ~p.failed => Named(p, B) /\ DeclaresAll(p, V, T)
  PROVE  LET q == PushType(p, e)
         IN  /\ q \in Imports
             /\ ~q.failed => /\ ~p.failed
                             /\ Named(q, B \cup {e}) /\ DeclaresAll(q, V, T \cup {e})
                             /\ q.runtime = p.runtime
<1> DEFINE a == pushAndGet(p, e)
           x == <<Request(e), Intent(e)>>
           ts == attach(a.types, Request(e), Intent(e))
           q == [a EXCEPT !.types = ts]
<1>1. /\ a \in Imports /\ Same(a, p)
      /\ ~a.failed => ~p.failed /\ Named(a, B \cup {e})
  BY PushStep
<1>2. PushType(p, e) = IF a.failed \/ runtimeOwnsBinding(a, Intent(e)) THEN a ELSE q
  BY DEF PushType
<1> HIDE DEF a
<1>3. CASE a.failed
  BY <1>1, <1>2, <1>3
<1>4. CASE ~a.failed
  <2>1. ~p.failed /\ Named(a, B \cup {e}) /\ a.runtime = p.runtime /\ a.types = p.types
        /\ DeclaresAll(p, V, T)
    BY <1>1, <1>4 DEF Same
  <2>2. /\ Request(e) \in Requests /\ Intent(e) \in Intents
        /\ a.runtime \in Seq(Declaration) /\ a.types \in Seq(Declaration)
    BY <1>1 DEF Requests, Intents, Imports
  <2>3. runtimeOwnsBinding(a, Intent(e)) <=> x \in Pairs(V)
    <3>1. \A d \in ToSet(a.runtime) : d.bindings \in Seq(Intents)
      <4>1. \A i \in DOMAIN a.runtime : a.runtime[i] \in Declaration
        BY <2>2
      <4>2. \A d \in Declaration : d.bindings \in Seq(Intents)
        BY DEF Declaration
      <4> QED BY <4>1, <4>2 DEF ToSet
    <3>2. \A d \in ToSet(a.runtime) : Contains(d.bindings, Intent(e)) <=> Intent(e) \in ToSet(d.bindings)
      BY <3>1, LenProperties DEF Contains, ToSet
    <3>3. \A y : y \in Pairs(V) <=>
                   \E d \in ToSet(a.runtime) : \E c \in ToSet(d.bindings) : y = <<d.request, c>>
      BY <2>1, DeclaredPairs DEF DeclaresAll
    <3>4. x \in Pairs(V) => runtimeOwnsBinding(a, Intent(e))
      BY <3>2, <3>3 DEF runtimeOwnsBinding
    <3>5. ASSUME runtimeOwnsBinding(a, Intent(e)) PROVE x \in Pairs(V)
      <4>1. PICK d \in ToSet(a.runtime) : Intent(e) \in ToSet(d.bindings)
        BY <3>2, <3>5 DEF runtimeOwnsBinding
      <4>2. <<d.request, Intent(e)>> \in Pairs(V)
        BY <3>3, <4>1
      <4>3. PICK f \in V : <<d.request, Intent(e)>> = <<Request(f), Intent(f)>>
        BY <4>2 DEF Pairs
      <4>4. Intent(e) = Intent(f)
        BY <4>3
      <4>5. Request(e) = Request(f)
        BY <4>4, SameIntent
      <4> QED BY <4>4, <4>5 DEF Pairs
    <3> QED BY <3>4, <3>5
  <2>4. CASE runtimeOwnsBinding(a, Intent(e))
    <3>1. DeclaresAll(a, V, T \cup {e})
      BY <2>1, <2>3, <2>4, PairsOfUnion DEF DeclaresAll
    <3> QED BY <1>1, <1>2, <2>1, <2>4, <3>1
  <2>5. CASE ~runtimeOwnsBinding(a, Intent(e))
    <3>1. /\ ts \in Seq(Declaration) /\ Distinct(ts)
          /\ DeclaredBy(ToSet(ts)) = DeclaredBy(ToSet(a.types)) \cup {x}
      BY <2>1, <2>2, AttachStep DEF DeclaresAll
    <3> HIDE DEF ts
    <3>2. /\ q \in Imports /\ q.types = ts /\ q.runtime = a.runtime /\ q.failed = a.failed
          /\ q.mappings = a.mappings /\ q.allocated = a.allocated
      BY <1>1, <3>1 DEF Imports
    <3> HIDE DEF q, x
    <3>3. Named(q, B \cup {e})
      BY <2>1, <3>2 DEF Named, Known
    <3>4. DeclaredBy(ToSet(ts)) = Pairs(T \cup {e}) \ Pairs(V)
      BY <2>1, <2>3, <2>5, <3>1, PairsOfUnion DEF DeclaresAll, x
    <3>5. DeclaresAll(q, V, T \cup {e})
      BY <2>1, <3>1, <3>2, <3>4 DEF DeclaresAll
    <3> QED BY <1>2, <1>4, <2>1, <2>5, <3>2, <3>3, <3>5
  <2> QED BY <2>4, <2>5
<1> QED BY <1>3, <1>4

-----------------------------------------------------------------------------
(* The invariant of the plan: what each projection that has not failed     *)
(* made of the edges met so far.                                           *)

\* The edges that a projection binds, those of a kind, and those it may erase.
Of(es, kind) == {e \in ToSet(es) : e.kind = kind}
BoundIn(es, r) == {e \in ToSet(es) : e.kind \in Selected(r)}
TypesIn(es, r) == IF r = "implementation" THEN Of(es, "type") ELSE {}
Fine(p, es, r) ==
  ~p.failed =>
    /\ Named(p, BoundIn(es, r))
    /\ r # "declaration" =>
         /\ DeclaresAll(p, Of(es, "value"), TypesIn(es, r))
         /\ OrderedBy(es, p.runtime)

PlanInv == PlanTypeOK /\ \A r \in Profile : Fine(plan[r], edges, r)

\* Which edges a projection binds.
LEMMA Selection ==
  /\ Selected("runtime") = {"value"} /\ Selected("implementation") = {"value", "type"}
  /\ Selected("declaration") = {"declaration"}
BY DEF Selected

\* How one more edge changes what a projection has to bind.
LEMMA EdgeSets ==
  ASSUME NEW es \in Seq(Edge), NEW e \in Edge
  PROVE  /\ Append(es, e) \in Seq(Edge)
         /\ \A r : /\ BoundIn(es, r) \in SUBSET Edge /\ TypesIn(es, r) \in SUBSET Edge
                   /\ e.kind \in Selected(r) => BoundIn(Append(es, e), r) = BoundIn(es, r) \cup {e}
                   /\ e.kind \notin Selected(r) => BoundIn(Append(es, e), r) = BoundIn(es, r)
         /\ \A k : /\ Of(es, k) \in SUBSET Edge
                   /\ e.kind = k => Of(Append(es, e), k) = Of(es, k) \cup {e}
                   /\ e.kind # k => Of(Append(es, e), k) = Of(es, k)
<1>1. Append(es, e) \in Seq(Edge) /\ ToSet(Append(es, e)) = ToSet(es) \cup {e}
  BY Appended
<1>2. ToSet(es) \subseteq Edge
  BY LenProperties DEF ToSet
<1>3. \A r : /\ BoundIn(es, r) \in SUBSET Edge
             /\ e.kind \in Selected(r) => BoundIn(Append(es, e), r) = BoundIn(es, r) \cup {e}
             /\ e.kind \notin Selected(r) => BoundIn(Append(es, e), r) = BoundIn(es, r)
  BY <1>1, <1>2 DEF BoundIn
<1>4. \A k : /\ Of(es, k) \in SUBSET Edge
             /\ e.kind = k => Of(Append(es, e), k) = Of(es, k) \cup {e}
             /\ e.kind # k => Of(Append(es, e), k) = Of(es, k)
  BY <1>1, <1>2 DEF Of
<1>5. \A r : TypesIn(es, r) \in SUBSET Edge
  BY <1>4 DEF TypesIn
<1> QED BY <1>1, <1>3, <1>4, <1>5

\* An edge that a projection leaves alone.
LEMMA OtherEdge ==
  ASSUME NEW r \in Profile, NEW p \in Imports, NEW es \in Seq(Edge), NEW e \in Edge, Fine(p, es, r),
         e.kind \notin Selected(r), r = "declaration" \/ ~Runs(e)
  PROVE  Fine(p, Append(es, e), r)
<1>1. BoundIn(Append(es, e), r) = BoundIn(es, r)
  BY EdgeSets
<1>2. CASE r = "declaration"
  BY <1>1, <1>2 DEF Fine
<1>3. CASE r # "declaration"
  <2>1. p.runtime \in Seq(Declaration)
    BY DEF Imports
  <2>2. e.kind # "value"
    BY <1>3 DEF Runs
  <2>3. Of(Append(es, e), "value") = Of(es, "value")
    BY <2>2, EdgeSets
  <2>4. TypesIn(Append(es, e), r) = TypesIn(es, r)
    <3>1. r = "implementation" => e.kind # "type"
      BY Selection
    <3> QED BY <3>1, EdgeSets DEF TypesIn
  <2>5. ~p.failed => OrderedBy(Append(es, e), p.runtime)
    BY <1>3, <2>1, OrderStep DEF Fine
  <2> QED BY <1>1, <2>3, <2>4, <2>5 DEF Fine
<1> QED BY <1>2, <1>3

\* A side effect adds its request to both projections that run.
LEMMA SideEffectEdge ==
  ASSUME NEW r \in {"runtime", "implementation"}, NEW p \in Imports, NEW es \in Seq(Edge),
         NEW e \in Edge,
         Fine(p, es, r), e.kind = "sideEffect"
  PROVE  LET q == [p EXCEPT !.runtime = findOrAdd(@, Request(e))]
         IN  q \in Imports /\ Fine(q, Append(es, e), r)
<1> DEFINE rs == findOrAdd(p.runtime, Request(e))
           q == [p EXCEPT !.runtime = rs]
<1>1. p.runtime \in Seq(Declaration) /\ Request(e) \in Requests
  BY DEF Imports, Requests
<1>2. /\ rs \in Seq(Declaration) /\ DeclaredBy(ToSet(rs)) = DeclaredBy(ToSet(p.runtime))
      /\ Distinct(p.runtime) => Distinct(rs)
  BY <1>1, FindOrAddStep
<1>3. ~p.failed => OrderedBy(Append(es, e), rs)
  BY <1>1, OrderStep DEF Fine, Runs
<1> HIDE DEF rs
<1>4. /\ q \in Imports /\ q.types = p.types /\ q.runtime = rs /\ q.failed = p.failed
      /\ q.mappings = p.mappings /\ q.allocated = p.allocated
  BY <1>2 DEF Imports
<1> HIDE DEF q
<1>5. BoundIn(Append(es, e), r) = BoundIn(es, r) /\ Of(Append(es, e), "value") = Of(es, "value")
      /\ TypesIn(Append(es, e), r) = TypesIn(es, r)
  BY Selection, EdgeSets DEF TypesIn
<1>6. ~p.failed => Named(q, BoundIn(es, r)) /\ DeclaresAll(q, Of(es, "value"), TypesIn(es, r))
  BY <1>2, <1>4 DEF Fine, Named, Known, DeclaresAll
<1>7. Fine(q, Append(es, e), r)
  BY <1>3, <1>4, <1>5, <1>6 DEF Fine
<1> QED BY <1>4, <1>7 DEF q, rs

\* A value goes to both projections that run.
LEMMA ValueEdge ==
  ASSUME NEW r \in {"runtime", "implementation"}, NEW p \in Imports, NEW es \in Seq(Edge),
         NEW e \in Edge,
         Fine(p, es, r), e.kind = "value"
  PROVE  PushValue(p, e) \in Imports /\ Fine(PushValue(p, e), Append(es, e), r)
<1> DEFINE q == PushValue(p, e)
<1>1. /\ BoundIn(Append(es, e), r) = BoundIn(es, r) \cup {e}
      /\ Of(Append(es, e), "value") = Of(es, "value") \cup {e}
      /\ TypesIn(Append(es, e), r) = TypesIn(es, r)
      /\ BoundIn(es, r) \in SUBSET Edge /\ TypesIn(es, r) \in SUBSET Edge /\ Of(es, "value") \in SUBSET Edge
  BY Selection, EdgeSets DEF TypesIn
<1>2. ~p.failed => Named(p, BoundIn(es, r)) /\ DeclaresAll(p, Of(es, "value"), TypesIn(es, r))
  BY DEF Fine
<1>3. /\ q \in Imports
      /\ ~q.failed => /\ ~p.failed /\ Named(q, BoundIn(es, r) \cup {e})
                      /\ DeclaresAll(q, Of(es, "value") \cup {e}, TypesIn(es, r))
                      /\ q.runtime = attach(p.runtime, Request(e), Intent(e))
  BY <1>1, <1>2, ValueStep
<1> HIDE DEF q
<1>4. ASSUME ~q.failed PROVE OrderedBy(Append(es, e), q.runtime)
  <2> DEFINE fs == findOrAdd(p.runtime, Request(e))
  <2>1. p.runtime \in Seq(Declaration) /\ Request(e) \in Requests /\ Intent(e) \in Intents
    BY DEF Imports, Requests, Intents
  <2>2. OrderedBy(Append(es, e), fs)
    BY <1>3, <1>4, <2>1, OrderStep DEF Fine, Runs
  <2>3. DOMAIN q.runtime = DOMAIN fs /\ \A i \in DOMAIN fs : q.runtime[i].request = fs[i].request
    BY <1>3, <1>4, <2>1, AttachStep
  <2> HIDE DEF fs
  <2> QED BY <2>2, <2>3, SameOrder
<1> QED BY <1>1, <1>3, <1>4 DEF Fine, q

\* A type goes to the projection of a TypeScript build.
LEMMA TypeEdge ==
  ASSUME NEW p \in Imports, NEW es \in Seq(Edge), NEW e \in Edge,
         Fine(p, es, "implementation"), e.kind = "type"
  PROVE  PushType(p, e) \in Imports /\ Fine(PushType(p, e), Append(es, e), "implementation")
<1> DEFINE q == PushType(p, e)
           B == BoundIn(es, "implementation")
           V == Of(es, "value")
           T == Of(es, "type")
<1>1. /\ BoundIn(Append(es, e), "implementation") = B \cup {e}
      /\ Of(Append(es, e), "value") = V /\ TypesIn(Append(es, e), "implementation") = T \cup {e}
      /\ TypesIn(es, "implementation") = T
      /\ B \in SUBSET Edge /\ V \in SUBSET Edge /\ T \in SUBSET Edge
  BY Selection, EdgeSets DEF TypesIn
<1>2. ~p.failed => Named(p, B) /\ DeclaresAll(p, V, T)
  BY <1>1 DEF Fine
<1> HIDE DEF B, V, T
<1>3. /\ q \in Imports
      /\ ~q.failed => /\ ~p.failed /\ Named(q, B \cup {e}) /\ DeclaresAll(q, V, T \cup {e})
                      /\ q.runtime = p.runtime
  BY <1>1, <1>2, TypeStep
<1> HIDE DEF q
<1>4. p.runtime \in Seq(Declaration)
  BY DEF Imports
<1>5. ~q.failed => OrderedBy(Append(es, e), q.runtime)
  BY <1>3, <1>4, OrderStep DEF Fine, Runs
<1> QED BY <1>1, <1>3, <1>5 DEF Fine, q

\* A type of a declaration file goes to its projection.
LEMMA DeclarationEdge ==
  ASSUME NEW p \in Imports, NEW es \in Seq(Edge), NEW e \in Edge,
         Fine(p, es, "declaration"), e.kind = "declaration"
  PROVE  pushAndGet(p, e) \in Imports /\ Fine(pushAndGet(p, e), Append(es, e), "declaration")
<1> DEFINE B == BoundIn(es, "declaration")
<1>1. BoundIn(Append(es, e), "declaration") = B \cup {e} /\ B \in SUBSET Edge
  BY Selection, EdgeSets
<1>2. ~p.failed => Named(p, B)
  BY DEF Fine
<1> HIDE DEF B
<1>3. /\ pushAndGet(p, e) \in Imports
      /\ ~pushAndGet(p, e).failed => Named(pushAndGet(p, e), B \cup {e})
  BY <1>1, <1>2, PushStep
<1> QED BY <1>1, <1>3 DEF Fine

\* The invariant holds of a module that mentions nothing.
LEMMA PlanStarts == PlanInit => PlanInv
<1> SUFFICES ASSUME PlanInit PROVE PlanInv
  OBVIOUS
<1>1. edges = <<>> /\ \A r \in Profile : plan[r] = NoImports
  BY DEF PlanInit
<1>2. <<>> \in Counts
  <2>1. <<>> \in [1..0 -> Nat] /\ 1..0 = {}
    BY EmptySeq, LenProperties
  <2>2. <<>> \in [{} -> Nat]
    BY <2>1
  <2> QED BY <2>2 DEF Counts
<1>3. NoImports \in Imports
  BY <1>2, EmptySeq DEF NoImports, Imports
<1>4. PlanTypeOK
  BY <1>3, EmptySeq DEF PlanInit, PlanTypeOK
<1>5. ToSet(<<>>) = {} /\ DOMAIN <<>> = {}
  BY EmptySeq DEF ToSet
<1>6. /\ NoImports.mappings = <<>> /\ NoImports.allocated = <<>> /\ NoImports.runtime = <<>>
      /\ NoImports.types = <<>>
  BY DEF NoImports
<1>7. \A r \in Profile : Fine(NoImports, <<>>, r)
  <2> TAKE r \in Profile
  <2>1. BoundIn(<<>>, r) = {} /\ Of(<<>>, "value") = {} /\ TypesIn(<<>>, r) = {} /\ Asked(<<>>) = {}
    BY <1>5 DEF BoundIn, Of, TypesIn, Asked
  <2>2. Named(NoImports, {})
    BY <1>5, <1>6 DEF Named
  <2>3. DeclaresAll(NoImports, {}, {})
    BY <1>5, <1>6 DEF DeclaresAll, Pairs, DeclaredBy, Distinct
  <2>4. OrderedBy(<<>>, NoImports.runtime)
    BY <1>5, <1>6, <2>1 DEF OrderedBy, Requested
  <2> QED BY <2>1, <2>2, <2>3, <2>4 DEF Fine
<1> QED BY <1>1, <1>4, <1>7 DEF PlanInv

\* Every edge keeps the invariant, in each projection.
LEMMA PlanStep == PlanInv /\ [PlanNext]_planVars => PlanInv'
<1> SUFFICES ASSUME PlanInv, [PlanNext]_planVars PROVE PlanInv'
  OBVIOUS
<1>1. CASE UNCHANGED planVars
  BY <1>1 DEF planVars, PlanInv, PlanTypeOK
<1>2. ASSUME NEW e \in Edge,
             RuntimeSideEffect(e) \/ RuntimeValue(e) \/ TypeOnly(e) \/ DeclarationOnly(e)
      PROVE  PlanInv'
  <2>1. edges' = Append(edges, e) /\ edges \in Seq(Edge) /\ edges' \in Seq(Edge)
        /\ plan \in [Profile -> Imports]
    BY <1>2, Appended DEF RuntimeSideEffect, RuntimeValue, TypeOnly, DeclarationOnly, Meets, PlanInv,
       PlanTypeOK
  <2>2. \A r \in Profile : plan[r] \in Imports /\ Fine(plan[r], edges, r)
    BY <2>1 DEF PlanInv
  <2>3. Profile = {"runtime", "implementation", "declaration"}
    BY DEF Profile
  <2> SUFFICES plan' \in [Profile -> Imports] /\ \A r \in Profile : Fine(plan'[r], Append(edges, e), r)
    BY <2>1 DEF PlanInv, PlanTypeOK
  <2> HIDE <1>2
  <2>4. CASE RuntimeSideEffect(e)
    <3> DEFINE put(p) == [p EXCEPT !.runtime = findOrAdd(@, Request(e))]
    <3>1. e.kind = "sideEffect" /\ plan' = [plan EXCEPT !["runtime"] = put(plan["runtime"]),
                                              !["implementation"] = put(plan["implementation"])]
      BY <2>1, <2>3, <2>4 DEF RuntimeSideEffect
    <3>2. \A r \in {"runtime", "implementation"} :
            put(plan[r]) \in Imports /\ Fine(put(plan[r]), Append(edges, e), r)
      BY <2>1, <2>2, <2>3, <3>1, SideEffectEdge
    <3>3. Fine(plan["declaration"], Append(edges, e), "declaration")
      BY <2>1, <2>2, <2>3, <3>1, Selection, OtherEdge
    <3> HIDE DEF put
    <3> QED BY <2>1, <2>2, <2>3, <3>1, <3>2, <3>3
  <2>5. CASE RuntimeValue(e)
    <3>1. e.kind = "value" /\ plan' = [plan EXCEPT !["runtime"] = PushValue(plan["runtime"], e),
                                         !["implementation"] = PushValue(plan["implementation"], e)]
      BY <2>1, <2>3, <2>5 DEF RuntimeValue
    <3>2. \A r \in {"runtime", "implementation"} :
            PushValue(plan[r], e) \in Imports /\ Fine(PushValue(plan[r], e), Append(edges, e), r)
      BY <2>1, <2>2, <2>3, <3>1, ValueEdge
    <3>3. Fine(plan["declaration"], Append(edges, e), "declaration")
      BY <2>1, <2>2, <2>3, <3>1, Selection, OtherEdge
    <3> QED BY <2>1, <2>2, <2>3, <3>1, <3>2, <3>3
  <2>6. CASE TypeOnly(e)
    <3>1. e.kind = "type"
          /\ plan' = [plan EXCEPT !["implementation"] = PushType(plan["implementation"], e)]
      BY <2>1, <2>3, <2>6 DEF TypeOnly
    <3>2. /\ PushType(plan["implementation"], e) \in Imports
          /\ Fine(PushType(plan["implementation"], e), Append(edges, e), "implementation")
      BY <2>1, <2>2, <2>3, <3>1, TypeEdge
    <3>3. \A r \in {"runtime", "declaration"} : Fine(plan[r], Append(edges, e), r)
      BY <2>1, <2>2, <2>3, <3>1, Selection, OtherEdge DEF Runs
    <3> QED BY <2>1, <2>2, <2>3, <3>1, <3>2, <3>3
  <2>7. CASE DeclarationOnly(e)
    <3>1. e.kind = "declaration"
          /\ plan' = [plan EXCEPT !["declaration"] = pushAndGet(plan["declaration"], e)]
      BY <2>1, <2>3, <2>7 DEF DeclarationOnly
    <3>2. /\ pushAndGet(plan["declaration"], e) \in Imports
          /\ Fine(pushAndGet(plan["declaration"], e), Append(edges, e), "declaration")
      BY <2>1, <2>2, <2>3, <3>1, DeclarationEdge
    <3>3. \A r \in {"runtime", "implementation"} : Fine(plan[r], Append(edges, e), r)
      BY <2>1, <2>2, <2>3, <3>1, Selection, OtherEdge DEF Runs
    <3> QED BY <2>1, <2>2, <2>3, <3>1, <3>2, <3>3
  <2> QED BY <1>2, <2>4, <2>5, <2>6, <2>7
<1> QED BY <1>1, <1>2 DEF PlanNext

\* What PlanInv says of a projection, in the words of the properties.
LEMMA FineMeans ==
  ASSUME PlanInv, NEW r \in Good
  PROVE  /\ r \in Profile /\ plan[r] \in Imports /\ Named(plan[r], Bound(r))
         /\ r # "declaration" =>
              /\ DeclaredBy(ToSet(plan[r].runtime)) = Needed(r, "value")
              /\ DeclaredBy(ToSet(plan[r].types)) = Needed(r, "type") \ Needed(r, "value")
              /\ Distinct(plan[r].runtime) /\ Distinct(plan[r].types)
              /\ OrderedBy(edges, plan[r].runtime)
<1>1. r \in Profile /\ plan[r] \in Imports /\ ~plan[r].failed /\ Fine(plan[r], edges, r)
  BY DEF Good, PlanInv, PlanTypeOK
<1>2. BoundIn(edges, r) = Bound(r)
  BY DEF BoundIn, Bound
<1>3. ASSUME r # "declaration"
      PROVE  Needed(r, "value") = Pairs(Of(edges, "value")) /\ Needed(r, "type") = Pairs(TypesIn(edges, r))
  <2>1. r = "runtime" \/ r = "implementation"
    BY <1>1, <1>3 DEF Profile
  <2>2. {f \in Bound(r) : f.kind = "value"} = Of(edges, "value")
    BY <2>1, Selection DEF Bound, Of
  <2>3. {f \in Bound(r) : f.kind = "type"} = TypesIn(edges, r)
    BY <2>1, Selection DEF Bound, Of, TypesIn
  <2> QED BY <2>2, <2>3 DEF Needed, Pairs
<1> QED BY <1>1, <1>2, <1>3 DEF Fine, DeclaresAll

\* What each projection has made of the edges met so far, as long as the module has
\* not been refused: its edges are bound, the declarations are those its edges need
\* and run in the order of the source (pushAndGet, projectImplementation).
THEOREM PlanInvariant == PlanSpec => []PlanInv
BY PlanStarts, PlanStep, PTL DEF PlanSpec

\* Every mention is printed as the local name of the export that it asked for, and
\* nothing else in the module is called so: for any edges, aliases, names of the
\* module and names of the language (pushAndGet, resolveOrigin).
THEOREM MentionsAreBound == PlanSpec => []MentionsReachTheirExport
<1>1. PlanInv => MentionsReachTheirExport
  <2> SUFFICES ASSUME PlanInv, NEW r \in Good, NEW e \in Bound(r)
               PROVE  /\ Resolves(plan[r], e.origin)
                      /\ LET name == resolveOrigin(plan[r], e.origin)
                         IN /\ name = <<Local(plan[r], Intent(e)), e.member>>
                            /\ name[1] \notin Globals \cup Names
                            /\ \A b \in ToSet(plan[r].allocated) :
                                 b.local = name[1] => b.intent = Intent(e)
    BY DEF MentionsReachTheirExport
  <2> DEFINE p == plan[r]
             local == Local(p, Intent(e))
             first == CHOOSE j \in DOMAIN p.mappings :
                        /\ p.mappings[j].origin = e.origin
                        /\ \A k \in 1..(j - 1) : p.mappings[k].origin # e.origin
  <2>1. p \in Imports /\ Named(p, Bound(r))
    BY FineMeans
  <2> HIDE DEF p
  <2>2. DOMAIN p.mappings = 1..Len(p.mappings) /\ Len(p.mappings) \in Nat
    BY <2>1, LenProperties DEF Imports
  <2>3. PICK i \in DOMAIN p.mappings : p.mappings[i] = Mapping(e)
    BY <2>1 DEF Named, ToSet
  <2>4. Mapping(e).origin = e.origin /\ Mapping(e).intent = Intent(e) /\ Mapping(e).member = e.member
    BY DEF Mapping
  <2>5. \A k \in DOMAIN p.mappings : p.mappings[k].origin = e.origin => k = i
    BY <2>1, <2>3, <2>4 DEF Named
  <2>6. \A k \in 1..(i - 1) : p.mappings[k].origin # e.origin
    BY <2>2, <2>3, <2>5
  <2>7. first = i
    BY <2>3, <2>4, <2>5, <2>6
  <2>8. resolveOrigin(p, e.origin) = <<local, e.member>>
    BY <2>3, <2>4, <2>7 DEF resolveOrigin
  <2>9. Resolves(p, e.origin)
    BY <2>3, <2>4 DEF Resolves, ToSet
  <2>10. \E b \in ToSet(p.allocated) : b.intent = Intent(e) /\ b.local = local
    <3>1. \E b \in ToSet(p.allocated) : b.intent = Intent(e)
      BY <2>1 DEF Named, Known
    <3> QED BY <3>1 DEF Local
  <2>11. \A b \in ToSet(p.allocated), c \in ToSet(p.allocated) : b.local = c.local => b = c
    BY <2>1 DEF Named, ToSet
  <2> HIDE DEF local, first
  <2>12. <<local, e.member>>[1] = local
    OBVIOUS
  <2> QED BY <2>1, <2>8, <2>9, <2>10, <2>11, <2>12 DEF Named, p, local
<1> QED BY <1>1, PlanInvariant, PTL

\* A module of any number of edges asks for its dependencies in the order in which
\* its source first needs them at run time, in TypeScript and in classic output
\* alike (projectImplementation).
THEOREM RequestsAreOrdered == PlanSpec => []RequestsInEncounterOrder
<1>1. PlanInv => RequestsInEncounterOrder
  BY FineMeans DEF RequestsInEncounterOrder, runtimeRequests, OrderedBy, Requested, Asked
<1> QED BY <1>1, PlanInvariant, PTL

\* Every binding that a module of any number of edges needs is declared once, and
\* erased exactly if no value of it is needed (attach, removeTypeOnlyBinding).
THEOREM BindingsAreDeclared == PlanSpec => []EveryBindingDeclaredOnce
<1>1. ASSUME PlanInv, NEW r \in Good \ {"declaration"}
      PROVE  /\ DeclaredBy(ToSet(runtimeRequests(plan[r]))) = Needed(r, "value")
             /\ DeclaredBy(typeOnlyRequests(plan[r])) = Needed(r, "type") \ Needed(r, "value")
             /\ \A d \in ToSet(runtimeRequests(plan[r])) \cup typeOnlyRequests(plan[r]) :
                  IsInjective(d.bindings)
  <2>1. DeclaredBy(ToSet(plan[r].types)) = DeclaredBy(typeOnlyRequests(plan[r]))
    <3>1. ToSet(<<>>) = {}
      BY DEF ToSet
    <3> QED BY <3>1 DEF DeclaredBy, typeOnlyRequests
  <2>2. typeOnlyRequests(plan[r]) \subseteq ToSet(plan[r].types)
    BY DEF typeOnlyRequests
  <2> QED BY <1>1, <2>1, <2>2, FineMeans DEF runtimeRequests, Distinct
<1>2. PlanInv => EveryBindingDeclaredOnce
  BY <1>1 DEF EveryBindingDeclaredOnce
<1> QED BY <1>2, PlanInvariant, PTL
=============================================================================
