------------------------- MODULE PublicationGateProofs -------------------------
(***************************************************************************)
(* The exclusion of the gate for every finite set of readers and every set *)
(* of writers: publications always exclude each other, and those of a      *)
(* development session exclude the readers, whatever runs between a        *)
(* resolved promise and its awaiter.                                       *)
(***************************************************************************)
EXTENDS PublicationGate, FiniteSetTheorems, SequenceTheorems, TLAPS

InsideReaders == {r \in Reader : at[r] = "inside"}

\* The counter counts the readers that are inside.
ReadersCounted == readers = Cardinality(InsideReaders)

\* Whoever is in the queue of readers waits.
QueueWaits == \A i \in 1..Len(readWaiters) : at[readWaiters[i]] = "waiting"

\* A writer that is in, or about to be, holds the flag.
FlagIsHeld == \A w \in Writer : at[w] \in {"inside", "resumed"} => writer

GateInv ==
  /\ TypeOK /\ ReadersCounted /\ QueueWaits /\ FlagIsHeld /\ WritersExclusive

-----------------------------------------------------------------------------
\* Sets of readers are finite and count as one expects.
LEMMA ReadersAreFinite ==
  /\ \A S \in SUBSET Reader : IsFiniteSet(S) /\ Cardinality(S) \in Nat
  /\ \A S \in SUBSET Reader, r \in Reader :
       /\ r \notin S => Cardinality(S \cup {r}) = Cardinality(S) + 1
       /\ r \in S => Cardinality(S \ {r}) = Cardinality(S) - 1
  /\ \A S \in SUBSET Reader : Cardinality(S) = 0 => S = {}
BY CallersAssumption, FS_Subset, FS_CardinalityType, FS_AddElement, FS_RemoveElement, FS_EmptySet

\* A new gate is free.
LEMMA GateInit == Init => GateInv
<1> SUFFICES ASSUME Init PROVE GateInv
  OBVIOUS
<1>1. TypeOK
  <2>1. at \in [Caller -> At]
    BY DEF Init, At
  <2>2. <<>> \in Seq(Reader) /\ <<>> \in Seq(Writer)
    OBVIOUS
  <2>3. /\ readers \in Nat /\ writer \in BOOLEAN /\ closed \in BOOLEAN
        /\ timer \in BOOLEAN /\ serial \in BOOLEAN
    BY DEF Init
  <2>4. aborted \in SUBSET Writer /\ readWaiters \in Seq(Reader) /\ writeWaiters \in Seq(Writer)
    BY <2>2 DEF Init
  <2> QED BY <2>1, <2>3, <2>4 DEF TypeOK
<1>2. ReadersCounted
  <2>1. InsideReaders = {}
    BY DEF Init, InsideReaders, Caller
  <2>2. Cardinality({}) = 0
    BY FS_EmptySet
  <2> QED BY <2>1, <2>2 DEF Init, ReadersCounted
<1>3. QueueWaits /\ FlagIsHeld /\ WritersExclusive
  BY DEF Init, QueueWaits, FlagIsHeld, WritersExclusive, Caller
<1> QED BY <1>1, <1>2, <1>3 DEF GateInv

\* What a job may rely on that calls #drain: places are the places of the
\* callers after its own change, and the flag is down or rightly up.
LEMMA DrainKeepsOrder ==
  ASSUME TypeOK, NEW n \in Nat, NEW w \in BOOLEAN, NEW waiting \in Seq(Writer),
         NEW places \in [Caller -> At],
         Drain(n, w, waiting, places), UNCHANGED <<closed>>,
         readers' = n, n = Cardinality({r \in Reader : places[r] = "inside"}),
         \A i \in 1..Len(readWaiters) : places[readWaiters[i]] = "waiting",
         \A v \in Writer : places[v] \in {"inside", "resumed"} => w,
         \A u, v \in Writer : u # v =>
           ~(places[u] \in {"inside", "resumed"} /\ places[v] \in {"inside", "resumed"}),
         aborted' \subseteq Writer, timer' \in BOOLEAN, serial' \in BOOLEAN
  PROVE  GateInv'
<1> DEFINE free == ~closed /\ ~w /\ n = 0
<1>1. CASE ~free
  <2>1. writer' = w /\ writeWaiters' = waiting /\ at' = places /\ readWaiters' = readWaiters
    BY <1>1 DEF Drain
  <2>2. TypeOK'
    BY <2>1 DEF TypeOK
  <2>3. ReadersCounted'
    BY <2>1 DEF ReadersCounted, InsideReaders
  <2> QED
    BY <2>1, <2>2, <2>3 DEF GateInv, QueueWaits, FlagIsHeld, WritersExclusive
<1>2. CASE free /\ waiting # <<>>
  <2>1. /\ writer' = TRUE /\ writeWaiters' = Tail(waiting) /\ readWaiters' = readWaiters
        /\ at' = [places EXCEPT ![Head(waiting)] = "resumed"]
    BY <1>2 DEF Drain
  <2>2. Head(waiting) \in Writer /\ Tail(waiting) \in Seq(Writer)
    BY <1>2
  <2>3. /\ at' \in [Caller -> At] /\ at'[Head(waiting)] = "resumed"
        /\ \A c \in Caller : c # Head(waiting) => at'[c] = places[c]
    BY <2>1, <2>2 DEF Caller, At
  <2>4. Head(waiting) \notin Reader
    BY <2>2, CallersAssumption
  <2>5. TypeOK'
    BY <2>1, <2>2, <2>3 DEF TypeOK
  <2>6. InsideReaders' = {r \in Reader : places[r] = "inside"}
    BY <2>3, <2>4 DEF InsideReaders, Caller
  <2>7. QueueWaits'
    BY <2>1, <2>3, <2>4 DEF QueueWaits, TypeOK, Caller
  <2>8. FlagIsHeld' /\ WritersExclusive'
    BY <1>2, <2>1, <2>3 DEF FlagIsHeld, WritersExclusive, Caller
  <2> QED BY <2>5, <2>6, <2>7, <2>8 DEF GateInv, ReadersCounted
<1>3. CASE free /\ waiting = <<>>
  <2>1. /\ writer' = FALSE /\ writeWaiters' = <<>> /\ readWaiters' = <<>>
        /\ at' = [c \in Caller |-> IF c \in ToSet(readWaiters) THEN "resumed" ELSE places[c]]
    BY <1>3 DEF Drain
  <2>2. ToSet(readWaiters) \subseteq {r \in Reader : places[r] = "waiting"}
    <3>1. \A i \in 1..Len(readWaiters) : readWaiters[i] \in Reader
      BY DEF TypeOK
    <3>2. DOMAIN readWaiters = 1..Len(readWaiters)
      BY DEF TypeOK
    <3> QED BY <3>1, <3>2 DEF ToSet
  <2>3. at' \in [Caller -> At] /\ \A c \in Caller :
          at'[c] = IF c \in ToSet(readWaiters) THEN "resumed" ELSE places[c]
    BY <2>1 DEF At
  <2>4. TypeOK'
    <3>1. readWaiters' \in Seq(Reader) /\ writeWaiters' \in Seq(Writer)
      BY <2>1
    <3> QED BY <2>1, <2>3, <3>1 DEF TypeOK
  <2>5. InsideReaders' = {r \in Reader : places[r] = "inside"}
    BY <2>2, <2>3 DEF InsideReaders, Caller
  <2>6. \A v \in Writer : at'[v] = places[v]
    BY <2>2, <2>3, CallersAssumption DEF Caller
  <2>7. QueueWaits'
    BY <2>1 DEF QueueWaits
  <2>8. FlagIsHeld' /\ WritersExclusive'
    BY <1>3, <2>6 DEF FlagIsHeld, WritersExclusive
  <2> QED BY <2>4, <2>5, <2>7, <2>8 DEF GateInv, ReadersCounted
<1> QED BY <1>1, <1>2, <1>3

\* A reader that takes its place is counted; one that leaves is not.
LEMMA InsideGrows ==
  ASSUME TypeOK, NEW r \in Reader, at[r] # "inside", at' = Move(r, "inside")
  PROVE  Cardinality(InsideReaders') = Cardinality(InsideReaders) + 1
<1>1. InsideReaders' = InsideReaders \cup {r}
  BY DEF InsideReaders, Move, TypeOK, Caller
<1>2. InsideReaders \in SUBSET Reader /\ r \notin InsideReaders
  BY DEF InsideReaders
<1> QED BY <1>1, <1>2, ReadersAreFinite

\* A move changes the place of one caller.
LEMMA MoveFacts ==
  ASSUME TypeOK, NEW c \in Caller, NEW place \in At
  PROVE  /\ Move(c, place) \in [Caller -> At] /\ Move(c, place)[c] = place
         /\ \A d \in Caller : d # c => Move(c, place)[d] = at[d]
BY DEF Move, TypeOK

\* Callers other than readers inside do not change the count.
LEMMA SameReadersInside ==
  ASSUME TypeOK, NEW places \in [Caller -> At],
         \A r \in Reader : places[r] = "inside" <=> at[r] = "inside"
  PROVE  {r \in Reader : places[r] = "inside"} = InsideReaders
BY DEF InsideReaders

\* A job that leaves the flag alone and lets no writer in.
LEMMA SmallStep ==
  ASSUME GateInv, TypeOK', ReadersCounted', QueueWaits', writer' = writer,
         \A w \in Writer : at'[w] \in {"inside", "resumed"} => at[w] \in {"inside", "resumed"}
  PROVE  GateInv'
<1>1. FlagIsHeld'
  BY DEF GateInv, FlagIsHeld
<1>2. WritersExclusive'
  BY DEF GateInv, WritersExclusive
<1> QED BY <1>1, <1>2 DEF GateInv

\* A caller moves to a place where it does not read, and nobody else moves.
LEMMA QuietMove ==
  ASSUME TypeOK, GateInv, NEW c \in Caller, NEW place \in At \ {"inside"},
         at' = Move(c, place), c \in Writer \/ at[c] # "inside",
         UNCHANGED readers
  PROVE  /\ at' \in [Caller -> At] /\ at'[c] = place
         /\ \A d \in Caller : d # c => at'[d] = at[d]
         /\ ReadersCounted'
<1>1. /\ at' \in [Caller -> At] /\ at'[c] = place
      /\ \A d \in Caller : d # c => at'[d] = at[d]
  BY MoveFacts
<1>2. InsideReaders' = InsideReaders
  BY <1>1, CallersAssumption DEF InsideReaders, Caller
<1> QED BY <1>1, <1>2 DEF GateInv, ReadersCounted

\* Every job keeps the invariant: one case per action.
LEMMA GateStep == GateInv /\ [Next]_vars => GateInv'
<1> SUFFICES ASSUME GateInv, [Next]_vars PROVE GateInv'
  OBVIOUS
<1>0. TypeOK
  BY DEF GateInv
<1>s. serial' = serial /\ serial \in BOOLEAN
  BY DEF GateInv, TypeOK, Next, vars, gate
<1>a. "inside" \in At /\ "waiting" \in At /\ "done" \in At /\ "rejected" \in At
  BY DEF At
<1>b. /\ \A r \in Reader : r \in Caller /\ r \notin Writer
      /\ \A w \in Writer : w \in Caller /\ w \notin Reader
  BY CallersAssumption DEF Caller
<1>1. ASSUME NEW r \in Reader, AcquireRead(r) PROVE GateInv'
  <2>1. at[r] = "out" /\ UNCHANGED <<writer, closed, writeWaiters, aborted, timer>>
    BY <1>1 DEF AcquireRead
  <2>2. CASE closed
    <3>1. at' = Move(r, "rejected") /\ UNCHANGED <<readers, readWaiters>>
      BY <1>1, <2>2 DEF AcquireRead
    <3>2. /\ at' \in [Caller -> At] /\ at'[r] = "rejected" /\ ReadersCounted'
          /\ \A d \in Caller : d # r => at'[d] = at[d]
      BY <1>0, <1>a, <1>b, <2>1, <3>1, QuietMove
    <3>3. TypeOK'
      BY <1>s, <1>0, <2>1, <3>1, <3>2 DEF TypeOK
    <3>4. QueueWaits'
      BY <1>0, <1>b, <2>1, <3>1, <3>2 DEF GateInv, QueueWaits, TypeOK
    <3> QED BY <1>b, <2>1, <3>2, <3>3, <3>4, SmallStep
  <2>3. CASE ~closed /\ MustQueue
    <3>1. at' = Move(r, "waiting") /\ readWaiters' = Append(readWaiters, r) /\ UNCHANGED readers
      BY <1>1, <2>3 DEF AcquireRead
    <3>2. /\ at' \in [Caller -> At] /\ at'[r] = "waiting" /\ ReadersCounted'
          /\ \A d \in Caller : d # r => at'[d] = at[d]
      BY <1>0, <1>a, <1>b, <2>1, <3>1, QuietMove
    <3>3. TypeOK'
      BY <1>s, <1>0, <2>1, <3>1, <3>2 DEF TypeOK
    <3>4. QueueWaits'
      BY <1>0, <1>b, <3>1, <3>2 DEF GateInv, QueueWaits, TypeOK
    <3> QED BY <1>b, <2>1, <3>2, <3>3, <3>4, SmallStep
  <2>4. CASE ~closed /\ ~MustQueue
    <3>1. at' = Move(r, "inside") /\ readers' = readers + 1 /\ ~writer /\ UNCHANGED readWaiters
      BY <1>1, <2>4 DEF AcquireRead, MustQueue
    <3>2. /\ at' \in [Caller -> At] /\ at'[r] = "inside"
          /\ \A d \in Caller : d # r => at'[d] = at[d]
      BY <1>0, <1>a, <1>b, <3>1, MoveFacts
    <3>3. ReadersCounted'
      BY <1>0, <2>1, <3>1, InsideGrows DEF GateInv, ReadersCounted
    <3>4. TypeOK'
      BY <1>s, <1>0, <2>1, <3>1, <3>2 DEF TypeOK
    <3>5. QueueWaits'
      BY <1>0, <1>b, <2>1, <3>1, <3>2 DEF GateInv, QueueWaits, TypeOK
    <3>6. \A w \in Writer : at'[w] = at[w]
      BY <1>b, <3>2
    <3> QED BY <1>b, <2>1, <3>1, <3>2, <3>3, <3>4, <3>5, <3>6, SmallStep
  <2> QED BY <2>2, <2>3, <2>4
<1>2. ASSUME NEW r \in Reader, ResumeRead(r) PROVE GateInv'
  <2>1. at[r] = "resumed" /\ UNCHANGED <<readWaiters, writer, closed, writeWaiters, aborted, timer>>
    BY <1>2 DEF ResumeRead
  <2>2. ASSUME NEW place \in At, at' = Move(r, place), readers' \in Nat, ReadersCounted'
        PROVE  GateInv'
    <3>1. /\ at' \in [Caller -> At]
          /\ \A d \in Caller : d # r => at'[d] = at[d]
      BY <1>0, <1>b, <2>2, MoveFacts
    <3>2. TypeOK'
      BY <1>s, <1>0, <2>1, <2>2, <3>1 DEF TypeOK
    <3>3. QueueWaits'
      BY <1>0, <1>b, <2>1, <3>1 DEF GateInv, QueueWaits, TypeOK
    <3>4. \A w \in Writer : at'[w] = at[w]
      BY <1>b, <3>1
    <3> QED BY <1>b, <2>1, <2>2, <3>1, <3>2, <3>3, <3>4, SmallStep
  <2>3. CASE closed
    <3>1. at' = Move(r, "rejected") /\ UNCHANGED readers
      BY <1>2, <2>3 DEF ResumeRead
    <3> QED BY <1>0, <1>a, <1>b, <2>1, <2>2, <3>1, QuietMove DEF TypeOK
  <2>4. CASE ~closed
    <3>1. at' = Move(r, "inside") /\ readers' = readers + 1
      BY <1>2, <2>4 DEF ResumeRead, CountedAgain
    <3>2. ReadersCounted'
      BY <1>0, <2>1, <3>1, InsideGrows DEF GateInv, ReadersCounted
    <3> QED BY <1>0, <1>a, <2>2, <3>1, <3>2 DEF TypeOK
  <2> QED BY <2>3, <2>4
<1>3. ASSUME NEW r \in Reader, ReleaseRead(r) PROVE GateInv'
  <2> DEFINE places == Move(r, "done")
  <2>1. /\ at[r] = "inside" /\ readers' = readers - 1
        /\ Drain(readers - 1, writer, writeWaiters, places)
        /\ UNCHANGED <<closed, aborted, timer>>
    BY <1>3 DEF ReleaseRead
  <2>2. /\ places \in [Caller -> At] /\ places[r] = "done"
        /\ \A d \in Caller : d # r => places[d] = at[d]
    BY <1>0, <1>a, <1>b, MoveFacts
  <2>3. {q \in Reader : places[q] = "inside"} = InsideReaders \ {r}
    BY <1>b, <2>2 DEF InsideReaders
  <2>4. r \in InsideReaders /\ InsideReaders \in SUBSET Reader
        /\ InsideReaders \ {r} \in SUBSET Reader
    BY <2>1 DEF InsideReaders
  <2>5. readers - 1 = Cardinality({q \in Reader : places[q] = "inside"}) /\ readers - 1 \in Nat
    BY <2>3, <2>4, ReadersAreFinite DEF GateInv, ReadersCounted
  <2>6. \A i \in 1..Len(readWaiters) : places[readWaiters[i]] = "waiting"
    BY <1>0, <1>b, <2>1, <2>2 DEF GateInv, QueueWaits, TypeOK
  <2>7. \A v \in Writer : places[v] = at[v]
    BY <1>b, <2>2
  <2>8. /\ writer \in BOOLEAN /\ writeWaiters \in Seq(Writer)
        /\ aborted' \subseteq Writer /\ timer' \in BOOLEAN
    BY <1>0, <2>1 DEF TypeOK
  <2>9. /\ \A v \in Writer : places[v] \in {"inside", "resumed"} => writer
        /\ \A u, v \in Writer : u # v =>
             ~(places[u] \in {"inside", "resumed"} /\ places[v] \in {"inside", "resumed"})
    BY <2>7 DEF GateInv, FlagIsHeld, WritersExclusive
  <2> HIDE DEF places
  <2> QED BY <1>s, <1>0, <2>1, <2>2, <2>5, <2>6, <2>8, <2>9, DrainKeepsOrder
<1>4. ASSUME NEW w \in Writer, RunWrite(w) PROVE GateInv'
  <2>1. /\ at[w] = "out"
        /\ UNCHANGED <<readers, closed, readWaiters, aborted>>
    BY <1>4 DEF RunWrite
  <2>2. ASSUME NEW place \in At \ {"inside", "resumed"}, at' = Move(w, place), UNCHANGED writer,
               writeWaiters' \in Seq(Writer), timer' \in BOOLEAN
        PROVE  GateInv'
    <3>1. /\ at' \in [Caller -> At] /\ at'[w] = place /\ ReadersCounted'
          /\ \A d \in Caller : d # w => at'[d] = at[d]
      BY <1>0, <1>b, <2>1, <2>2, QuietMove
    <3>2. TypeOK'
      BY <1>s, <1>0, <2>1, <2>2, <3>1 DEF TypeOK
    <3>3. QueueWaits'
      BY <1>0, <1>b, <2>1, <3>1 DEF GateInv, QueueWaits, TypeOK
    <3> QED BY <1>b, <2>2, <3>1, <3>2, <3>3, SmallStep
  <2>3. CASE closed \/ w \in aborted
    <3>1. at' = Move(w, "rejected") /\ timer' = serial /\ UNCHANGED <<writer, writeWaiters>>
      BY <1>4, <2>3 DEF RunWrite, LoopWaits
    <3> QED BY <1>0, <1>a, <2>2, <3>1, <1>s DEF TypeOK
  <2>4. CASE ~closed /\ w \notin aborted /\ Occupied
    <3>1. /\ at' = Move(w, "waiting") /\ writeWaiters' = Append(writeWaiters, w)
          /\ UNCHANGED <<writer, timer>>
      BY <1>4, <2>4 DEF RunWrite
    <3> QED BY <1>0, <1>a, <2>2, <3>1 DEF TypeOK
  <2>5. CASE ~closed /\ w \notin aborted /\ ~Occupied
    <3>1. /\ at' = Move(w, "inside") /\ writer' = TRUE /\ UNCHANGED <<writeWaiters, timer>>
          /\ ~writer /\ ~(readers > 0)
      BY <1>4, <2>5 DEF RunWrite, Occupied
    <3>2. /\ at' \in [Caller -> At] /\ at'[w] = "inside"
          /\ \A d \in Caller : d # w => at'[d] = at[d]
      BY <1>0, <1>a, <1>b, <3>1, MoveFacts
    <3>3. TypeOK'
      BY <1>s, <1>0, <2>1, <3>1, <3>2 DEF TypeOK
    <3>4. InsideReaders' = InsideReaders
      BY <1>b, <3>2 DEF InsideReaders
    <3>5. QueueWaits'
      BY <1>0, <1>b, <2>1, <3>2 DEF GateInv, QueueWaits, TypeOK
    <3>6. \A v \in Writer : at[v] \notin {"inside", "resumed"}
      BY <3>1 DEF GateInv, FlagIsHeld
    <3>7. FlagIsHeld' /\ WritersExclusive'
      BY <1>b, <3>1, <3>2, <3>6 DEF FlagIsHeld, WritersExclusive
    <3> QED BY <2>1, <3>3, <3>4, <3>5, <3>7 DEF GateInv, ReadersCounted
  <2> QED BY <2>3, <2>4, <2>5
\* A writer that gives the gate on, or leaves its queue.
<1>5. ASSUME NEW w \in Writer, NEW place \in At \ {"inside", "resumed"},
             NEW flag \in BOOLEAN, NEW waiting \in Seq(Writer),
             Drain(readers, flag, waiting, Move(w, place)),
             flag = writer \/ (~flag /\ at[w] \in {"inside", "resumed"}),
             at[w] \in {"inside", "resumed", "waiting"},
             UNCHANGED <<readers, closed>>, aborted' \subseteq Writer, timer' \in BOOLEAN
      PROVE  GateInv'
  <2> DEFINE places == Move(w, place)
  <2>1. /\ places \in [Caller -> At] /\ places[w] = place
        /\ \A d \in Caller : d # w => places[d] = at[d]
    BY <1>0, <1>b, MoveFacts
  <2> HIDE DEF places
  <2>2. {r \in Reader : places[r] = "inside"} = InsideReaders
    BY <1>b, <2>1 DEF InsideReaders
  <2>3. readers = Cardinality({r \in Reader : places[r] = "inside"}) /\ readers \in Nat
    BY <1>0, <2>2 DEF GateInv, ReadersCounted, TypeOK
  <2>4. \A i \in 1..Len(readWaiters) : places[readWaiters[i]] = "waiting"
    BY <1>0, <1>b, <2>1 DEF GateInv, QueueWaits, TypeOK
  <2>5. \A v \in Writer : places[v] \in {"inside", "resumed"} =>
          at[v] \in {"inside", "resumed"} /\ v # w
    BY <1>b, <2>1
  <2>6. \A v \in Writer : places[v] \in {"inside", "resumed"} => flag
    BY <1>5, <2>5 DEF GateInv, FlagIsHeld, WritersExclusive
  <2>7. \A u, v \in Writer : u # v =>
          ~(places[u] \in {"inside", "resumed"} /\ places[v] \in {"inside", "resumed"})
    BY <2>5 DEF GateInv, WritersExclusive
  <2>8. Drain(readers, flag, waiting, places)
    BY <1>5 DEF places
  <2> QED BY <1>s, <1>0, <1>5, <2>1, <2>3, <2>4, <2>6, <2>7, <2>8, DrainKeepsOrder
<1>6. ASSUME NEW w \in Writer, ResumeWrite(w) PROVE GateInv'
  <2>1. at[w] = "resumed" /\ UNCHANGED <<readers, closed, aborted>>
    BY <1>6 DEF ResumeWrite
  <2>2. writer /\ writer \in BOOLEAN /\ writeWaiters \in Seq(Writer)
    BY <1>0, <2>1 DEF GateInv, FlagIsHeld, TypeOK
  <2>4. CASE closed \/ w \in aborted
    <3>1. Drain(readers, FALSE, writeWaiters, Move(w, "rejected")) /\ timer' = serial
      BY <1>6, <2>4 DEF ResumeWrite, LoopWaits
    <3>2. aborted' \subseteq Writer /\ timer' \in BOOLEAN
      BY <1>0, <2>1, <3>1, <1>s DEF TypeOK
    <3> QED BY <1>a, <1>5, <2>1, <2>2, <3>1, <3>2
  <2>5. CASE ~(closed \/ w \in aborted)
    <3>1. /\ at' = Move(w, "inside")
          /\ UNCHANGED <<writer, readWaiters, writeWaiters, timer>>
      BY <1>6, <2>5 DEF ResumeWrite
    <3>2. /\ at' \in [Caller -> At] /\ at'[w] = "inside"
          /\ \A d \in Caller : d # w => at'[d] = at[d]
      BY <1>0, <1>a, <1>b, <3>1, MoveFacts
    <3>3. TypeOK'
      BY <1>s, <1>0, <2>1, <3>1, <3>2 DEF TypeOK
    <3>4. InsideReaders' = InsideReaders
      BY <1>b, <3>2 DEF InsideReaders
    <3>5. ReadersCounted'
      BY <2>1, <3>4 DEF GateInv, ReadersCounted
    <3>6. QueueWaits'
      BY <1>0, <1>b, <3>1, <3>2 DEF GateInv, QueueWaits, TypeOK
    <3> QED BY <1>b, <2>1, <3>1, <3>2, <3>3, <3>5, <3>6, SmallStep
  <2> QED BY <2>4, <2>5
<1>7. ASSUME NEW w \in Writer, EndWrite(w) PROVE GateInv'
  <2>1. /\ at[w] = "inside" /\ Drain(readers, FALSE, writeWaiters, Move(w, "done"))
        /\ timer' = serial /\ UNCHANGED <<readers, closed, aborted>>
    BY <1>7 DEF EndWrite, LoopWaits
  <2>2. writeWaiters \in Seq(Writer) /\ aborted' \subseteq Writer /\ timer' \in BOOLEAN
    BY <1>0, <2>1, <1>s DEF TypeOK
  <2> QED BY <1>a, <1>5, <2>1, <2>2
<1>8. ASSUME NEW w \in Writer, Abort(w) PROVE GateInv'
  <2>1. aborted' = aborted \cup {w} /\ UNCHANGED <<readers, closed>>
    BY <1>8 DEF Abort
  <2>2. CASE at[w] = "waiting"
    <3>1. PICK i \in 1..Len(writeWaiters) :
            Drain(readers, writer, RemoveAt(writeWaiters, i), Move(w, "rejected"))
      BY <1>8, <2>2 DEF Abort
    <3>2. timer' = serial
      BY <1>8, <2>2 DEF Abort, LoopWaits
    <3>3. RemoveAt(writeWaiters, i) \in Seq(Writer)
      <4>1. writeWaiters \in Seq(Writer)
        BY <1>0 DEF TypeOK
      <4>2. /\ SubSeq(writeWaiters, 1, i-1) \in Seq(Writer)
            /\ SubSeq(writeWaiters, i+1, Len(writeWaiters)) \in Seq(Writer)
        BY <4>1
      <4> QED BY <4>2 DEF RemoveAt
    <3>4. writer \in BOOLEAN /\ aborted' \subseteq Writer /\ timer' \in BOOLEAN
      BY <1>0, <2>1, <3>2, <1>s DEF TypeOK
    <3> QED BY <1>a, <1>5, <2>1, <2>2, <3>1, <3>3, <3>4
  <2>3. CASE at[w] # "waiting"
    <3>1. UNCHANGED <<writer, readWaiters, writeWaiters, at, timer>>
      BY <1>8, <2>3 DEF Abort
    <3>2. TypeOK'
      BY <1>s, <1>0, <2>1, <3>1 DEF TypeOK
    <3> QED
      BY <2>1, <3>1, <3>2 DEF GateInv, ReadersCounted, InsideReaders, QueueWaits, FlagIsHeld,
         WritersExclusive
  <2> QED BY <2>2, <2>3
<1>9. CASE Close
  <2>1. /\ at' = [c \in Caller |-> IF c \in Waiting THEN "rejected" ELSE at[c]]
        /\ readWaiters' = <<>> /\ writeWaiters' = <<>> /\ closed' = TRUE
        /\ UNCHANGED <<readers, writer, aborted, timer>>
    BY <1>9 DEF Close
  <2>2. at' \in [Caller -> At] /\ \A c \in Caller : at'[c] = "rejected" \/ at'[c] = at[c]
    BY <1>0, <1>a, <2>1 DEF TypeOK
  <2>3. TypeOK'
    <3>1. readWaiters' \in Seq(Reader) /\ writeWaiters' \in Seq(Writer)
      BY <2>1
    <3> QED BY <1>0, <1>s, <2>1, <2>2, <3>1 DEF TypeOK
  <2>4. \A r \in Reader : at[r] = "inside" => r \notin Waiting
    <3>1. \A r \in ToSet(readWaiters) : at[r] = "waiting"
      BY <1>0 DEF ToSet, GateInv, QueueWaits, TypeOK
    <3>2. \A r \in ToSet(writeWaiters) : r \in Writer
      BY <1>0 DEF ToSet, TypeOK
    <3> QED BY <1>b, <3>1, <3>2 DEF Waiting
  <2>5. InsideReaders' = InsideReaders
    BY <1>b, <2>1, <2>4 DEF InsideReaders
  <2>6. ReadersCounted' /\ QueueWaits'
    BY <2>1, <2>5 DEF GateInv, ReadersCounted, QueueWaits
  <2> QED BY <1>b, <2>1, <2>2, <2>3, <2>6, SmallStep
<1>10. CASE TimerFires \/ UNCHANGED vars
  <2>1. /\ UNCHANGED <<readers, writer, closed, readWaiters, writeWaiters, aborted, at>>
        /\ timer' \in BOOLEAN
    BY <1>0, <1>10 DEF TimerFires, TypeOK, vars, gate
  <2>2. TypeOK'
    BY <1>s, <1>0, <2>1 DEF TypeOK
  <2> QED
    BY <2>1, <2>2 DEF GateInv, ReadersCounted, InsideReaders, QueueWaits, FlagIsHeld,
       WritersExclusive
<1> QED
  BY <1>1, <1>2, <1>3, <1>4, <1>6, <1>7, <1>8, <1>9, <1>10 DEF Next, Resume, Leave

\* The invariant of every behaviour.
LEMMA GateInductive == Spec => []GateInv
<1> QED BY GateInit, GateStep, PTL DEF Spec

\* The counters, queues and places keep their types.
THEOREM GateTypeCorrect == Spec => []TypeOK
<1>1. GateInv => TypeOK
  BY DEF GateInv
<1> QED BY <1>1, GateInductive, PTL

\* No two publications move files at once (runWrite), whatever the order of
\* the jobs.
THEOREM PublicationsExclude == Spec => []WritersExclusive
<1>1. GateInv => WritersExclusive
  BY DEF GateInv
<1> QED BY <1>1, GateInductive, PTL


-----------------------------------------------------------------------------
(* The callers of a session: one run at a time, from a timer.              *)

ActiveAt == {"waiting", "resumed", "inside"}

\* At most one run waits or publishes.
OneRun == \A v, w \in Writer : at[v] \in ActiveAt /\ at[w] \in ActiveAt => v = w
WriteQueue == Len(writeWaiters) <= 1 /\ (writeWaiters # <<>> => at[writeWaiters[1]] = "waiting")

\* The timer waits only between runs, and jobs of readers that were let in are
\* only ever left while it waits.
TimerBetweenRuns == timer => \A w \in Writer : at[w] \notin ActiveAt
ResumedMeansTimer == \A r \in Reader : at[r] = "resumed" => timer

\* A reader queues behind a publication and not alone.
QueueBehindWriter == readWaiters # <<>> => closed \/ writer \/ writeWaiters # <<>>

\* The flag keeps the readers out.
FlagExcludes == writer => \A r \in Reader : at[r] \notin {"inside", "resumed"}

SessionInv ==
  /\ aborted = {} /\ OneRun /\ WriteQueue /\ TimerBetweenRuns /\ ResumedMeansTimer
  /\ QueueBehindWriter /\ FlagExcludes

\* A session starts with a timer and without callers.
LEMMA SessionInit == Init => SessionInv
BY DEF Init, SessionInv, OneRun, WriteQueue, TimerBetweenRuns, ResumedMeansTimer,
   QueueBehindWriter, FlagExcludes, Caller, ActiveAt

\* A reader moves, and not past a flag that is up.
LEMMA ReaderMoves ==
  ASSUME GateInv, SessionInv, NEW r \in Reader, NEW place \in At \ {"resumed"},
         at' \in [Caller -> At], at'[r] = place, \A d \in Caller : d # r => at'[d] = at[d],
         UNCHANGED <<writer, writeWaiters, aborted, timer>>,
         writer => place # "inside", QueueBehindWriter'
  PROVE  SessionInv'
<1>1. \A w \in Writer : at'[w] = at[w]
  BY CallersAssumption DEF Caller
<1>2. \A q \in Reader : q # r => at'[q] = at[q]
  BY DEF Caller
<1>3. OneRun' /\ TimerBetweenRuns'
  BY <1>1 DEF SessionInv, OneRun, TimerBetweenRuns
<1>4. WriteQueue'
  <2>1. writeWaiters # <<>> => writeWaiters[1] \in Writer
    BY DEF GateInv, TypeOK
  <2> QED BY <1>1, <2>1 DEF SessionInv, WriteQueue
<1>5. ResumedMeansTimer' /\ FlagExcludes'
  BY <1>2 DEF SessionInv, ResumedMeansTimer, FlagExcludes
<1> QED BY <1>3, <1>4, <1>5 DEF SessionInv

\* Every job of a session keeps the invariant.
LEMMA SessionStep ==
  ASSUME serial, GateInv, SessionInv, [Next]_vars
  PROVE  SessionInv'
<1>0. TypeOK
  BY DEF GateInv
<1>a. "inside" \in At /\ "waiting" \in At /\ "done" \in At /\ "rejected" \in At
  BY DEF At
<1>b. /\ \A r \in Reader : r \in Caller /\ r \notin Writer
      /\ \A w \in Writer : w \in Caller /\ w \notin Reader
  BY CallersAssumption DEF Caller
<1>c. Len(writeWaiters) <= 1 /\ (writeWaiters # <<>> => Head(writeWaiters) \in Writer
        /\ at[Head(writeWaiters)] = "waiting" /\ Tail(writeWaiters) = <<>>)
  BY <1>0 DEF SessionInv, WriteQueue, TypeOK
<1>1. ASSUME NEW r \in Reader, AcquireRead(r) PROVE SessionInv'
  <2>1. UNCHANGED <<writer, closed, writeWaiters, aborted, timer>>
    BY <1>1 DEF AcquireRead
  <2>2. ASSUME NEW place \in At \ {"resumed"}, at' = Move(r, place),
               writer => place # "inside", QueueBehindWriter'
        PROVE  SessionInv'
    BY <1>0, <1>b, <2>1, <2>2, MoveFacts, ReaderMoves
  <2>3. CASE closed \/ ~MustQueue
    <3>1. UNCHANGED readWaiters
      BY <1>1, <2>3 DEF AcquireRead
    <3>2. QueueBehindWriter'
      BY <2>1, <3>1 DEF SessionInv, QueueBehindWriter
    <3>3. PICK place \in {"rejected", "inside"} : at' = Move(r, place) /\ (writer => place # "inside")
      BY <1>1, <2>3 DEF AcquireRead, MustQueue
    <3> QED BY <1>a, <2>2, <3>2, <3>3
  <2>4. CASE ~closed /\ MustQueue
    <3>1. at' = Move(r, "waiting")
      BY <1>1, <2>4 DEF AcquireRead
    <3>2. QueueBehindWriter'
      BY <2>1, <2>4 DEF QueueBehindWriter, MustQueue
    <3> QED BY <1>a, <2>2, <3>1, <3>2
  <2> QED BY <2>3, <2>4
<1>2. ASSUME NEW r \in Reader, ResumeRead(r) PROVE SessionInv'
  <2>1. at[r] = "resumed" /\ UNCHANGED <<readWaiters, writer, closed, writeWaiters, aborted, timer>>
    BY <1>2 DEF ResumeRead
  <2>2. ~writer
    BY <2>1 DEF SessionInv, FlagExcludes
  <2>3. PICK place \in {"rejected", "inside"} : at' = Move(r, place)
    BY <1>2 DEF ResumeRead
  <2>4. QueueBehindWriter'
    BY <2>1 DEF SessionInv, QueueBehindWriter
  <2>5. place \in At \ {"resumed"}
    BY <1>a
  <2>6. /\ at' \in [Caller -> At] /\ at'[r] = place
        /\ \A d \in Caller : d # r => at'[d] = at[d]
    BY <1>0, <1>b, <2>3, <2>5, MoveFacts
  <2> QED BY <2>1, <2>2, <2>4, <2>5, <2>6, ReaderMoves
<1>3. ASSUME NEW r \in Reader, ReleaseRead(r) PROVE SessionInv'
  <2> DEFINE places == Move(r, "done")
  <2>1. /\ at[r] = "inside" /\ readers' = readers - 1
        /\ Drain(readers - 1, writer, writeWaiters, places)
        /\ UNCHANGED <<closed, aborted, timer>>
    BY <1>3 DEF ReleaseRead
  <2>2. /\ places \in [Caller -> At] /\ places[r] = "done"
        /\ \A d \in Caller : d # r => places[d] = at[d]
    BY <1>0, <1>a, <1>b, MoveFacts
  <2>3. ~writer
    BY <2>1 DEF SessionInv, FlagExcludes
  <2> HIDE DEF places
  <2>4. CASE closed \/ readers - 1 > 0
    <3>1. UNCHANGED <<writer, writeWaiters, readWaiters>> /\ at' = places
      BY <2>1, <2>4 DEF Drain
    <3>2. QueueBehindWriter'
      BY <2>1, <3>1 DEF SessionInv, QueueBehindWriter
    <3> QED BY <1>a, <2>1, <2>2, <3>1, <3>2, ReaderMoves
  <2>5. CASE ~(closed \/ readers - 1 > 0) /\ writeWaiters = <<>>
    <3>1. readWaiters = <<>>
      BY <2>3, <2>5 DEF SessionInv, QueueBehindWriter
    <3>2. ToSet(readWaiters) = {}
      BY <3>1 DEF ToSet
    <3>3. /\ writer' = FALSE /\ writeWaiters' = <<>> /\ readWaiters' = <<>>
          /\ at' = [c \in Caller |-> places[c]]
      BY <2>1, <2>3, <2>5, <3>2 DEF Drain
    <3>4. at' = places /\ UNCHANGED <<writer, writeWaiters>>
      BY <1>0, <2>2, <2>3, <2>5, <3>3 DEF TypeOK
    <3>5. QueueBehindWriter'
      BY <3>3 DEF QueueBehindWriter
    <3> QED BY <1>a, <2>1, <2>2, <3>4, <3>5, ReaderMoves
  <2>6. CASE ~(closed \/ readers - 1 > 0) /\ writeWaiters # <<>>
    <3> DEFINE h == Head(writeWaiters)
    <3>1. h \in Writer /\ at[h] = "waiting" /\ h # r
      BY <1>b, <1>c, <2>6
    <3>2. /\ writer' = TRUE /\ writeWaiters' = <<>> /\ UNCHANGED readWaiters
          /\ at' = [places EXCEPT ![h] = "resumed"]
      BY <1>c, <2>1, <2>3, <2>6 DEF Drain
    <3> HIDE DEF h
    <3>3. ~timer
      BY <3>1 DEF SessionInv, TimerBetweenRuns, ActiveAt
    <3>4. /\ \A w \in Writer : w # h => at'[w] = at[w]
          /\ \A q \in Reader : at'[q] = IF q = r THEN "done" ELSE at[q]
      BY <1>b, <2>2, <3>1, <3>2
    <3>5. \A q \in Reader : q # r => at[q] # "inside"
      <4>1. readers = 1
        BY <1>0, <2>1, <2>6, ReadersAreFinite DEF GateInv, ReadersCounted, InsideReaders, TypeOK
      <4>2. r \in InsideReaders /\ InsideReaders \in SUBSET Reader
        BY <2>1 DEF InsideReaders
      <4> DEFINE I == InsideReaders
      <4>a. Cardinality(I) = 1 /\ I \in SUBSET Reader /\ r \in I
        BY <4>1, <4>2 DEF GateInv, ReadersCounted
      <4> HIDE DEF I
      <4>b. Cardinality(I \ {r}) = Cardinality(I) - 1
        BY <4>a, ReadersAreFinite
      <4>3. InsideReaders \ {r} \in SUBSET Reader /\ Cardinality(InsideReaders \ {r}) = 0
        BY <4>a, <4>b DEF I
      <4>4. InsideReaders \ {r} = {}
        BY <4>3, ReadersAreFinite
      <4> QED BY <4>4 DEF InsideReaders
    <3>6. OneRun'
      BY <3>1, <3>4 DEF SessionInv, OneRun, ActiveAt
    <3>7. WriteQueue' /\ TimerBetweenRuns' /\ QueueBehindWriter'
      BY <2>1, <3>2, <3>3 DEF WriteQueue, TimerBetweenRuns, QueueBehindWriter
    <3>8. ResumedMeansTimer' /\ FlagExcludes'
      BY <2>1, <3>3, <3>4, <3>5 DEF SessionInv, ResumedMeansTimer, FlagExcludes
    <3> QED BY <2>1, <3>6, <3>7, <3>8 DEF SessionInv
  <2> QED BY <2>4, <2>5, <2>6
<1>4. ASSUME NEW w \in Writer, RunWrite(w) PROVE SessionInv'
  <2>1. /\ at[w] = "out" /\ ~timer /\ \A v \in Writer : at[v] \notin ActiveAt
        /\ UNCHANGED <<readers, closed, readWaiters, aborted>>
    BY <1>4 DEF RunWrite, ActiveAt
  <2>2. writeWaiters = <<>>
    BY <1>c, <2>1 DEF ActiveAt
  <2>3. \A r \in Reader : at[r] # "resumed"
    BY <2>1 DEF SessionInv, ResumedMeansTimer
  <2>4. ASSUME NEW place \in At, at' = Move(w, place)
        PROVE  /\ at'[w] = place /\ \A v \in Writer : v # w => at'[v] = at[v]
               /\ \A r \in Reader : at'[r] = at[r]
               /\ OneRun' /\ ResumedMeansTimer'
    <3>a. w \in Caller
      BY <1>b
    <3>b. at'[w] = place /\ \A d \in Caller : d # w => at'[d] = at[d]
      BY <1>0, <2>4, <3>a, MoveFacts
    <3>1. /\ at'[w] = place /\ \A v \in Writer : v # w => at'[v] = at[v]
          /\ \A r \in Reader : at'[r] = at[r]
      BY <1>b, <3>b
    <3> QED BY <2>1, <2>3, <3>1 DEF OneRun, ResumedMeansTimer
  <2>5. CASE closed \/ w \in aborted
    <3>1. at' = Move(w, "rejected") /\ UNCHANGED <<writer, writeWaiters>>
      BY <1>4, <2>5 DEF RunWrite
    <3>2. TimerBetweenRuns' /\ FlagExcludes'
      BY <1>a, <2>1, <2>4, <3>1 DEF SessionInv, TimerBetweenRuns, FlagExcludes, ActiveAt
    <3>3. WriteQueue' /\ QueueBehindWriter'
      BY <2>1, <2>2, <3>1 DEF SessionInv, WriteQueue, QueueBehindWriter
    <3> QED BY <1>a, <2>1, <2>4, <3>1, <3>2, <3>3 DEF SessionInv
  <2>6. CASE ~closed /\ w \notin aborted /\ Occupied
    <3>1. /\ at' = Move(w, "waiting") /\ writeWaiters' = <<w>> /\ UNCHANGED <<writer, timer>>
      BY <1>4, <2>2, <2>6 DEF RunWrite
    <3>2. TimerBetweenRuns' /\ FlagExcludes'
      BY <1>a, <2>1, <2>4, <3>1 DEF SessionInv, TimerBetweenRuns, FlagExcludes
    <3>3. WriteQueue' /\ QueueBehindWriter'
      BY <1>a, <2>4, <3>1 DEF WriteQueue, QueueBehindWriter
    <3> QED BY <1>a, <2>1, <2>4, <3>1, <3>2, <3>3 DEF SessionInv
  <2>7. CASE ~closed /\ w \notin aborted /\ ~Occupied
    <3>1. /\ at' = Move(w, "inside") /\ writer' = TRUE /\ UNCHANGED <<writeWaiters, timer>>
          /\ ~(readers > 0)
      BY <1>4, <2>7 DEF RunWrite, Occupied
    <3>2. \A r \in Reader : at[r] # "inside"
      <4>1. Cardinality(InsideReaders) = 0 /\ InsideReaders \in SUBSET Reader
        BY <1>0, <3>1 DEF GateInv, ReadersCounted, InsideReaders, TypeOK
      <4>2. InsideReaders = {}
        BY <4>1, ReadersAreFinite
      <4> QED BY <4>2 DEF InsideReaders
    <3>3. TimerBetweenRuns' /\ FlagExcludes'
      BY <1>a, <2>1, <2>3, <2>4, <3>1, <3>2 DEF TimerBetweenRuns, FlagExcludes
    <3>4. WriteQueue' /\ QueueBehindWriter'
      BY <2>2, <3>1 DEF WriteQueue, QueueBehindWriter
    <3> QED BY <1>a, <2>1, <2>4, <3>1, <3>3, <3>4 DEF SessionInv
  <2> QED BY <2>5, <2>6, <2>7
<1>5. ASSUME NEW w \in Writer, ResumeWrite(w) PROVE SessionInv'
  <2>1. at[w] = "resumed" /\ UNCHANGED <<readers, closed, aborted>> /\ w \notin aborted
    BY <1>5 DEF ResumeWrite, SessionInv
  <2>2. \A v \in Writer : v # w => at[v] \notin ActiveAt
    BY <2>1 DEF SessionInv, OneRun, ActiveAt
  <2>3. writeWaiters = <<>>
    BY <1>c, <2>1, <2>2 DEF ActiveAt
  <2>4. writer
    BY <2>1 DEF GateInv, FlagIsHeld
  <2>5. \A r \in Reader : at[r] \notin {"inside", "resumed"}
    BY <2>4 DEF SessionInv, FlagExcludes
  <2>6. ASSUME NEW place \in At, at' = Move(w, place)
        PROVE  /\ at'[w] = place /\ \A v \in Writer : v # w => at'[v] = at[v]
               /\ OneRun' /\ ResumedMeansTimer' /\ FlagExcludes'
    <3>a. w \in Caller
      BY <1>b
    <3>b. at'[w] = place /\ \A d \in Caller : d # w => at'[d] = at[d]
      BY <1>0, <2>6, <3>a, MoveFacts
    <3>1. /\ at'[w] = place /\ \A v \in Writer : v # w => at'[v] = at[v]
          /\ \A r \in Reader : at'[r] = at[r]
      BY <1>b, <3>b
    <3> QED BY <2>2, <2>5, <3>1 DEF OneRun, ResumedMeansTimer, FlagExcludes
  <2>7. CASE closed
    <3>1. /\ at' = Move(w, "rejected") /\ UNCHANGED <<writeWaiters, readWaiters>>
      BY <1>5, <2>7 DEF ResumeWrite, Drain
    <3>2. TimerBetweenRuns'
      BY <1>a, <2>2, <2>6, <3>1 DEF TimerBetweenRuns, ActiveAt
    <3>3. WriteQueue' /\ QueueBehindWriter'
      BY <2>1, <2>3, <2>7, <3>1 DEF WriteQueue, QueueBehindWriter
    <3> QED BY <1>a, <2>1, <2>6, <3>1, <3>2, <3>3 DEF SessionInv
  <2>8. CASE ~closed
    <3>1. at' = Move(w, "inside") /\ UNCHANGED <<writer, readWaiters, writeWaiters, timer>>
      BY <1>5, <2>1, <2>8 DEF ResumeWrite
    <3>2. ~timer
      BY <2>1 DEF SessionInv, TimerBetweenRuns, ActiveAt
    <3>3. TimerBetweenRuns' /\ WriteQueue' /\ QueueBehindWriter'
      BY <2>3, <2>4, <3>1, <3>2 DEF TimerBetweenRuns, WriteQueue, QueueBehindWriter
    <3> QED BY <1>a, <2>1, <2>6, <3>1, <3>3 DEF SessionInv
  <2> QED BY <2>7, <2>8
<1>6. ASSUME NEW w \in Writer, EndWrite(w) PROVE SessionInv'
  <2>1. /\ at[w] = "inside" /\ Drain(readers, FALSE, writeWaiters, Move(w, "done"))
        /\ timer' = TRUE /\ UNCHANGED <<readers, closed, aborted>>
    BY <1>6 DEF EndWrite, LoopWaits
  <2>2. \A v \in Writer : v # w => at[v] \notin ActiveAt
    BY <2>1 DEF SessionInv, OneRun, ActiveAt
  <2>3. writeWaiters = <<>>
    BY <1>c, <2>1, <2>2 DEF ActiveAt
  <2>4. writer /\ \A r \in Reader : at[r] \notin {"inside", "resumed"}
    BY <2>1 DEF GateInv, FlagIsHeld, SessionInv, FlagExcludes
  <2>5. ~(readers > 0)
    <3>1. InsideReaders = {}
      BY <2>4 DEF InsideReaders
    <3>2. Cardinality(InsideReaders) = 0
      BY <3>1, FS_EmptySet
    <3> QED BY <3>2 DEF GateInv, ReadersCounted
  <2>6. /\ Move(w, "done")[w] = "done"
        /\ \A d \in Caller : d # w => Move(w, "done")[d] = at[d]
        /\ Move(w, "done") \in [Caller -> At]
    BY <1>0, <1>a, <1>b, MoveFacts
  <2>7. /\ writer' = FALSE /\ writeWaiters' = <<>> /\ (closed \/ readWaiters' = <<>>)
        /\ \A v \in Writer : at'[v] = Move(w, "done")[v]
    <3>1. CASE closed
      BY <2>1, <2>3, <3>1 DEF Drain
    <3>2. CASE ~closed
      <4>1. /\ writer' = FALSE /\ writeWaiters' = <<>> /\ readWaiters' = <<>>
            /\ at' = [c \in Caller |-> IF c \in ToSet(readWaiters) THEN "resumed"
                                       ELSE Move(w, "done")[c]]
        BY <2>1, <2>3, <2>5, <3>2 DEF Drain
      <4>2. ToSet(readWaiters) \subseteq Reader
        BY <1>0 DEF TypeOK, ToSet
      <4> QED BY <1>b, <4>1, <4>2
    <3> QED BY <3>1, <3>2
  <2>8. \A v \in Writer : at'[v] \notin ActiveAt
    BY <1>b, <2>2, <2>6, <2>7 DEF ActiveAt
  <2>9. OneRun' /\ WriteQueue' /\ TimerBetweenRuns'
    BY <2>7, <2>8 DEF OneRun, WriteQueue, TimerBetweenRuns
  <2>10. ResumedMeansTimer' /\ QueueBehindWriter' /\ FlagExcludes'
    BY <2>1, <2>7 DEF ResumedMeansTimer, QueueBehindWriter, FlagExcludes
  <2> QED BY <2>1, <2>9, <2>10 DEF SessionInv
<1>7. CASE Close
  <2>1. /\ at' = [c \in Caller |-> IF c \in Waiting THEN "rejected" ELSE at[c]]
        /\ readWaiters' = <<>> /\ writeWaiters' = <<>> /\ closed' = TRUE
        /\ UNCHANGED <<readers, writer, aborted, timer>>
    BY <1>7 DEF Close
  <2>2. \A c \in Caller : at'[c] = "rejected" \/ at'[c] = at[c]
    BY <2>1
  <2>3. OneRun' /\ WriteQueue' /\ TimerBetweenRuns'
    BY <1>b, <2>1, <2>2 DEF SessionInv, OneRun, WriteQueue, TimerBetweenRuns, ActiveAt
  <2>4. ResumedMeansTimer' /\ QueueBehindWriter' /\ FlagExcludes'
    BY <1>b, <2>1, <2>2 DEF SessionInv, ResumedMeansTimer, QueueBehindWriter, FlagExcludes
  <2> QED BY <2>1, <2>3, <2>4 DEF SessionInv
<1>8. CASE TimerFires
  <2>1. /\ \A c \in Caller : at[c] # "resumed"
        /\ timer' = FALSE
        /\ UNCHANGED <<readers, writer, closed, readWaiters, writeWaiters, aborted, at>>
    BY <1>8 DEF TimerFires
  <2> QED
    BY <1>b, <2>1 DEF SessionInv, OneRun, WriteQueue, TimerBetweenRuns, ResumedMeansTimer,
       QueueBehindWriter, FlagExcludes
<1>9. CASE UNCHANGED vars
  BY <1>9 DEF vars, gate, SessionInv, OneRun, WriteQueue, TimerBetweenRuns, ResumedMeansTimer,
     QueueBehindWriter, FlagExcludes
<1>10. ASSUME NEW w \in Writer PROVE ~Abort(w)
  BY DEF Abort
<1> QED
  BY <1>1, <1>2, <1>3, <1>4, <1>5, <1>6, <1>7, <1>8, <1>9, <1>10 DEF Next, Resume, Leave

\* In a development session no reader of the tree holds acquireRead's release
\* while a publication moves files: a reader that was let in always counts
\* itself before the next run asks.
THEOREM ReadersAreExcluded == Spec => []ReadersExcludeWriter
<1>1. Init => (serial => SessionInv)
  BY SessionInit
<1>2. GateInv /\ (serial => SessionInv) /\ [Next]_vars => (serial => SessionInv)'
  <2> SUFFICES ASSUME GateInv, serial => SessionInv, [Next]_vars, serial' PROVE SessionInv'
    OBVIOUS
  <2>1. serial
    BY DEF Next, vars, gate
  <2> QED BY <2>1, SessionStep
<1>3. GateInv /\ (serial => SessionInv) => ReadersExcludeWriter
  BY DEF GateInv, WritersExclusive, FlagIsHeld, SessionInv, FlagExcludes, ReadersExcludeWriter,
     Caller
<1> QED BY <1>1, <1>2, <1>3, GateInductive, PTL DEF Spec

-----------------------------------------------------------------------------
(* Wake-ups: whoever waits is in a queue, and a queue is served by somebody *)
(* who is inside or whose job is about to run.                             *)

Present == {"inside", "resumed"}

WaitersAreQueued(places, reads, writes) ==
  \A c \in Caller : places[c] = "waiting" => c \in ToSet(reads) \cup ToSet(writes)

\* The flag is up because of a writer that will take it down.
FlagHasHolder == writer /\ ~closed => \E w \in Writer : at[w] \in Present

QueueHasServer ==
  readWaiters # <<>> \/ writeWaiters # <<>> => ~closed /\ \E c \in Caller : at[c] \in Present

WakeInv ==
  WaitersAreQueued(at, readWaiters, writeWaiters) /\ FlagHasHolder /\ QueueHasServer

\* What the queue operations of the gate keep in a queue.
LEMMA QueueFacts ==
  ASSUME NEW S, NEW s \in Seq(S)
  PROVE  /\ ToSet(<<>>) = {}
         /\ \A e \in S : ToSet(Append(s, e)) = ToSet(s) \cup {e}
         /\ s # <<>> => ToSet(s) \subseteq {Head(s)} \cup ToSet(Tail(s))
         /\ \A i \in 1..Len(s) : ToSet(s) \subseteq {s[i]} \cup ToSet(RemoveAt(s, i))
<1>1. ToSet(<<>>) = {}
  BY DEF ToSet
<1>2. ASSUME NEW e \in S PROVE ToSet(Append(s, e)) = ToSet(s) \cup {e}
  <2>1. /\ DOMAIN s = 1..Len(s) /\ DOMAIN Append(s, e) = 1..(Len(s) + 1) /\ Len(s) \in Nat
        /\ \A i \in 1..Len(s) : Append(s, e)[i] = s[i]
        /\ Append(s, e)[Len(s) + 1] = e
    OBVIOUS
  <2>2. ASSUME NEW x \in ToSet(Append(s, e)) PROVE x \in ToSet(s) \cup {e}
    <3>1. PICK i \in 1..(Len(s) + 1) : Append(s, e)[i] = x
      BY <2>1 DEF ToSet
    <3>2. i \in 1..Len(s) \/ i = Len(s) + 1
      BY <2>1
    <3> QED BY <2>1, <3>1, <3>2 DEF ToSet
  <2>3. ASSUME NEW x \in ToSet(s) PROVE x \in ToSet(Append(s, e))
    <3>1. PICK i \in 1..Len(s) : s[i] = x
      BY <2>1 DEF ToSet
    <3>2. i \in 1..(Len(s) + 1)
      BY <2>1
    <3> QED BY <2>1, <3>1, <3>2 DEF ToSet
  <2>4. e \in ToSet(Append(s, e))
    <3>1. Len(s) + 1 \in 1..(Len(s) + 1)
      BY <2>1
    <3> QED BY <2>1, <3>1 DEF ToSet
  <2> QED BY <2>2, <2>3, <2>4
<1>3. ASSUME s # <<>> PROVE ToSet(s) \subseteq {Head(s)} \cup ToSet(Tail(s))
  <2>1. /\ Len(s) \in Nat \ {0} /\ DOMAIN s = 1..Len(s) /\ DOMAIN Tail(s) = 1..(Len(s) - 1)
        /\ Head(s) = s[1] /\ \A i \in 1..(Len(s) - 1) : Tail(s)[i] = s[i + 1]
    BY <1>3
  <2>2. ASSUME NEW x \in ToSet(s), x # Head(s) PROVE x \in ToSet(Tail(s))
    <3>1. PICK i \in 1..Len(s) : s[i] = x
      BY <2>1 DEF ToSet
    <3>2. i - 1 \in 1..(Len(s) - 1) /\ (i - 1) + 1 = i
      BY <2>1, <2>2, <3>1
    <3>3. Tail(s)[i - 1] = x
      BY <2>1, <3>1, <3>2
    <3> QED BY <2>1, <3>2, <3>3 DEF ToSet
  <2> QED BY <2>2
<1>4. ASSUME NEW i \in 1..Len(s) PROVE ToSet(s) \subseteq {s[i]} \cup ToSet(RemoveAt(s, i))
  <2> DEFINE a == SubSeq(s, 1, i - 1)
             b == SubSeq(s, i + 1, Len(s))
  <2>1. /\ a \in Seq(S) /\ Len(a) = i - 1 /\ \A k \in 1..(i - 1) : a[k] = s[k]
        /\ b \in Seq(S) /\ Len(b) = Len(s) - i /\ \A k \in 1..(Len(s) - i) : b[k] = s[i + k]
        /\ Len(s) \in Nat /\ i \in Nat
    OBVIOUS
  <2> HIDE DEF a, b
  <2>2. /\ DOMAIN (a \o b) = 1..(Len(s) - 1)
        /\ \A k \in 1..(i - 1) : (a \o b)[k] = s[k]
        /\ \A k \in i..(Len(s) - 1) : (a \o b)[k] = s[k + 1]
    <3>1. /\ a \o b \in Seq(S) /\ Len(a \o b) = Len(a) + Len(b)
          /\ \A k \in 1..(Len(a) + Len(b)) :
               (a \o b)[k] = IF k <= Len(a) THEN a[k] ELSE b[k - Len(a)]
      BY <2>1, ConcatProperties
    <3>2. Len(a) + Len(b) = Len(s) - 1
      BY <2>1
    <3>3. DOMAIN (a \o b) = 1..(Len(s) - 1)
      BY <3>1, <3>2
    <3>4. ASSUME NEW k \in 1..(i - 1) PROVE (a \o b)[k] = s[k]
      <4>1. k \in 1..(Len(a) + Len(b)) /\ k <= Len(a)
        BY <2>1
      <4> QED BY <2>1, <3>1, <4>1
    <3>5. ASSUME NEW k \in i..(Len(s) - 1) PROVE (a \o b)[k] = s[k + 1]
      <4>1. /\ k \in 1..(Len(a) + Len(b)) /\ ~(k <= Len(a)) /\ k - Len(a) \in 1..(Len(s) - i)
            /\ i + (k - Len(a)) = k + 1
        BY <2>1
      <4> QED BY <2>1, <3>1, <4>1
    <3> QED BY <3>3, <3>4, <3>5
  <2>3. ASSUME NEW x \in ToSet(s), x # s[i] PROVE x \in ToSet(a \o b)
    <3>1. PICK j \in 1..Len(s) : s[j] = x
      BY <2>1 DEF ToSet
    <3>2. CASE j < i
      <4>1. j \in 1..(i - 1) /\ j \in 1..(Len(s) - 1)
        BY <2>1, <3>2
      <4> QED BY <2>2, <3>1, <4>1 DEF ToSet
    <3>3. CASE j > i
      <4>1. j - 1 \in i..(Len(s) - 1) /\ j - 1 \in 1..(Len(s) - 1) /\ (j - 1) + 1 = j
        BY <2>1, <3>3
      <4>2. (a \o b)[j - 1] = x
        BY <2>2, <3>1, <4>1
      <4> QED BY <2>2, <4>1, <4>2 DEF ToSet
    <3> QED BY <2>1, <2>3, <3>1, <3>2, <3>3
  <2> QED BY <2>3 DEF RemoveAt, a, b
<1> QED BY <1>1, <1>2, <1>3, <1>4

\* A counted reader is inside.
LEMMA SomeReaderInside ==
  ASSUME NEW places, NEW n \in Nat, n > 0, n = Cardinality({r \in Reader : places[r] = "inside"})
  PROVE  \E r \in Reader : places[r] = "inside"
<1>1. {r \in Reader : places[r] = "inside"} # {}
  BY FS_EmptySet
<1> QED BY <1>1

\* #drain wakes whoever waits, or leaves somebody who will.
LEMMA DrainWakes ==
  ASSUME TypeOK, NEW n \in Nat, NEW w \in BOOLEAN, NEW waiting \in Seq(Writer),
         NEW places \in [Caller -> At],
         Drain(n, w, waiting, places), UNCHANGED closed,
         n = Cardinality({r \in Reader : places[r] = "inside"}),
         w /\ ~closed => \E v \in Writer : places[v] \in Present,
         closed => readWaiters = <<>> /\ waiting = <<>>,
         WaitersAreQueued(places, readWaiters, waiting)
  PROVE  WakeInv'
<1>1. CASE closed \/ w \/ n > 0
  <2>1. writer' = w /\ writeWaiters' = waiting /\ at' = places /\ readWaiters' = readWaiters
    BY <1>1 DEF Drain
  <2>2. ~closed => \E c \in Caller : places[c] \in Present
    BY <1>1, SomeReaderInside DEF Caller, Present
  <2>3. QueueHasServer'
    BY <2>1, <2>2 DEF QueueHasServer
  <2> QED BY <2>1, <2>3 DEF WakeInv, FlagHasHolder, WaitersAreQueued
<1>2. CASE ~(closed \/ w \/ n > 0) /\ waiting # <<>>
  <2>1. /\ writer' = TRUE /\ writeWaiters' = Tail(waiting) /\ readWaiters' = readWaiters
        /\ at' = [places EXCEPT ![Head(waiting)] = "resumed"]
    BY <1>2 DEF Drain
  <2>2. Head(waiting) \in Writer
    BY <1>2
  <2>3. /\ at'[Head(waiting)] = "resumed"
        /\ \A c \in Caller : c # Head(waiting) => at'[c] = places[c]
    BY <2>1, <2>2 DEF Caller
  <2>4. ToSet(waiting) \subseteq {Head(waiting)} \cup ToSet(writeWaiters')
    BY <1>2, <2>1, QueueFacts
  <2>5. WaitersAreQueued(at, readWaiters, writeWaiters)'
    BY <2>1, <2>3, <2>4 DEF WaitersAreQueued
  <2>6. \E v \in Writer : at'[v] \in Present
    BY <2>2, <2>3 DEF Present
  <2> QED BY <1>2, <2>5, <2>6 DEF WakeInv, FlagHasHolder, QueueHasServer, Caller
<1>3. CASE ~(closed \/ w \/ n > 0) /\ waiting = <<>>
  <2>1. /\ writer' = FALSE /\ writeWaiters' = <<>> /\ readWaiters' = <<>>
        /\ at' = [c \in Caller |-> IF c \in ToSet(readWaiters) THEN "resumed" ELSE places[c]]
    BY <1>3 DEF Drain
  <2>2. ToSet(waiting) = {}
    BY <1>3, QueueFacts
  <2>3. \A c \in Caller : at'[c] # "waiting"
    BY <2>1, <2>2 DEF WaitersAreQueued
  <2> QED BY <2>1, <2>3 DEF WakeInv, FlagHasHolder, QueueHasServer, WaitersAreQueued
<1> QED BY <1>1, <1>2, <1>3

\* One caller moves, and not out of the gate while it is open.
LEMMA WakeKept ==
  ASSUME TypeOK, WakeInv, NEW c \in Caller, NEW place \in At, at' = Move(c, place),
         UNCHANGED closed, closed \/ at[c] \notin Present \/ place \in Present,
         ToSet(readWaiters) \cup ToSet(writeWaiters)
           \subseteq ToSet(readWaiters') \cup ToSet(writeWaiters'),
         place = "waiting" => c \in ToSet(readWaiters') \cup ToSet(writeWaiters'),
         writer' => writer \/ (c \in Writer /\ place \in Present),
         readWaiters' # <<>> \/ writeWaiters' # <<>> =>
           ~closed /\ \E d \in Caller : at[d] \in Present
  PROVE  WakeInv'
<1>1. at'[c] = place /\ \A d \in Caller : d # c => at'[d] = at[d]
  BY MoveFacts
<1>2. ~closed => \A d \in Caller : at[d] \in Present => at'[d] \in Present
  BY <1>1
<1>3. WaitersAreQueued(at, readWaiters, writeWaiters)'
  BY <1>1 DEF WakeInv, WaitersAreQueued
<1>4. FlagHasHolder'
  BY <1>1, <1>2 DEF WakeInv, FlagHasHolder, Caller
<1>5. QueueHasServer'
  BY <1>2 DEF QueueHasServer
<1> QED BY <1>3, <1>4, <1>5 DEF WakeInv

\* Nobody waits at a new gate.
LEMMA WakeInit == Init => WakeInv
BY DEF Init, WakeInv, WaitersAreQueued, FlagHasHolder, QueueHasServer

\* Every job keeps the invariant: one case per action.
LEMMA WakeStep == GateInv /\ WakeInv /\ [Next]_vars => WakeInv'
<1> SUFFICES ASSUME GateInv, WakeInv, [Next]_vars PROVE WakeInv'
  OBVIOUS
<1>0. TypeOK /\ WaitersAreQueued(at, readWaiters, writeWaiters) /\ FlagHasHolder /\ QueueHasServer
  BY DEF GateInv, WakeInv
<1>a. /\ {"inside", "waiting", "resumed", "done", "rejected"} \subseteq At
      /\ \A r \in Reader : r \in Caller /\ r \notin Writer
      /\ \A w \in Writer : w \in Caller /\ w \notin Reader
  BY CallersAssumption DEF Caller, At
<1>b. closed => readWaiters = <<>> /\ writeWaiters = <<>>
  BY <1>0 DEF QueueHasServer
<1>c. ~closed /\ Occupied => \E c \in Caller : at[c] \in Present
  <2>1. readers > 0 => \E r \in Reader : at[r] = "inside"
    BY <1>0, SomeReaderInside DEF GateInv, ReadersCounted, InsideReaders, TypeOK
  <2> QED BY <1>0, <2>1 DEF Occupied, FlagHasHolder, Caller, Present
<1>1. ASSUME NEW r \in Reader, AcquireRead(r) PROVE WakeInv'
  <2>1. at[r] = "out" /\ UNCHANGED <<writer, closed, writeWaiters>>
    BY <1>1 DEF AcquireRead
  <2>2. at[r] \notin Present
    BY <2>1 DEF Present
  <2>3. CASE closed \/ ~MustQueue
    <3>1. PICK place \in {"rejected", "inside"} : at' = Move(r, place) /\ UNCHANGED readWaiters
      BY <1>1, <2>3 DEF AcquireRead
    <3> QED BY <1>0, <1>a, <2>1, <2>2, <3>1, WakeKept DEF QueueHasServer
  <2>4. CASE ~closed /\ MustQueue
    <3>1. at' = Move(r, "waiting") /\ readWaiters' = Append(readWaiters, r)
      BY <1>1, <2>4 DEF AcquireRead
    <3>2. ToSet(readWaiters') = ToSet(readWaiters) \cup {r}
      BY <1>0, <3>1, QueueFacts DEF TypeOK
    <3>3. \E d \in Caller : at[d] \in Present
      BY <1>0, <1>c, <2>4 DEF MustQueue, Occupied, QueueHasServer
    <3> QED BY <1>0, <1>a, <2>1, <2>2, <2>4, <3>1, <3>2, <3>3, WakeKept
  <2> QED BY <2>3, <2>4
<1>2. ASSUME NEW r \in Reader, ResumeRead(r) PROVE WakeInv'
  <2>1. /\ at[r] = "resumed" /\ UNCHANGED <<writer, closed, readWaiters, writeWaiters>>
        /\ at' = Move(r, IF closed THEN "rejected" ELSE "inside")
    BY <1>2 DEF ResumeRead
  <2> DEFINE place == IF closed THEN "rejected" ELSE "inside"
  <2>2. place \in At /\ place # "waiting" /\ (closed \/ place \in Present)
    BY <1>a DEF Present
  <2>3. at' = Move(r, place)
    BY <2>1
  <2> HIDE DEF place
  <2> QED BY <1>0, <1>a, <2>1, <2>2, <2>3, WakeKept DEF QueueHasServer
<1>3. ASSUME NEW r \in Reader, ReleaseRead(r) PROVE WakeInv'
  <2> DEFINE places == Move(r, "done")
  <2>1. /\ at[r] = "inside" /\ UNCHANGED closed
        /\ Drain(readers - 1, writer, writeWaiters, places)
    BY <1>3 DEF ReleaseRead
  <2>2. /\ places \in [Caller -> At] /\ places[r] = "done"
        /\ \A d \in Caller : d # r => places[d] = at[d]
    BY <1>0, <1>a, MoveFacts
  <2> HIDE DEF places
  <2>3. {q \in Reader : places[q] = "inside"} = InsideReaders \ {r}
    BY <1>a, <2>2 DEF InsideReaders
  <2>4. r \in InsideReaders /\ InsideReaders \in SUBSET Reader
        /\ InsideReaders \ {r} \in SUBSET Reader
    BY <2>1 DEF InsideReaders
  <2>5. readers - 1 = Cardinality({q \in Reader : places[q] = "inside"}) /\ readers - 1 \in Nat
    BY <2>3, <2>4, ReadersAreFinite DEF GateInv, ReadersCounted
  <2>6. writer /\ ~closed => \E v \in Writer : places[v] \in Present
    BY <1>0, <1>a, <2>2 DEF FlagHasHolder
  <2>7. WaitersAreQueued(places, readWaiters, writeWaiters)
    BY <1>0, <2>2 DEF WaitersAreQueued
  <2>8. writer \in BOOLEAN /\ writeWaiters \in Seq(Writer)
    BY <1>0 DEF TypeOK
  <2> QED BY <1>0, <1>b, <2>1, <2>2, <2>5, <2>6, <2>7, <2>8, DrainWakes
<1>4. ASSUME NEW w \in Writer, RunWrite(w) PROVE WakeInv'
  <2>1. at[w] = "out" /\ UNCHANGED <<closed, readWaiters>>
    BY <1>4 DEF RunWrite
  <2>2. at[w] \notin Present
    BY <2>1 DEF Present
  <2>3. CASE closed \/ w \in aborted \/ ~Occupied
    <3>1. PICK place \in {"rejected", "inside"} :
            /\ at' = Move(w, place) /\ UNCHANGED writeWaiters
            /\ writer' => writer \/ place = "inside"
      BY <1>4, <2>3 DEF RunWrite
    <3> QED BY <1>0, <1>a, <2>1, <2>2, <3>1, WakeKept DEF QueueHasServer, Present
  <2>4. CASE ~closed /\ w \notin aborted /\ Occupied
    <3>1. at' = Move(w, "waiting") /\ writeWaiters' = Append(writeWaiters, w) /\ UNCHANGED writer
      BY <1>4, <2>4 DEF RunWrite
    <3>2. ToSet(writeWaiters') = ToSet(writeWaiters) \cup {w}
      BY <1>0, <3>1, QueueFacts DEF TypeOK
    <3> QED BY <1>0, <1>a, <1>c, <2>1, <2>2, <2>4, <3>1, <3>2, WakeKept
  <2> QED BY <2>3, <2>4
\* A writer that gives the gate on, or leaves its queue.
<1>5. ASSUME NEW w \in Writer, NEW place \in {"done", "rejected"},
             NEW flag \in BOOLEAN, NEW waiting \in Seq(Writer),
             Drain(readers, flag, waiting, Move(w, place)), UNCHANGED closed,
             flag => writer /\ at[w] \notin Present,
             closed => waiting = <<>>,
             ToSet(writeWaiters) \subseteq {w} \cup ToSet(waiting)
      PROVE  WakeInv'
  <2> DEFINE places == Move(w, place)
  <2>1. /\ places \in [Caller -> At] /\ places[w] = place
        /\ \A d \in Caller : d # w => places[d] = at[d]
    BY <1>0, <1>a, MoveFacts
  <2> HIDE DEF places
  <2>2. {r \in Reader : places[r] = "inside"} = InsideReaders
    BY <1>a, <2>1 DEF InsideReaders
  <2>3. readers = Cardinality({r \in Reader : places[r] = "inside"}) /\ readers \in Nat
    BY <1>0, <2>2 DEF GateInv, ReadersCounted, TypeOK
  <2>4. flag /\ ~closed => \E v \in Writer : places[v] \in Present
    BY <1>0, <1>5, <1>a, <2>1 DEF FlagHasHolder
  <2>5. WaitersAreQueued(places, readWaiters, waiting)
    BY <1>0, <1>5, <2>1 DEF WaitersAreQueued
  <2>6. Drain(readers, flag, waiting, places)
    BY <1>5 DEF places
  <2> QED BY <1>0, <1>5, <1>b, <2>1, <2>3, <2>4, <2>5, <2>6, DrainWakes
<1>6. ASSUME NEW w \in Writer, ResumeWrite(w) PROVE WakeInv'
  <2>1. at[w] = "resumed" /\ UNCHANGED closed /\ writeWaiters \in Seq(Writer)
    BY <1>0, <1>6 DEF ResumeWrite, TypeOK
  <2>2. CASE closed \/ w \in aborted
    <3>1. Drain(readers, FALSE, writeWaiters, Move(w, "rejected"))
      BY <1>6, <2>2 DEF ResumeWrite
    <3> QED BY <1>5, <1>b, <2>1, <3>1
  <2>3. CASE ~(closed \/ w \in aborted)
    <3>1. at' = Move(w, "inside") /\ UNCHANGED <<writer, readWaiters, writeWaiters>>
      BY <1>6, <2>3 DEF ResumeWrite
    <3> QED BY <1>0, <1>a, <2>1, <3>1, WakeKept DEF QueueHasServer, Present
  <2> QED BY <2>2, <2>3
<1>7. ASSUME NEW w \in Writer, EndWrite(w) PROVE WakeInv'
  <2>1. /\ Drain(readers, FALSE, writeWaiters, Move(w, "done"))
        /\ UNCHANGED closed /\ writeWaiters \in Seq(Writer)
    BY <1>0, <1>7 DEF EndWrite, TypeOK
  <2> QED BY <1>5, <1>b, <2>1
<1>8. ASSUME NEW w \in Writer, Abort(w) PROVE WakeInv'
  <2>1. UNCHANGED closed
    BY <1>8 DEF Abort
  <2>2. CASE at[w] = "waiting"
    <3>1. PICK i \in 1..Len(writeWaiters) :
            /\ writeWaiters[i] = w
            /\ Drain(readers, writer, RemoveAt(writeWaiters, i), Move(w, "rejected"))
      BY <1>8, <2>2 DEF Abort
    <3>2. writeWaiters \in Seq(Writer) /\ writer \in BOOLEAN
      BY <1>0 DEF TypeOK
    <3>3. RemoveAt(writeWaiters, i) \in Seq(Writer)
      <4>1. /\ SubSeq(writeWaiters, 1, i-1) \in Seq(Writer)
            /\ SubSeq(writeWaiters, i+1, Len(writeWaiters)) \in Seq(Writer)
        BY <3>2
      <4> QED BY <4>1 DEF RemoveAt
    <3>4. ToSet(writeWaiters) \subseteq {w} \cup ToSet(RemoveAt(writeWaiters, i))
      BY <3>1, <3>2, QueueFacts
    <3>5. ~closed
      BY <1>b, <3>1
    <3>6. at[w] \notin Present
      BY <2>2 DEF Present
    <3> QED BY <1>5, <2>1, <3>1, <3>2, <3>3, <3>4, <3>5, <3>6
  <2>3. CASE at[w] # "waiting"
    <3>1. UNCHANGED <<writer, readWaiters, writeWaiters, at>>
      BY <1>8, <2>3 DEF Abort
    <3> QED BY <2>1, <3>1 DEF WakeInv, WaitersAreQueued, FlagHasHolder, QueueHasServer
  <2> QED BY <2>2, <2>3
<1>9. CASE Close
  <2>1. /\ at' = [c \in Caller |-> IF c \in Waiting THEN "rejected" ELSE at[c]]
        /\ readWaiters' = <<>> /\ writeWaiters' = <<>> /\ closed' = TRUE
    BY <1>9 DEF Close
  <2>2. \A c \in Caller : at'[c] # "waiting"
    BY <1>0, <2>1 DEF WaitersAreQueued, Waiting
  <2> QED BY <2>1, <2>2 DEF WakeInv, WaitersAreQueued, FlagHasHolder, QueueHasServer
<1>10. CASE TimerFires \/ UNCHANGED vars
  <2>1. UNCHANGED <<writer, closed, readWaiters, writeWaiters, at>>
    BY <1>10 DEF TimerFires, vars, gate
  <2> QED BY <2>1 DEF WakeInv, WaitersAreQueued, FlagHasHolder, QueueHasServer
<1> QED
  BY <1>1, <1>2, <1>3, <1>4, <1>6, <1>7, <1>8, <1>9, <1>10 DEF Next, Resume, Leave

LEMMA WakeInductive == Spec => []WakeInv
<1> QED BY WakeInit, WakeStep, GateInductive, PTL DEF Spec

\* No wake-up of the gate is lost: a caller waits only while somebody is inside
\* or about to be, for readers and publications that wait, cancel and resume in
\* any order.
THEOREM NoWakeUpIsLost == Spec => []NobodyWaitsAtFreeGate
<1>1. GateInv /\ WakeInv => NobodyWaitsAtFreeGate
  <2> SUFFICES ASSUME GateInv, WakeInv, NEW c \in Caller, at[c] = "waiting"
               PROVE  \E d \in Caller : at[d] \in Present
    BY DEF NobodyWaitsAtFreeGate, Present
  <2>1. c \in ToSet(readWaiters) \cup ToSet(writeWaiters)
    BY DEF WakeInv, WaitersAreQueued
  <2>2. readWaiters # <<>> \/ writeWaiters # <<>>
    <3>1. ToSet(<<>>) = {}
      BY DEF ToSet
    <3> QED BY <2>1, <3>1
  <2> QED BY <2>2 DEF WakeInv, QueueHasServer
<1> QED BY <1>1, GateInductive, WakeInductive, PTL

\* #drain lets nobody in at once: who it wakes goes in in a job of its own.
LEMMA DrainPlaces ==
  ASSUME NEW n, NEW w, NEW waiting, NEW places \in [Caller -> At], Drain(n, w, waiting, places)
  PROVE  \A c \in Caller : at'[c] \in {places[c], "resumed"}
<1>1. CASE closed \/ w \/ n > 0
  BY <1>1 DEF Drain
<1>2. CASE ~(closed \/ w \/ n > 0) /\ waiting # <<>>
  BY <1>2 DEF Drain
<1>3. CASE ~(closed \/ w \/ n > 0) /\ waiting = <<>>
  BY <1>3 DEF Drain
<1> QED BY <1>1, <1>2, <1>3

\* Writer priority: no call of acquireRead enters while a publication waits.
THEOREM WritersHavePriority == Spec => NoReaderPassesWriter
<1> DEFINE Polite == \A r \in Reader : at[r] = "out" /\ at'[r] = "inside" =>
                       \A w \in Writer : at[w] # "waiting"
<1>1. GateInv /\ WakeInv /\ [Next]_vars => [Polite]_vars
  <2> SUFFICES ASSUME GateInv, WakeInv, Next, NEW r \in Reader, at[r] = "out", at'[r] = "inside",
                      NEW w \in Writer, at[w] = "waiting"
               PROVE  FALSE
    OBVIOUS
  <2>0. TypeOK
    BY DEF GateInv
  <2>a. /\ {"inside", "waiting", "resumed", "done", "rejected"} \subseteq At
        /\ \A q \in Reader : q \in Caller /\ q \notin Writer
        /\ \A v \in Writer : v \in Caller /\ v \notin Reader
    BY CallersAssumption DEF Caller, At
  <2>b. ToSet(readWaiters) \subseteq Reader /\ ToSet(<<>>) = {}
    BY <2>0 DEF TypeOK, ToSet
  <2>c. writeWaiters # <<>>
    BY <2>a, <2>b DEF WakeInv, WaitersAreQueued
  \* A job of somebody else, or one that ends r's call.
  <2>d. ASSUME NEW c \in Caller, NEW place \in At, c # r \/ place # "inside"
        PROVE  Move(c, place) \in [Caller -> At] /\ Move(c, place)[r] # "inside"
    <3>1. /\ Move(c, place) \in [Caller -> At] /\ Move(c, place)[c] = place
          /\ \A d \in Caller : d # c => Move(c, place)[d] = at[d]
      BY <2>0, MoveFacts
    <3>2. CASE c = r
      BY <2>d, <3>1, <3>2
    <3>3. CASE c # r
      BY <2>a, <3>1, <3>3
    <3> QED BY <3>1, <3>2, <3>3
  <2>e. ASSUME NEW c \in Caller, NEW place \in At, place # "inside",
               NEW n, NEW flag, NEW waiting, Drain(n, flag, waiting, Move(c, place))
        PROVE  FALSE
    <3>1. at'[r] \in {Move(c, place)[r], "resumed"}
      BY <2>a, <2>d, <2>e, DrainPlaces
    <3> QED BY <2>d, <2>e, <3>1
  <2>1. ASSUME NEW q \in Reader, AcquireRead(q) PROVE FALSE
    <3>1. PICK place \in {"rejected", "waiting", "inside"} :
            at' = Move(q, place) /\ (place = "inside" => ~MustQueue)
      BY <2>1 DEF AcquireRead
    <3> QED BY <2>a, <2>c, <2>d, <3>1 DEF MustQueue
  <2>2. ASSUME NEW q \in Reader, ResumeRead(q) PROVE FALSE
    <3>1. q # r /\ \E place \in {"rejected", "inside"} : at' = Move(q, place)
      BY <2>2 DEF ResumeRead
    <3> QED BY <2>a, <2>d, <3>1
  <2>3. ASSUME NEW q \in Reader, ReleaseRead(q) PROVE FALSE
    BY <2>a, <2>e, <2>3 DEF ReleaseRead
  <2>4. ASSUME NEW v \in Writer, RunWrite(v) PROVE FALSE
    <3>1. v # r /\ \E place \in {"rejected", "waiting", "inside"} : at' = Move(v, place)
      BY <2>a, <2>4 DEF RunWrite
    <3> QED BY <2>a, <2>d, <3>1
  <2>5. ASSUME NEW v \in Writer, ResumeWrite(v) PROVE FALSE
    <3>1. CASE at' = Move(v, "inside")
      BY <2>a, <2>d, <3>1
    <3> QED BY <2>a, <2>e, <2>5, <3>1 DEF ResumeWrite
  <2>6. ASSUME NEW v \in Writer, EndWrite(v) PROVE FALSE
    BY <2>a, <2>e, <2>6 DEF EndWrite
  <2>7. ASSUME NEW v \in Writer, Abort(v) PROVE FALSE
    <3>1. CASE at' = at
      BY <3>1
    <3> QED BY <2>a, <2>e, <2>7, <3>1 DEF Abort
  <2>8. CASE Close \/ TimerFires
    <3>1. at'[r] \in {"rejected", at[r]}
      BY <2>a, <2>8 DEF Close, TimerFires
    <3> QED BY <3>1
  <2> QED BY <2>1, <2>2, <2>3, <2>4, <2>5, <2>6, <2>7, <2>8 DEF Next, Resume, Leave
<1> QED BY <1>1, GateInductive, WakeInductive, PTL DEF Spec, NoReaderPassesWriter
-----------------------------------------------------------------------------
(* What a job of a session does to the callers, for the session that is     *)
(* composed with the gate: its own caller moves, and at most it wakes others. *)

Undisturbed(c) == at'[c] = at[c] \/ (at[c] = "waiting" /\ at'[c] = "resumed")

\* Whoever is in a queue waits.
LEMMA QueuedWait ==
  ASSUME GateInv, SessionInv
  PROVE  /\ \A c \in Waiting : c \in Caller /\ at[c] = "waiting"
         /\ writeWaiters # <<>> =>
              Head(writeWaiters) \in Writer /\ at[Head(writeWaiters)] = "waiting"
<1>1. \A c \in ToSet(readWaiters) : c \in Caller /\ at[c] = "waiting"
  BY DEF ToSet, GateInv, QueueWaits, TypeOK, Caller
<1>2. writeWaiters \in Seq(Writer) /\ WriteQueue
  BY DEF GateInv, TypeOK, SessionInv
<1>3. \A c \in ToSet(writeWaiters) : c \in Caller /\ at[c] = "waiting"
  <2> SUFFICES ASSUME NEW i \in 1..Len(writeWaiters)
               PROVE  writeWaiters[i] \in Writer /\ at[writeWaiters[i]] = "waiting"
    BY <1>2 DEF ToSet, Caller
  <2>1. i = 1 /\ writeWaiters # <<>>
    BY <1>2 DEF WriteQueue
  <2> QED BY <1>2, <2>1 DEF WriteQueue
<1>4. writeWaiters # <<>> => Head(writeWaiters) \in Writer /\ at[Head(writeWaiters)] = "waiting"
  BY <1>2 DEF WriteQueue
<1> QED BY <1>1, <1>3, <1>4 DEF Waiting

\* #drain moves nobody but the caller that left and those it wakes.
LEMMA DrainMoves ==
  ASSUME GateInv, SessionInv, NEW c \in Caller, NEW place \in At, at[c] # "waiting",
         NEW n, NEW w, Drain(n, w, writeWaiters, Move(c, place))
  PROVE  /\ at'[c] = place /\ \A d \in Caller : d # c => Undisturbed(d)
         /\ writer' => w \/ \E v \in Writer : at'[v] = "resumed"
         /\ closed => at' = Move(c, place)
<1> DEFINE places == Move(c, place)
<1>1. /\ places \in [Caller -> At] /\ places[c] = place
      /\ \A d \in Caller : d # c => places[d] = at[d]
  BY MoveFacts DEF GateInv
<1>2. Drain(n, w, writeWaiters, places)
  OBVIOUS
<1>3. at'[c] = place /\ (\A d \in Caller : d # c => Undisturbed(d)) /\ (closed => at' = places)
      /\ (writer' => w \/ \E v \in Writer : at'[v] = "resumed")
  <2> HIDE DEF places
  <2>1. CASE closed \/ w \/ n > 0
    BY <1>1, <1>2, <2>1 DEF Drain, Undisturbed
  <2>2. CASE ~(closed \/ w \/ n > 0) /\ writeWaiters # <<>>
    <3>1. Head(writeWaiters) \in Writer /\ at[Head(writeWaiters)] = "waiting"
      BY <2>2, QueuedWait
    <3>2. at' = [places EXCEPT ![Head(writeWaiters)] = "resumed"]
      BY <1>2, <2>2 DEF Drain
    <3> QED BY <1>1, <2>2, <3>1, <3>2 DEF Undisturbed, Caller
  <2>3. CASE ~(closed \/ w \/ n > 0) /\ writeWaiters = <<>>
    <3>1. /\ at' = [d \in Caller |-> IF d \in ToSet(readWaiters) THEN "resumed" ELSE places[d]]
          /\ writer' = FALSE
      BY <1>2, <2>3 DEF Drain
    <3>2. \A d \in ToSet(readWaiters) : at[d] = "waiting"
      BY QueuedWait DEF Waiting
    <3> QED BY <1>1, <2>3, <3>1, <3>2 DEF Undisturbed
  <2> QED BY <2>1, <2>2, <2>3
<1> QED BY <1>3

\* The jobs of a reader.
LEMMA ReaderEffect ==
  ASSUME GateInv, SessionInv, NEW r \in Reader, AcquireRead(r) \/ ResumeRead(r) \/ ReleaseRead(r)
  PROVE  /\ closed' = closed /\ \A c \in Caller : c # r => Undisturbed(c)
         /\ writer' => writer \/ \E w \in Writer : at'[w] = "resumed"
<1>0. r \in Caller /\ {"rejected", "waiting", "inside", "done"} \subseteq At
  BY DEF Caller, At
<1>1. CASE ReleaseRead(r)
  BY <1>0, <1>1, DrainMoves DEF ReleaseRead
<1>2. CASE AcquireRead(r) \/ ResumeRead(r)
  <2>1. \E place \in {"rejected", "waiting", "inside"} : at' = Move(r, place)
    BY <1>2 DEF AcquireRead, ResumeRead
  <2>2. \A c \in Caller : c # r => at'[c] = at[c]
    BY <1>0, <2>1, MoveFacts DEF GateInv
  <2> QED BY <1>2, <2>2 DEF Undisturbed, AcquireRead, ResumeRead
<1> QED BY <1>1, <1>2

\* The jobs of a publication, and where they leave it.
LEMMA WriterEffect ==
  ASSUME GateInv, SessionInv, NEW w \in Writer, RunWrite(w) \/ ResumeWrite(w) \/ EndWrite(w)
  PROVE  /\ closed' = closed /\ \A c \in Caller : c # w => Undisturbed(c)
         /\ writer' => \/ writer /\ RunWrite(w)
                       \/ \E v \in Writer : at'[v] \in {"inside", "resumed"}
         /\ RunWrite(w) => /\ at[w] = "out" /\ at'[w] \in {"inside", "waiting", "rejected"}
                           /\ ~closed => at'[w] # "rejected"
         /\ ResumeWrite(w) => at[w] = "resumed" /\ at'[w] = IF closed THEN "rejected" ELSE "inside"
         /\ EndWrite(w) => at[w] = "inside" /\ at'[w] = "done"
<1>0. w \in Caller /\ {"rejected", "waiting", "inside", "done"} \subseteq At /\ aborted = {}
  BY DEF Caller, At, SessionInv
<1>1. CASE RunWrite(w)
  <2>1. PICK place \in {"rejected", "waiting", "inside"} :
          at' = Move(w, place) /\ (~closed => place # "rejected") /\ (writer' => writer \/ place = "inside")
    BY <1>0, <1>1 DEF RunWrite
  <2>2. at'[w] = place /\ \A c \in Caller : c # w => at'[c] = at[c]
    BY <1>0, <2>1, MoveFacts DEF GateInv
  <2>3. at[w] = "out" /\ closed' = closed
    BY <1>1 DEF RunWrite
  <2> QED BY <1>1, <2>1, <2>2, <2>3 DEF Undisturbed, ResumeWrite, EndWrite
<1>2. CASE ResumeWrite(w) /\ closed
  <2>1. Drain(readers, FALSE, writeWaiters, Move(w, "rejected")) /\ at[w] = "resumed"
        /\ closed' = closed
    BY <1>2 DEF ResumeWrite
  <2> QED BY <1>0, <1>2, <2>1, DrainMoves DEF RunWrite, EndWrite
<1>3. CASE ResumeWrite(w) /\ ~closed
  <2>1. at' = Move(w, "inside") /\ at[w] = "resumed" /\ closed' = closed
    BY <1>0, <1>3 DEF ResumeWrite
  <2>2. at'[w] = "inside" /\ \A c \in Caller : c # w => at'[c] = at[c]
    BY <1>0, <2>1, MoveFacts DEF GateInv
  <2> QED BY <1>3, <2>1, <2>2 DEF Undisturbed, RunWrite, EndWrite
<1>4. CASE EndWrite(w)
  <2>1. Drain(readers, FALSE, writeWaiters, Move(w, "done")) /\ at[w] = "inside"
        /\ closed' = closed
    BY <1>4 DEF EndWrite
  <2> QED BY <1>0, <1>4, <2>1, DrainMoves DEF RunWrite, ResumeWrite
<1> QED BY <1>1, <1>2, <1>3, <1>4

\* close only rejects who waits.
LEMMA CloseEffect ==
  ASSUME GateInv, SessionInv, Close
  PROVE  /\ closed' /\ writer' = writer
         /\ \A c \in Caller : at'[c] = at[c] \/ (at[c] = "waiting" /\ at'[c] = "rejected")
BY QueuedWait DEF Close
\* Publications that are over may be forgotten.
LEMMA OverIsOver ==
  ASSUME GateInv, SessionInv, NEW S \in SUBSET Writer, \A w \in S : at[w] \notin ActiveAt,
         at' = [c \in Caller |-> IF c \in S THEN "done" ELSE at[c]],
         UNCHANGED <<readers, writer, closed, readWaiters, writeWaiters, aborted, timer, serial>>
  PROVE  GateInv' /\ SessionInv'
<1>1. /\ \A r \in Reader : r \in Caller /\ at'[r] = at[r]
      /\ \A w \in Writer : w \in Caller /\ at'[w] \in {at[w], "done"}
      /\ \A w \in Writer : at[w] \in ActiveAt => at'[w] = at[w]
  BY CallersAssumption DEF Caller
<1>2. at' \in [Caller -> At]
  BY DEF GateInv, TypeOK, At
<1>3. TypeOK'
  BY <1>2 DEF GateInv, TypeOK
<1>4. InsideReaders' = InsideReaders
  BY <1>1 DEF InsideReaders
<1>5. ReadersCounted' /\ QueueWaits'
  <2>1. \A i \in 1..Len(readWaiters) : readWaiters[i] \in Reader
    BY DEF GateInv, TypeOK
  <2>2. QueueWaits'
    BY <1>1, <2>1 DEF GateInv, QueueWaits
  <2> QED BY <1>4, <2>2 DEF GateInv, ReadersCounted
<1>6. FlagIsHeld' /\ WritersExclusive'
  BY <1>1 DEF GateInv, FlagIsHeld, WritersExclusive
<1>7. OneRun' /\ TimerBetweenRuns' /\ ResumedMeansTimer' /\ FlagExcludes'
  BY <1>1 DEF SessionInv, OneRun, TimerBetweenRuns, ResumedMeansTimer, FlagExcludes, ActiveAt
<1>8. WriteQueue' /\ QueueBehindWriter'
  <2>1. writeWaiters # <<>> => writeWaiters[1] \in Writer
    BY DEF GateInv, TypeOK
  <2> QED BY <1>1, <2>1 DEF SessionInv, WriteQueue, QueueBehindWriter, ActiveAt
<1> QED BY <1>3, <1>5, <1>6, <1>7, <1>8 DEF GateInv, SessionInv
=============================================================================
