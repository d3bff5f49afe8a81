----------------------- MODULE AuthorityMigrationProofs -----------------------
(***************************************************************************)
(* Proofs about AuthorityMigration, for any number of generations, deaths, *)
(* older releases and starts of another entry.                             *)
(*                                                                         *)
(* The files alone do not say how far a migration is: each of the four may *)
(* be out of place, with its journal pending.  MigrationInv says what each *)
(* place of the session and each pending journal stands for, separately    *)
(* for a project with a receipt and one without.                           *)
(***************************************************************************)
EXTENDS AuthorityMigration, TLAPS

IsGen(x)     == x.kind = "generation"
IsReceipt(x) == x.kind = "receipt" /\ IsGen(x.of)

\* What a step publishes, whatever the generation.
IsNext(s, x) ==
  CASE s = "receipt" -> IsReceipt(x)
    [] s = "fence"   -> x = Fence
    [] s = "owner"   -> x = Entry("A")
    [] s = "marker"  -> IsGen(x)

IsPlan(x) == x.kind = "plan" /\ {"kind", "phase", "prior", "next"} \subseteq DOMAIN x

\* What may be in a file, on the stage and in a journal.
Records ==
  /\ DOMAIN file = Step /\ DOMAIN stage = Step /\ DOMAIN journal = Transaction
  /\ file["fence"] \in {None, Fence} \/ IsGen(file["fence"])
  /\ file["receipt"] = None \/ IsReceipt(file["receipt"])
  /\ file["owner"] \in {None, Entry("A"), Entry("B")}
  /\ file["marker"] = None \/ IsGen(file["marker"])
  /\ \A s \in Step : Pending(s) =>
       /\ IsNext(s, journal[s].next)
       /\ IF s = "fence" THEN IsGen(journal[s].prior) ELSE journal[s].prior = None
  /\ \A t \in Transaction : Pending(t) => IsPlan(journal[t])
  /\ Pending("build") =>
       IsGen(Build.next) /\ (Build.prior = None \/ IsGen(Build.prior))

\* The rename that is due, or was done last, says that the last file is in.
IsIn(t) ==
  Pending(t) /\ (journal[t].phase = "published" \/ (journal[t].phase = "publishing" /\ t \in half))

\* What a session does is its own work, and in the transaction of its place.
Own ==
  /\ doing \in {"none", "stage", "publish", "recover"}
  /\ doing = "stage" => pc \in Step /\ ~Pending(pc)
  /\ pc = "build" => doing = "publish"
  /\ doing = "publish" =>
       /\ pc \in Transaction
       /\ Pending(pc) => journal[pc].phase \in {"prepared", "publishing", "published"}
       /\ IsIn(pc) => file[Last(pc)] = journal[pc].next
       /\ pc \in Step /\ ~Pending(pc) => stage[pc] = Published(pc)
       /\ pc \in Step /\ Pending(pc) => stage[pc] = journal[pc].next \/ file[pc] = journal[pc].next
  /\ doing = "recover" => pc \in Step \cup {"recover"}
  /\ pc \in Step /\ doing = "recover" => Pending(pc)

\* The places of a session that has the directory.
Inside == {"recover", "ready", "build"}
Places == Step \cup Inside \cup {"idle", "read", "decide", "fenced", "claim"}

Guarded == file["fence"] = Fence /\ file["owner"] = Entry("A")

\* Before the receipt is there: a new project, or an old one that is not begun.
Unbegun ==
  ~Present("receipt") =>
    /\ file["fence"] # Fence
    /\ \A s \in Step \ {"receipt"} : ~Pending(s)
    /\ pc \notin {"decide", "fenced"} \cup (Step \ {"receipt"})
    /\ Present("fence") =>
         /\ ~Present("marker") /\ ~Present("owner") /\ ~Pending("build")
         /\ pc \in {"idle", "read", "receipt"}
    /\ ~Present("fence") => ~Pending("receipt") /\ pc # "receipt"

\* With the receipt: what is only reached behind the fence and the owner.
Begun ==
  Present("receipt") =>
    /\ Present("marker") \/ Pending("marker") \/ Pending("build") => Guarded
    /\ pc \in {"marker", "claim"} \cup Inside => Guarded
    /\ pc = "owner" \/ Pending("owner") => file["fence"] = Fence

\* Which entry has the directory.
Owned ==
  /\ pc \in Inside => file["owner"] = Entry("A")
  /\ accepted # None => Present("receipt") \/ Present("fence") \/ file["owner"] = Entry("A")
  /\ file["owner"] = Entry("B") =>
       accepted = None /\ ~Present("receipt") /\ ~Present("fence")

\* Where the generation that was accepted last is written down.
Recorded ==
  /\ IsGen(file["fence"]) => accepted = file["fence"]
  /\ ~IsGen(file["fence"]) =>
       accepted = IF Pending("build") THEN Build.prior
                  ELSE IF Present("marker") \/ ~Present("receipt") THEN file["marker"]
                  ELSE file["receipt"].of
  /\ Present("receipt") =>
       /\ accepted # None
       /\ Pending("fence") => journal["fence"].prior = file["receipt"].of
       /\ Pending("marker") => journal["marker"].next = file["receipt"].of
       /\ pc \in {"claim", "recover"} => Present("marker") \/ Pending("build")
  /\ pc = "ready" => ~Pending("build")
  /\ pc = "ready" \/ (pc = "build" /\ ~Pending("build")) => file["marker"] = accepted

MigrationInv == pc \in Places /\ Records /\ Own /\ Unbegun /\ Begun /\ Owned /\ Recorded

-----------------------------------------------------------------------------
\* Records of different kinds differ.
LEMMA Kinds ==
  /\ None.kind = "none" /\ Fence.kind = "fence" /\ Torn.kind = "torn"
  /\ \A g : Receipt(g).kind = "receipt" /\ Receipt(g).of = g
  /\ \A e : Entry(e).kind = "entry" /\ Entry(e).name = e
  /\ \A n, d : Gen(n, d).kind = "generation"
  /\ \A p, q : /\ Plan(p, q).kind = "plan" /\ Plan(p, q).phase = "prepared"
             /\ Plan(p, q).prior = p /\ Plan(p, q).next = q
  /\ \A p, q, d : /\ BuildPlan(p, q, d).kind = "plan" /\ BuildPlan(p, q, d).phase = "prepared"
                /\ BuildPlan(p, q, d).prior = p /\ BuildPlan(p, q, d).next = q
  /\ \A p, q, d : IsPlan(Plan(p, q)) /\ IsPlan(BuildPlan(p, q, d))
BY DEF None, Fence, Torn, Receipt, Entry, Gen, Plan, BuildPlan, IsPlan

\* What a step publishes is a file.
LEMMA NextIsPresent == \A s \in Step : \A x : IsNext(s, x) => x # None
<1> SUFFICES ASSUME NEW s \in Step, NEW x, IsNext(s, x) PROVE x # None
  OBVIOUS
<1>1. CASE s = "receipt"
  BY <1>1, Kinds DEF IsNext, IsReceipt
<1>2. CASE s = "fence"
  BY <1>2, Kinds DEF IsNext
<1>3. CASE s = "owner"
  BY <1>3, Kinds DEF IsNext
<1>4. CASE s = "marker"
  BY <1>4, Kinds DEF IsNext, IsGen
<1> QED BY <1>1, <1>2, <1>3, <1>4 DEF Step

\* A project before its first start: no file but the old marker.
LEMMA MigrationInit == Init => MigrationInv
<1> SUFFICES ASSUME Init PROVE MigrationInv
  OBVIOUS
<1>1. PICK old \in {None} \cup {Gen(0, d) : d \in Digest} :
        file = [receipt |-> None, fence |-> old, owner |-> None, marker |-> None] /\ accepted = old
  BY DEF Init
<1>2. /\ file["receipt"] = None /\ file["owner"] = None /\ file["marker"] = None
      /\ file["fence"] = old /\ DOMAIN file = Step
  BY <1>1 DEF Step
<1>3. old = None \/ IsGen(old)
  BY Kinds DEF IsGen
<1>4. \A s \in Step \cup {"build"} : ~Pending(s)
  BY DEF Init, Pending, Transaction
<1>5. Records
  BY <1>2, <1>3, <1>4 DEF Init, Records, Step, Transaction
<1> QED
  BY <1>1, <1>2, <1>3, <1>4, <1>5, Kinds
     DEF Init, MigrationInv, Own, IsIn, Transaction, Unbegun, Begun, Owned, Recorded, Places, Inside, Step, Present,
         IsGen

\* A rewritten journal is the same plan in another phase.
LEMMA NewPhase ==
  ASSUME Records, NEW t \in Transaction, Pending(t), NEW p,
         journal' = [journal EXCEPT ![t].phase = p]
  PROVE  /\ DOMAIN journal' = DOMAIN journal
         /\ \A u \in Transaction : u # t => journal'[u] = journal[u]
         /\ IsPlan(journal'[t]) /\ journal'[t].phase = p /\ journal'[t] # None
         /\ journal'[t].prior = journal[t].prior /\ journal'[t].next = journal[t].next
<1>1. DOMAIN journal = Transaction /\ IsPlan(journal[t])
  BY DEF Records
<1>2. /\ DOMAIN journal' = DOMAIN journal
      /\ \A u \in Transaction : u # t => journal'[u] = journal[u]
      /\ journal'[t] = [journal[t] EXCEPT !.phase = p]
  BY <1>1
<1>3. IsPlan(journal'[t]) /\ journal'[t].phase = p
  BY <1>1, <1>2 DEF IsPlan
<1>4. journal'[t].prior = journal[t].prior /\ journal'[t].next = journal[t].next
  BY <1>1, <1>2 DEF IsPlan
<1>5. journal'[t] # None
  BY <1>3, Kinds DEF IsPlan
<1> QED BY <1>2, <1>3, <1>4, <1>5

-----------------------------------------------------------------------------
(* recoverArtifacts.                                                       *)

\* A refusal changes no file.
LEMMA StepRefuses ==
  ASSUME MigrationInv, NEW why, Refuse(why)
  PROVE  MigrationInv'
<1> USE Kinds DEF Step, Transaction, Last, Place, Present, Pending, Build, IsGen, IsReceipt, IsNext,
            IsIn, Places, Inside
<1> USE DEF Refuse, durable, history
<1>1. pc' \in Places /\ Records'
  BY DEF MigrationInv, Records, Own
<1>2. Own'
  BY DEF MigrationInv, Records, Own
<1>3. Unbegun' /\ Begun'
  BY DEF MigrationInv, Records, Own, Unbegun, Begun, Guarded
<1>4. Owned'
  BY DEF MigrationInv, Records, Own, Unbegun, Begun, Guarded, Owned
<1>5. Recorded'
  BY DEF MigrationInv, Records, Own, Unbegun, Begun, Guarded, Owned, Recorded
<1> QED BY <1>1, <1>2, <1>3, <1>4, <1>5 DEF MigrationInv

\* The temporary file of a phase.
LEMMA RecoveryPersists ==
  ASSUME MigrationInv, NEW t \in Transaction, Persist(t)
  PROVE  MigrationInv'
<1> USE Kinds DEF Step, Transaction, Last, Place, Present, Pending, Build, IsGen, IsReceipt, IsNext,
            IsIn, Places, Inside
<1> USE DEF Persist, Reopened, history
<1>1. pc' \in Places /\ Records'
  BY DEF MigrationInv, Records, Own
<1>2. Own'
  BY DEF MigrationInv, Records, Own
<1>3. Unbegun' /\ Begun'
  BY DEF MigrationInv, Records, Own, Unbegun, Begun, Guarded
<1>4. Owned'
  BY DEF MigrationInv, Records, Own, Unbegun, Begun, Guarded, Owned
<1>5. Recorded'
  BY DEF MigrationInv, Records, Own, Unbegun, Begun, Guarded, Owned, Recorded
<1> QED BY <1>1, <1>2, <1>3, <1>4, <1>5 DEF MigrationInv

\* The rename that starts the way back.
LEMMA RecoveryRollsBack ==
  ASSUME MigrationInv, NEW t \in Transaction, RollBack(t)
  PROVE  MigrationInv'
<1> USE Kinds DEF Step, Transaction, Last, Place, Present, Pending, Build, IsGen, IsReceipt, IsNext,
            IsIn, Places, Inside
<1> USE DEF RollBack, Persisting, history
<1>0. /\ DOMAIN journal' = DOMAIN journal
      /\ \A u \in Transaction : u # t => journal'[u] = journal[u]
      /\ IsPlan(journal'[t]) /\ journal'[t] # None
      /\ journal'[t].prior = journal[t].prior /\ journal'[t].next = journal[t].next
      /\ journal'[t].phase = "rolling-back"
  <2>1. Records /\ Pending(t) /\ journal' = [journal EXCEPT ![t].phase = "rolling-back"]
    BY DEF MigrationInv
  <2> HIDE DEF RollBack, Persisting, Transaction, Pending
  <2> QED BY <2>1, NewPhase
<1>1. pc' \in Places /\ Records'
  BY <1>0 DEF MigrationInv, Records, Own
<1>2. Own'
  BY <1>0 DEF MigrationInv, Records, Own
<1>3. Unbegun' /\ Begun'
  BY <1>0 DEF MigrationInv, Records, Own, Unbegun, Begun, Guarded
<1>4. Owned'
  BY <1>0 DEF MigrationInv, Records, Own, Unbegun, Begun, Guarded, Owned
<1>5. Recorded'
  BY <1>0 DEF MigrationInv, Records, Own, Unbegun, Begun, Guarded, Owned, Recorded
<1> QED BY <1>1, <1>2, <1>3, <1>4, <1>5 DEF MigrationInv

\* The old file comes back.
LEMMA RecoveryRestores ==
  ASSUME MigrationInv, NEW t \in Transaction, Restore(t)
  PROVE  MigrationInv'
<1> USE Kinds DEF Step, Transaction, Last, Place, Present, Pending, Build, IsGen, IsReceipt, IsNext,
            IsIn, Places, Inside
<1> USE DEF Restore, Rolling, Reopened, history
<1>1. pc' \in Places /\ Records'
  BY DEF MigrationInv, Records, Own
<1>2. Own'
  BY DEF MigrationInv, Records, Own
<1>3. Unbegun' /\ Begun'
  BY DEF MigrationInv, Records, Own, Unbegun, Begun, Guarded
<1>4. Owned'
  BY DEF MigrationInv, Records, Own, Unbegun, Begun, Guarded, Owned
<1>5. Recorded'
  BY DEF MigrationInv, Records, Own, Unbegun, Begun, Guarded, Owned, Recorded
<1> QED BY <1>1, <1>2, <1>3, <1>4, <1>5 DEF MigrationInv

\* The old tree comes back.
LEMMA RecoveryRestoresTree ==
  ASSUME MigrationInv, RestoreTree
  PROVE  MigrationInv'
<1> USE Kinds DEF Step, Transaction, Last, Place, Present, Pending, Build, IsGen, IsReceipt, IsNext,
            IsIn, Places, Inside
<1> USE DEF RestoreTree, Reopened, history
<1>1. pc' \in Places /\ Records'
  BY DEF MigrationInv, Records, Own
<1>2. Own'
  BY DEF MigrationInv, Records, Own
<1>3. Unbegun' /\ Begun'
  BY DEF MigrationInv, Records, Own, Unbegun, Begun, Guarded
<1>4. Owned'
  BY DEF MigrationInv, Records, Own, Unbegun, Begun, Guarded, Owned
<1>5. Recorded'
  BY DEF MigrationInv, Records, Own, Unbegun, Begun, Guarded, Owned, Recorded
<1> QED BY <1>1, <1>2, <1>3, <1>4, <1>5 DEF MigrationInv

\* The journal goes.
LEMMA RecoveryEnds ==
  ASSUME MigrationInv, NEW s \in Step, RecoverEnds(s)
  PROVE  MigrationInv'
<1> USE Kinds DEF Step, Transaction, Last, Place, Present, Pending, Build, IsGen, IsReceipt, IsNext,
            IsIn, Places, Inside
<1> USE DEF RecoverEnds, Persisting, Settled, Intended, Undone, history
<1>1. pc' \in Places /\ Records'
  BY DEF MigrationInv, Records, Own
<1>2. Own'
  BY DEF MigrationInv, Records, Own
<1>3. Unbegun' /\ Begun'
  BY DEF MigrationInv, Records, Own, Unbegun, Begun, Guarded
<1>4. Owned'
  BY DEF MigrationInv, Records, Own, Unbegun, Begun, Guarded, Owned
<1>5. Recorded'
  BY DEF MigrationInv, Records, Own, Unbegun, Begun, Guarded, Owned, Recorded
<1> QED BY <1>1, <1>2, <1>3, <1>4, <1>5 DEF MigrationInv

-----------------------------------------------------------------------------
(* publishStep and publishArtifacts.                                       *)

\* A step that was completed before.
LEMMA StepDone ==
  ASSUME MigrationInv, NEW s \in Step, Done(s)
  PROVE  MigrationInv'
<1> USE Kinds DEF Step, Transaction, Last, Place, Present, Pending, Build, IsGen, IsReceipt, IsNext,
            IsIn, Places, Inside
<1> USE DEF Done, Fresh, IsDone, Published, After, Go, history
<1>1. pc' \in Places /\ Records'
  BY DEF MigrationInv, Records, Own
<1>2. Own'
  BY DEF MigrationInv, Records, Own
<1>3. Unbegun' /\ Begun'
  BY DEF MigrationInv, Records, Own, Unbegun, Begun, Guarded
<1>4. Owned'
  BY DEF MigrationInv, Records, Own, Unbegun, Begun, Guarded, Owned
<1>5. Recorded'
  <2>1. UNCHANGED <<file, journal, accepted>>
    OBVIOUS
  <2>2. pc' \in {"decide", "fenced", "marker", "claim"} /\ (pc' = "claim" => s = "marker")
    OBVIOUS
  <2>3. s = "marker" => Present("marker")
    <3>1. s = "marker" => Present("receipt") /\ file["marker"] = file["receipt"].of
      BY DEF MigrationInv, Unbegun, Basis
    <3> QED BY <3>1 DEF MigrationInv, Records
  <2> HIDE DEF Done
  <2> QED BY <2>1, <2>2, <2>3 DEF MigrationInv, Recorded
<1> QED BY <1>1, <1>2, <1>3, <1>4, <1>5 DEF MigrationInv

\* The new bytes are staged, and the lock is taken.
LEMMA StepStages ==
  ASSUME MigrationInv, NEW s \in Step, Create(s) \/ Write(s) \/ Lock(s)
  PROVE  MigrationInv'
<1> USE Kinds DEF Step, Transaction, Last, Place, Present, Pending, Build, IsGen, IsReceipt, IsNext,
            IsIn, Places, Inside
<1> USE DEF Create, Write, Lock, Fresh, history
<1>1. pc' \in Places /\ Records'
  BY DEF MigrationInv, Records, Own
<1>2. Own'
  <2>1. CASE Create(s)
    BY <2>1 DEF MigrationInv, Records, Own
  <2>2. CASE Write(s)
    BY <2>2 DEF MigrationInv, Records, Own
  <2>3. CASE Lock(s)
    <3>1. UNCHANGED <<file, stage, journal, pc>> /\ Published(s)' = Published(s)
      BY <2>3 DEF Published, Basis
    <3> QED BY <2>3, <3>1 DEF MigrationInv, Own
  <2> QED BY <2>1, <2>2, <2>3
<1>3. Unbegun' /\ Begun'
  BY DEF MigrationInv, Records, Own, Unbegun, Begun, Guarded
<1>4. Owned'
  BY DEF MigrationInv, Records, Own, Unbegun, Begun, Guarded, Owned
<1>5. Recorded'
  BY DEF MigrationInv, Records, Own, Unbegun, Begun, Guarded, Owned, Recorded
<1> QED BY <1>1, <1>2, <1>3, <1>4, <1>5 DEF MigrationInv

\* The journal becomes durable.
LEMMA StepBegins ==
  ASSUME MigrationInv, NEW s \in Step, Begin(s)
  PROVE  MigrationInv'
<1> USE Kinds DEF Step, Transaction, Last, Place, Present, Pending, Build, IsGen, IsReceipt, IsNext,
            IsIn, Places, Inside
<1> USE DEF Begin, Publishes, history
<1>0. IsGen(Basis)
  BY DEF MigrationInv, Records, Unbegun, Basis
<1>1. pc' \in Places /\ Records'
  <2>1. IsNext(s, Published(s)) /\ Published(s) # None
    <3>1. CASE s = "receipt"
      BY <1>0, <3>1 DEF Published
    <3>2. CASE s = "fence"
      BY <3>2 DEF Published
    <3>3. CASE s = "owner"
      BY <3>3 DEF Published
    <3>4. CASE s = "marker"
      BY <1>0, <3>4 DEF Published
    <3> QED BY <3>1, <3>2, <3>3, <3>4
  <2>2. IF s = "fence" THEN IsGen(Prior(s)) ELSE Prior(s) = None
    BY <1>0 DEF Prior
  <2>3. /\ DOMAIN journal' = DOMAIN journal
        /\ \A t \in DOMAIN journal :
             journal'[t] = IF t = s THEN Plan(Prior(s), Published(s)) ELSE journal[t]
    BY DEF MigrationInv, Records
  <2>4. journal'[s].prior = Prior(s) /\ journal'[s].next = Published(s)
    BY <2>3 DEF MigrationInv, Records
  <2> HIDE Kinds DEF Begin, IsNext, IsGen, IsReceipt, Step, Places
  <2>5. ASSUME NEW t \in Step, Pending(t)'
        PROVE  /\ IsNext(t, journal'[t].next)
               /\ IF t = "fence" THEN IsGen(journal'[t].prior) ELSE journal'[t].prior = None
    <3>1. CASE t = s
      BY <2>1, <2>2, <2>4, <3>1
    <3>2. CASE t # s
      <4>1. t \in DOMAIN journal /\ journal'[t] = journal[t]
        BY <2>3, <3>2 DEF MigrationInv, Records
      <4> QED BY <2>5, <4>1 DEF MigrationInv, Records
    <3> QED BY <3>1, <3>2
  <2>8. \A t \in Transaction : Pending(t)' => IsPlan(journal'[t])
    <3>1. IsPlan(journal'[s])
      BY <2>3, Kinds DEF MigrationInv, Records, Transaction
    <3> QED BY <2>3, <3>1 DEF MigrationInv, Records
  <2>6. journal'["build"] = journal["build"]
    BY <2>3 DEF MigrationInv, Records, Step, Transaction
  <2>7. UNCHANGED <<file, stage, pc>>
    BY DEF Begin
  <2> QED
    BY <2>3, <2>5, <2>6, <2>7, <2>8 DEF MigrationInv, Records
<1>2. Own'
  BY DEF MigrationInv, Records, Own
<1>3. Unbegun' /\ Begun'
  BY DEF MigrationInv, Records, Own, Unbegun, Begun, Guarded
<1>4. Owned'
  BY DEF MigrationInv, Records, Own, Unbegun, Begun, Guarded, Owned
<1>5. Recorded'
  <2>1. journal'["build"] = journal["build"]
    BY DEF MigrationInv, Records
  <2>2. \A t \in Step : t # s => journal'[t] = journal[t]
    BY DEF MigrationInv, Records
  <2>3. journal'[s].prior = Prior(s) /\ journal'[s].next = Published(s)
    BY DEF MigrationInv, Records
  <2>4. Present("receipt") => Basis = file["receipt"].of
    BY DEF Basis
  <2>5. Present("receipt") =>
          /\ Pending("fence")' => journal'["fence"].prior = file["receipt"].of
          /\ Pending("marker")' => journal'["marker"].next = file["receipt"].of
    BY <2>2, <2>3, <2>4 DEF MigrationInv, Recorded, Prior, Published
  <2>6. UNCHANGED <<file, pc, accepted>> /\ pc \in Step
    OBVIOUS
  <2> HIDE DEF Begin
  <2> QED BY <2>1, <2>5, <2>6 DEF MigrationInv, Recorded
<1> QED BY <1>1, <1>2, <1>3, <1>4, <1>5 DEF MigrationInv

\* The temporary file of the next phase.
LEMMA PhaseDrafted ==
  ASSUME MigrationInv, NEW t \in Transaction, Draft(t)
  PROVE  MigrationInv'
<1> USE Kinds DEF Step, Transaction, Last, Place, Present, Pending, Build, IsGen, IsReceipt, IsNext,
            IsIn, Places, Inside
<1> USE DEF Draft, Publishes, history
<1>1. pc' \in Places /\ Records'
  BY DEF MigrationInv, Records, Own
<1>2. Own'
  BY DEF MigrationInv, Records, Own
<1>3. Unbegun' /\ Begun'
  BY DEF MigrationInv, Records, Own, Unbegun, Begun, Guarded
<1>4. Owned'
  BY DEF MigrationInv, Records, Own, Unbegun, Begun, Guarded, Owned
<1>5. Recorded'
  BY DEF MigrationInv, Records, Own, Unbegun, Begun, Guarded, Owned, Recorded
<1> QED BY <1>1, <1>2, <1>3, <1>4, <1>5 DEF MigrationInv

\* Its rename.
LEMMA PhaseUpdated ==
  ASSUME MigrationInv, NEW t \in Transaction, Update(t)
  PROVE  MigrationInv'
<1> USE Kinds DEF Step, Transaction, Last, Place, Present, Pending, Build, IsGen, IsReceipt, IsNext,
            IsIn, Places, Inside
<1> USE DEF Update, Publishes, history
<1>0. /\ DOMAIN journal' = DOMAIN journal
      /\ \A u \in Transaction : u # t => journal'[u] = journal[u]
      /\ IsPlan(journal'[t]) /\ journal'[t] # None
      /\ journal'[t].prior = journal[t].prior /\ journal'[t].next = journal[t].next
      /\ journal'[t].phase = IF journal[t].phase = "prepared" THEN "publishing" ELSE "published"
  <2> DEFINE p == IF journal[t].phase = "prepared" THEN "publishing" ELSE "published"
  <2>1. Records /\ Pending(t) /\ journal' = [journal EXCEPT ![t].phase = p]
    BY DEF MigrationInv
  <2> HIDE DEF p, Update, Publishes, Transaction, Pending
  <2>2. /\ DOMAIN journal' = DOMAIN journal
        /\ \A u \in Transaction : u # t => journal'[u] = journal[u]
        /\ IsPlan(journal'[t]) /\ journal'[t] # None
        /\ journal'[t].prior = journal[t].prior /\ journal'[t].next = journal[t].next
        /\ journal'[t].phase = p
    BY <2>1, NewPhase
  <2> QED BY <2>2 DEF p
<1>1. pc' \in Places /\ Records'
  BY <1>0 DEF MigrationInv, Records, Own
<1>2. Own'
  <2>1. pc = t /\ doing = "publish" /\ Pending(t) /\ IsIn(t)' => file[Last(t)] = journal[t].next
    BY <1>0 DEF MigrationInv, Own
  <2> QED BY <1>0, <2>1 DEF MigrationInv, Own
<1>3. Unbegun' /\ Begun'
  BY <1>0 DEF MigrationInv, Records, Own, Unbegun, Begun, Guarded
<1>4. Owned'
  BY <1>0 DEF MigrationInv, Records, Own, Unbegun, Begun, Guarded, Owned
<1>5. Recorded'
  BY <1>0 DEF MigrationInv, Records, Own, Unbegun, Begun, Guarded, Owned, Recorded
<1> QED BY <1>1, <1>2, <1>3, <1>4, <1>5 DEF MigrationInv

\* The old file leaves.
LEMMA FileMovesOut ==
  ASSUME MigrationInv, NEW t \in Transaction, MoveOut(t)
  PROVE  MigrationInv'
<1> USE Kinds DEF Step, Transaction, Last, Place, Present, Pending, Build, IsGen, IsReceipt, IsNext,
            IsIn, Places, Inside
<1> USE DEF MoveOut, Moves, Publishes, history
<1>1. pc' \in Places /\ Records'
  BY DEF MigrationInv, Records, Own
<1>2. Own'
  <2>1. ~IsIn(t)
    OBVIOUS
  <2> QED BY <2>1 DEF MigrationInv, Records, Own
<1>3. Unbegun' /\ Begun'
  BY DEF MigrationInv, Records, Own, Unbegun, Begun, Guarded
<1>4. Owned'
  BY DEF MigrationInv, Records, Own, Unbegun, Begun, Guarded, Owned
<1>5. Recorded'
  BY DEF MigrationInv, Records, Own, Unbegun, Begun, Guarded, Owned, Recorded
<1> QED BY <1>1, <1>2, <1>3, <1>4, <1>5 DEF MigrationInv

\* The new one takes its place.
LEMMA FileMovesIn ==
  ASSUME MigrationInv, NEW t \in Transaction, MoveIn(t)
  PROVE  MigrationInv'
<1> USE Kinds DEF Step, Transaction, Last, Place, Present, Pending, Build, IsGen, IsReceipt, IsNext,
            IsIn, Places, Inside
<1> USE DEF MoveIn, Moves, Publishes, history
<1>0. IsNext(Last(t), journal[t].next) /\ file'[Last(t)] = journal[t].next
  <2>1. CASE t = "build"
    BY <2>1 DEF MigrationInv, Records, Own
  <2>2. CASE t \in Step
    <3>1. IsNext(t, journal[t].next)
      BY <2>2 DEF MigrationInv, Records
    <3>2. journal[t].next # None
      BY <2>2, <3>1, NextIsPresent
    <3>3. stage[t] = journal[t].next
      BY <2>2, <3>2 DEF MigrationInv, Own
    <3>4. t \in DOMAIN file /\ t # "build"
      BY <2>2 DEF MigrationInv, Records
    <3> QED BY <3>1, <3>3, <3>4
  <2> QED BY <2>1, <2>2
<1>1. pc' \in Places /\ Records'
  BY <1>0 DEF MigrationInv, Records, Own
<1>2. Own'
  BY <1>0 DEF MigrationInv, Records, Own
<1>3. Unbegun' /\ Begun'
  BY <1>0 DEF MigrationInv, Records, Own, Unbegun, Begun, Guarded
<1>4. Owned'
  BY <1>0 DEF MigrationInv, Records, Own, Unbegun, Begun, Guarded, Owned
<1>5. Recorded'
  BY <1>0 DEF MigrationInv, Records, Own, Unbegun, Begun, Guarded, Owned, Recorded
<1> QED BY <1>1, <1>2, <1>3, <1>4, <1>5 DEF MigrationInv

\* The tree is published.
LEMMA TreeMoves ==
  ASSUME MigrationInv, PublishTree
  PROVE  MigrationInv'
<1> USE Kinds DEF Step, Transaction, Last, Place, Present, Pending, Build, IsGen, IsReceipt, IsNext,
            IsIn, Places, Inside
<1> USE DEF PublishTree, Moves, Publishes, history
<1>1. pc' \in Places /\ Records'
  BY DEF MigrationInv, Records, Own
<1>2. Own'
  BY DEF MigrationInv, Records, Own
<1>3. Unbegun' /\ Begun'
  BY DEF MigrationInv, Records, Own, Unbegun, Begun, Guarded
<1>4. Owned'
  BY DEF MigrationInv, Records, Own, Unbegun, Begun, Guarded, Owned
<1>5. Recorded'
  BY DEF MigrationInv, Records, Own, Unbegun, Begun, Guarded, Owned, Recorded
<1> QED BY <1>1, <1>2, <1>3, <1>4, <1>5 DEF MigrationInv

\* The journal goes.
LEMMA StepFinishes ==
  ASSUME MigrationInv, NEW s \in Step, Finish(s)
  PROVE  MigrationInv'
<1> USE Kinds DEF Step, Transaction, Last, Place, Present, Pending, Build, IsGen, IsReceipt, IsNext,
            IsIn, Places, Inside
<1> USE DEF Finish, Decided, Publishes, After
<1>1. pc' \in Places /\ Records'
  BY DEF MigrationInv, Records, Own
<1>2. Own'
  BY DEF MigrationInv, Records, Own
<1>3. Unbegun' /\ Begun'
  BY DEF MigrationInv, Records, Own, Unbegun, Begun, Guarded
<1>4. Owned'
  BY DEF MigrationInv, Records, Own, Unbegun, Begun, Guarded, Owned
<1>5. Recorded'
  BY DEF MigrationInv, Records, Own, Unbegun, Begun, Guarded, Owned, Recorded
<1> QED BY <1>1, <1>2, <1>3, <1>4, <1>5 DEF MigrationInv

-----------------------------------------------------------------------------
(* The way between the steps, the session and what else runs.              *)

\* The start reads the files and decides where to begin.
LEMMA StartDecides ==
  ASSUME MigrationInv,
         Start \/ Read \/ Fenced \/ \E next \in {FirstChange, "claim"} : Decide(next)
  PROVE  MigrationInv'
<1> USE Kinds DEF Step, Transaction, Last, Place, Present, Pending, Build, IsGen, IsReceipt, IsNext,
            IsIn, Places, Inside
<1> USE DEF Start, Read, Doubt, Fenced, Decide, Resumes, Upgrades, FirstChange,
            Guarded, Go, durable, history
<1>1. pc' \in Places /\ Records'
  BY DEF MigrationInv, Records, Own
<1>2. Own'
  <2>1. doing' = "none" /\ pc' # "build"
    BY DEF MigrationInv, Own
  <2> QED BY <2>1 DEF Own
<1>3. Unbegun' /\ Begun'
  BY DEF MigrationInv, Records, Own, Unbegun, Begun, Guarded
<1>4. Owned'
  BY DEF MigrationInv, Records, Own, Unbegun, Begun, Guarded, Owned
<1>5. Recorded'
  BY DEF MigrationInv, Records, Own, Unbegun, Begun, Guarded, Owned, Recorded
<1> QED BY <1>1, <1>2, <1>3, <1>4, <1>5 DEF MigrationInv

\* The first entry to come gets the directory.
LEMMA SessionClaims ==
  ASSUME MigrationInv, Claim
  PROVE  MigrationInv'
<1> USE Kinds DEF Step, Transaction, Last, Place, Present, Pending, Build, IsGen, IsReceipt, IsNext,
            IsIn, Places, Inside
<1> USE DEF Claim, Go, history
<1>1. pc' \in Places /\ Records'
  BY DEF MigrationInv, Records, Own
<1>2. Own'
  BY DEF MigrationInv, Records, Own
<1>3. Unbegun' /\ Begun'
  BY DEF MigrationInv, Records, Own, Unbegun, Begun, Guarded
<1>4. Owned'
  BY DEF MigrationInv, Records, Own, Unbegun, Begun, Guarded, Owned
<1>5. Recorded'
  BY DEF MigrationInv, Records, Own, Unbegun, Begun, Guarded, Owned, Recorded
<1> QED BY <1>1, <1>2, <1>3, <1>4, <1>5 DEF MigrationInv

\* A session comes up.
LEMMA SessionReady ==
  ASSUME MigrationInv, NothingPending
  PROVE  MigrationInv'
<1> USE Kinds DEF Step, Transaction, Last, Place, Present, Pending, Build, IsGen, IsReceipt, IsNext,
            IsIn, Places, Inside
<1> USE DEF NothingPending, durable, history
<1>1. pc' \in Places /\ Records'
  BY DEF MigrationInv, Records, Own
<1>2. Own'
  BY DEF MigrationInv, Records, Own
<1>3. Unbegun' /\ Begun'
  BY DEF MigrationInv, Records, Own, Unbegun, Begun, Guarded
<1>4. Owned'
  BY DEF MigrationInv, Records, Own, Unbegun, Begun, Guarded, Owned
<1>5. Recorded'
  BY DEF MigrationInv, Records, Own, Unbegun, Begun, Guarded, Owned, Recorded
<1> QED BY <1>1, <1>2, <1>3, <1>4, <1>5 DEF MigrationInv

\* A build is finished or undone by its recovery.
LEMMA SessionRecovers ==
  ASSUME MigrationInv, BuildRecovered
  PROVE  MigrationInv'
<1> USE Kinds DEF Step, Transaction, Last, Place, Present, Pending, Build, IsGen, IsReceipt, IsNext,
            IsIn, Places, Inside
<1> USE DEF BuildRecovered, Persisting, Settled, Intended, Undone, history
<1>1. pc' \in Places /\ Records'
  BY DEF MigrationInv, Records, Own
<1>2. Own'
  BY DEF MigrationInv, Records, Own
<1>3. Unbegun' /\ Begun'
  BY DEF MigrationInv, Records, Own, Unbegun, Begun, Guarded
<1>4. Owned'
  BY DEF MigrationInv, Records, Own, Unbegun, Begun, Guarded, Owned
<1>5. Recorded'
  <2>1. ~IsGen(file["fence"])
    BY DEF MigrationInv, Records, Unbegun, Begun, Guarded
  <2>2. /\ journal'["build"] = None /\ (\A s \in Step : journal'[s] = journal[s])
        /\ UNCHANGED file /\ pc' = "ready"
    BY DEF MigrationInv, Records
  <2>3. accepted' = file["marker"]
    BY <2>1 DEF MigrationInv, Records, Recorded
  <2>4. Present("marker") \/ ~Present("receipt")
    <3>1. Present("receipt") => accepted # None /\ Build.next # None
      BY DEF MigrationInv, Records, Recorded
    <3>2. accepted' \in {accepted, Build.next}
      OBVIOUS
    <3> QED BY <2>3, <3>1, <3>2
  <2>5. Present("receipt") => accepted' # None
    BY <2>3, <2>4
  <2> HIDE DEF BuildRecovered
  <2> QED BY <2>1, <2>2, <2>3, <2>4, <2>5 DEF MigrationInv, Recorded
<1> QED BY <1>1, <1>2, <1>3, <1>4, <1>5 DEF MigrationInv

\* A build takes the lock.
LEMMA BuildLocks ==
  ASSUME MigrationInv, LockBuild
  PROVE  MigrationInv'
<1> USE Kinds DEF Step, Transaction, Last, Place, Present, Pending, Build, IsGen, IsReceipt, IsNext,
            IsIn, Places, Inside
<1> USE DEF LockBuild, durable
<1>1. pc' \in Places /\ Records'
  BY DEF MigrationInv, Records, Own
<1>2. Own'
  BY DEF MigrationInv, Own, Recorded
<1>3. Unbegun' /\ Begun'
  BY DEF MigrationInv, Records, Own, Unbegun, Begun, Guarded
<1>4. Owned'
  BY DEF MigrationInv, Records, Own, Unbegun, Begun, Guarded, Owned
<1>5. Recorded'
  BY DEF MigrationInv, Records, Own, Unbegun, Begun, Guarded, Owned, Recorded
<1> QED BY <1>1, <1>2, <1>3, <1>4, <1>5 DEF MigrationInv

\* The journal of a build becomes durable.
LEMMA BuildBegins ==
  ASSUME MigrationInv, NEW d \in Digest, BeginBuild(d)
  PROVE  MigrationInv'
<1> USE Kinds DEF Step, Transaction, Last, Place, Present, Pending, Build, IsGen, IsReceipt, IsNext,
            IsIn, Places, Inside
<1> USE DEF BeginBuild, Publishes, history
<1>0. /\ IsGen(journal'["build"].next) /\ journal'["build"].prior = file["marker"]
      /\ journal'["build"].phase = "prepared"
      /\ IsPlan(journal'["build"]) /\ journal'["build"] # None /\ DOMAIN journal' = DOMAIN journal
      /\ \A s \in Step : journal'[s] = journal[s]
  BY DEF MigrationInv, Records, IsPlan
<1>1. pc' \in Places /\ Records'
  BY <1>0 DEF MigrationInv, Records, Own
<1>2. Own'
  BY <1>0 DEF MigrationInv, Records, Own
<1>3. Unbegun' /\ Begun'
  BY <1>0 DEF MigrationInv, Records, Own, Unbegun, Begun, Guarded
<1>4. Owned'
  BY <1>0 DEF MigrationInv, Records, Own, Unbegun, Begun, Guarded, Owned
<1>5. Recorded'
  BY <1>0 DEF MigrationInv, Records, Own, Unbegun, Begun, Guarded, Owned, Recorded
<1> QED BY <1>1, <1>2, <1>3, <1>4, <1>5 DEF MigrationInv

\* A build is accepted.
LEMMA BuildCommits ==
  ASSUME MigrationInv, CommitBuild
  PROVE  MigrationInv'
<1> USE Kinds DEF Step, Transaction, Last, Place, Present, Pending, Build, IsGen, IsReceipt, IsNext,
            IsIn, Places, Inside
<1> USE DEF CommitBuild, Decided, Publishes, durable
<1>1. pc' \in Places /\ Records'
  BY DEF MigrationInv, Records, Own
<1>2. Own'
  BY DEF MigrationInv, Records, Own
<1>3. Unbegun' /\ Begun'
  BY DEF MigrationInv, Records, Own, Unbegun, Begun, Guarded
<1>4. Owned'
  BY DEF MigrationInv, Records, Own, Unbegun, Begun, Guarded, Owned
<1>5. Recorded'
  BY DEF MigrationInv, Records, Own, Unbegun, Begun, Guarded, Owned, Recorded
<1> QED BY <1>1, <1>2, <1>3, <1>4, <1>5 DEF MigrationInv

\* The session ends or dies, an older release builds, another entry starts.
LEMMA OthersStep ==
  ASSUME MigrationInv, Close \/ Crash \/ OtherEntry \/ \E d \in Digest : OldClient(d)
  PROVE  MigrationInv'
<1> USE Kinds DEF Step, Transaction, Last, Place, Present, Pending, Build, IsGen, IsReceipt, IsNext,
            IsIn, Places, Inside
<1> USE DEF Close, Crash, OtherEntry, Unclaimed, OldClient, durable, history
<1>1. pc' \in Places /\ Records'
  BY DEF MigrationInv, Records, Own
<1>2. Own'
  <2>1. doing' = "none" /\ pc' # "build"
    BY DEF MigrationInv, Own
  <2> QED BY <2>1 DEF Own
<1>3. Unbegun' /\ Begun'
  BY DEF MigrationInv, Records, Own, Unbegun, Begun, Guarded
<1>4. Owned'
  BY DEF MigrationInv, Records, Own, Unbegun, Begun, Guarded, Owned
<1>5. Recorded'
  BY DEF MigrationInv, Records, Own, Unbegun, Begun, Guarded, Owned, Recorded
<1> QED BY <1>1, <1>2, <1>3, <1>4, <1>5 DEF MigrationInv

\* Every step keeps the invariant.
LEMMA MigrationStep == MigrationInv /\ [Next]_vars => MigrationInv'
<1> SUFFICES ASSUME MigrationInv, [Next]_vars PROVE MigrationInv'
  OBVIOUS
<1>1. ASSUME NEW t \in Transaction, Recover(t) PROVE MigrationInv'
  BY <1>1, StepRefuses, RecoveryPersists, RecoveryRollsBack, RecoveryRestores
     DEF Recover, RecoverRefuses, RecoverConflicts
<1>2. ASSUME NEW t \in Transaction, Publish(t) PROVE MigrationInv'
  BY <1>2, PhaseDrafted, PhaseUpdated, FileMovesOut, FileMovesIn DEF Publish
<1>3. ASSUME NEW s \in Step, PublishStep(s) PROVE MigrationInv'
  BY <1>3, RecoveryEnds, StepRefuses, StepDone, StepStages, StepBegins, StepFinishes
     DEF PublishStep, Contradicts, StageDiffers
<1>4. CASE ReadRefuses \/ DecideRefuses \/ ClaimRefuses
  BY <1>4, StepRefuses DEF ReadRefuses, DecideRefuses, ClaimRefuses
<1>5. CASE Start \/ Read \/ Fenced \/ \E next \in {FirstChange, "claim"} : Decide(next)
  BY <1>5, StartDecides
<1>6. CASE Claim \/ RestoreTree \/ NothingPending \/ BuildRecovered
  BY <1>6, SessionClaims, RecoveryRestoresTree, SessionReady, SessionRecovers
<1>7. CASE LockBuild \/ (\E d \in Digest : BeginBuild(d)) \/ PublishTree \/ CommitBuild
  BY <1>7, BuildLocks, BuildBegins, TreeMoves, BuildCommits
<1>8. CASE Close \/ Crash \/ OtherEntry \/ \E d \in Digest : OldClient(d)
  BY <1>8, OthersStep
<1>9. CASE UNCHANGED vars
  <2> USE <1>9 DEF vars, Present, Pending, Build
  <2>1. pc' \in Places /\ Records'
    BY DEF MigrationInv, Records
  <2>2. Own'
    BY DEF MigrationInv, Own, IsIn, Published, Basis
  <2>3. Unbegun' /\ Begun' /\ Owned' /\ Recorded'
    BY DEF MigrationInv, Unbegun, Begun, Guarded, Owned, Recorded
  <2> QED BY <2>1, <2>2, <2>3 DEF MigrationInv
<1> QED
  BY <1>1, <1>2, <1>3, <1>4, <1>5, <1>6, <1>7, <1>8, <1>9 DEF Next, Session

\* The inductive invariant of the migration.
THEOREM MigrationInvariant == Spec => []MigrationInv
BY MigrationInit, MigrationStep, PTL DEF Spec

\* A root marker that replaced an old one stands behind the fence and the owner,
\* wherever establishSessionAuthority was stopped.
THEOREM MarkersAreFenced == Spec => []FencedBeforeMarked
<1>1. MigrationInv => FencedBeforeMarked
  BY DEF MigrationInv, Begun, Guarded, FencedBeforeMarked
<1> QED BY <1>1, MigrationInvariant, PTL

\* Another entry never gets the directory of an accepted generation.
THEOREM DirectoriesHaveOneEntry == Spec => []OneEntryPerRoot
<1>1. MigrationInv => OneEntryPerRoot
  BY DEF MigrationInv, Owned, OneEntryPerRoot
<1> QED BY <1>1, MigrationInvariant, PTL

\* The generation that was accepted last is in a marker, in the receipt or in a
\* journal, wherever the process dies.
THEOREM AcceptedGenerationsSurvive == Spec => []AcceptedIsRecorded
<1>1. MigrationInv => AcceptedIsRecorded
  BY Kinds DEF MigrationInv, Records, Unbegun, Recorded, AcceptedIsRecorded, Step,
     Transaction, Present, Pending, Build, IsGen
<1> QED BY <1>1, MigrationInvariant, PTL

\* A session that comes up resumes the generation that was accepted last.
THEOREM SessionsResumeAccepted == Spec => []ResumesAccepted
<1>1. MigrationInv => ResumesAccepted
  BY DEF MigrationInv, Recorded, ResumesAccepted
<1> QED BY <1>1, MigrationInvariant, PTL
==============================================================================
