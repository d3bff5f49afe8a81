--------------------------- MODULE DependencyPlan ---------------------------
(***************************************************************************)
(* src/genes/DependencyPlan.hx and Dependencies.hx: how the imports of one *)
(* generated module are planned.  The builder hands over one edge after    *)
(* the other, in the order in which the typed source mentions them, and    *)
(* each projection of the plan decides which declarations it needs, in     *)
(* which order, and what every imported binding is called locally.         *)
(*                                                                         *)
(* The code runs a projection over the whole list of edges; here all       *)
(* projections take the same edge in the same step.  A word is a tuple: w  *)
(* itself is <<w>> and w__2 is <<w, 2>>, so that a name someone wrote may  *)
(* be the one an allocator makes.                                          *)
(***************************************************************************)
EXTENDS Integers, Sequences, FiniteSets, SequencesExt

CONSTANTS
  Edge,      \* the edges a module can have; see Kind and the accessors below
  Names,     \* what the module declares itself
  Globals,   \* GlobalTypes
  None,      \* null
  MaxEdges   \* bound: edges of one module

Kind == {"value", "sideEffect", "type", "declaration"}

\* The projections: Module.runtimeProjection (cycle analysis and classic
\* output), implementationProjection of a TypeScript build, and
\* declarationDependencies.
Profile == {"runtime", "implementation", "declaration"}

ASSUME EdgeAssumption ==
  /\ \A e \in Edge : e.kind \in Kind
  /\ \A e \in Edge : Len(IF e.alias = None THEN e.name ELSE e.alias) \in Nat
  /\ IsFiniteSet(Names) /\ IsFiniteSet(Globals)
  /\ MaxEdges \in Nat

VARIABLES
  edges,     \* the edges met so far
  plan       \* what each projection has made of them

planVars == <<edges, plan>>

-----------------------------------------------------------------------------
(* Identity (BindingIdentity.hx).                                          *)

Request(e)        == [external |-> e.external, path |-> e.path, attribute |-> e.attribute]
Selector(e)       == IF e.form = "name" THEN <<"name", e.name>> ELSE <<e.form>>
requestedLocal(e) == IF e.alias = None THEN e.name ELSE e.alias
Intent(e)         == [request |-> Request(e), selector |-> Selector(e), local |-> requestedLocal(e)]
Mapping(e)        == [origin |-> e.origin, intent |-> Intent(e), member |-> e.member]

ConflictKey(i)  == <<i.request.external, i.request.path, i.selector>>

-----------------------------------------------------------------------------
(* Dependencies.pushAndGet: the bindings of one projection.                *)

OriginConflict(p, e) ==
  \E m \in ToSet(p.mappings) : m.origin = e.origin /\ m # Mapping(e)

\* The search meets a binding of the same export with another attribute
\* before it meets the binding itself.
AttributeConflict(p, e) ==
  \E i \in DOMAIN p.allocated :
    /\ ConflictKey(p.allocated[i].intent) = ConflictKey(Intent(e))
    /\ p.allocated[i].intent.request.attribute # e.attribute
    /\ \A j \in 1..(i - 1) : p.allocated[j].intent # Intent(e)

Resolves(p, origin) == \E m \in ToSet(p.mappings) : m.origin = origin
Known(p, e) == \E b \in ToSet(p.allocated) : b.intent = Intent(e)

unavailable(p, candidate) ==
  candidate \in Globals \cup Names \/ \E b \in ToSet(p.allocated) : b.local = candidate

Counted(count, local, n) ==
  [w \in DOMAIN count \cup {local} |-> IF w = local THEN n ELSE count[w]]
Count(p, local) == IF local \in DOMAIN p.aliasCount THEN p.aliasCount[local] ELSE 0

\* A word and a number behind it.
Suffixed(w, n) == [i \in 1..(Len(w) + 1) |-> IF i <= Len(w) THEN w[i] ELSE n]

\* The first suffix after the last one used for this word that is free.
suffix(p, local) ==
  LET first == Count(p, local) + 1
      free  == {n \in first..(first + Len(p.allocated) + Cardinality(Globals \cup Names)) :
                  ~unavailable(p, Suffixed(local, n))}
  IN CHOOSE n \in free : \A m \in free : n <= m

\* Mutant of Allocate: the suffix is counted but not searched.
NextSuffix(p, e) ==
  LET local == requestedLocal(e)
      n     == Count(p, local) + 1
  IN IF ~unavailable(p, local)
       THEN [p EXCEPT !.allocated = Append(@, [intent |-> Intent(e), local |-> local])]
       ELSE [p EXCEPT !.allocated  = Append(@, [intent |-> Intent(e), local |-> Suffixed(local, n)]),
                      !.aliasCount = Counted(@, local, n)]
Allocate(p, e) ==
  LET local == requestedLocal(e)
      n     == suffix(p, local)
  IN IF ~unavailable(p, local)
       THEN [p EXCEPT !.allocated = Append(@, [intent |-> Intent(e), local |-> local])]
       ELSE [p EXCEPT !.allocated  = Append(@, [intent |-> Intent(e), local |-> Suffixed(local, n)]),
                      !.aliasCount = Counted(@, local, n)]

pushAndGet(p, e) ==
  IF OriginConflict(p, e) \/ AttributeConflict(p, e)
    THEN [p EXCEPT !.failed = TRUE]
    ELSE LET q == [p EXCEPT !.mappings = IF Resolves(p, e.origin) THEN @ ELSE Append(@, Mapping(e))]
         IN IF Known(q, e) THEN q ELSE Allocate(q, e)

-----------------------------------------------------------------------------
(* DependencyPlan.projectImplementation: the declarations.                 *)

findOrAdd(plans, request) ==
  IF \E d \in ToSet(plans) : d.request = request
    THEN plans ELSE Append(plans, [request |-> request, bindings |-> <<>>])

attach(plans, request, binding) ==
  LET ps == findOrAdd(plans, request)
  IN [i \in DOMAIN ps |->
       IF ps[i].request = request /\ ~Contains(ps[i].bindings, binding)
         THEN [ps[i] EXCEPT !.bindings = Append(@, binding)] ELSE ps[i]]

\* Mutant of removeTypeOnlyBinding: a type import stays beside the value.
KeepTypeOnlyBinding(plans, binding) == plans
\* attach keeps the bindings of a request distinct: the loop splices once.
Spliced(bindings, binding) ==
  IF Contains(bindings, binding)
    THEN RemoveAt(bindings, CHOOSE i \in DOMAIN bindings : bindings[i] = binding) ELSE bindings

removeTypeOnlyBinding(plans, binding) ==
  [i \in DOMAIN plans |-> [plans[i] EXCEPT !.bindings = Spliced(@, binding)]]

runtimeOwnsBinding(p, binding) ==
  \E d \in ToSet(p.runtime) : Contains(d.bindings, binding)

\* A pushed edge gets its declaration unless the push has failed.
PushValue(p, e) ==
  LET q == pushAndGet(p, e)
  IN IF q.failed THEN q
       ELSE [q EXCEPT !.types   = removeTypeOnlyBinding(@, Intent(e)),
                      !.runtime = attach(@, Request(e), Intent(e))]

PushType(p, e) ==
  LET q == pushAndGet(p, e)
  IN IF q.failed \/ runtimeOwnsBinding(q, Intent(e)) THEN q
       ELSE [q EXCEPT !.types = attach(@, Request(e), Intent(e))]

\* declarations: an empty request is kept where it runs and left out where it
\* would only name types.  Nothing depends on the order of the latter.
runtimeRequests(p)  == p.runtime
typeOnlyRequests(p) == {d \in ToSet(p.types) : d.bindings # <<>>}

-----------------------------------------------------------------------------
(* The edges, as DependencyPlanBuilder meets them.                         *)

NoImports == [mappings |-> <<>>, allocated |-> <<>>, aliasCount |-> <<>>,
              runtime |-> <<>>, types |-> <<>>, failed |-> FALSE]

PlanInit == edges = <<>> /\ plan = [r \in Profile |-> NoImports]

\* A diagnostic ends the compilation.
Meets(e) ==
  /\ Len(edges) < MaxEdges /\ ~\E r \in Profile : plan[r].failed
  /\ edges' = Append(edges, e)

\* Mutant of RuntimeSideEffect: the TypeScript projection drops it.
ClassicSideEffect(e) ==
  /\ e.kind = "sideEffect" /\ Meets(e)
  /\ plan' = [plan EXCEPT !["runtime"].runtime = findOrAdd(@, Request(e))]
RuntimeSideEffect(e) ==
  /\ e.kind = "sideEffect" /\ Meets(e)
  /\ plan' = [plan EXCEPT !["runtime"].runtime        = findOrAdd(@, Request(e)),
                          !["implementation"].runtime = findOrAdd(@, Request(e))]

RuntimeValue(e) ==
  /\ e.kind = "value" /\ Meets(e)
  /\ plan' = [plan EXCEPT !["runtime"]        = PushValue(@, e),
                          !["implementation"] = PushValue(@, e)]

TypeOnly(e) ==
  /\ e.kind = "type" /\ Meets(e)
  /\ plan' = [plan EXCEPT !["implementation"] = PushType(@, e)]

DeclarationOnly(e) ==
  /\ e.kind = "declaration" /\ Meets(e)
  /\ plan' = [plan EXCEPT !["declaration"] = pushAndGet(@, e)]

PlanNext == \E e \in Edge :
              RuntimeSideEffect(e) \/ RuntimeValue(e) \/ TypeOnly(e) \/ DeclarationOnly(e)

PlanSpec == PlanInit /\ [][PlanNext]_planVars

-----------------------------------------------------------------------------
(* What the emitters ask (Dependencies.resolveOrigin).                     *)

Local(p, intent) == (CHOOSE b \in ToSet(p.allocated) : b.intent = intent).local

resolveOrigin(p, origin) ==
  LET i == CHOOSE j \in DOMAIN p.mappings :
             /\ p.mappings[j].origin = origin
             /\ \A k \in 1..(j - 1) : p.mappings[k].origin # origin
  IN <<Local(p, p.mappings[i].intent), p.mappings[i].member>>

-----------------------------------------------------------------------------
(* Properties.                                                             *)

Good == {r \in Profile : ~plan[r].failed}

Selected(r) == CASE r = "runtime" -> {"value"} [] r = "implementation" -> {"value", "type"}
                 [] r = "declaration" -> {"declaration"}
Bound(r) == {e \in ToSet(edges) : e.kind \in Selected(r)}

\* Every mention of a declaration of the source is printed as one local name,
\* and that name means the export the mention asked for: no other import, no
\* name of the module and no name of the language is called the same, also when
\* somebody wrote a name that the allocator makes (pushAndGet, resolveOrigin).
MentionsReachTheirExport ==
  \A r \in Good : \A e \in Bound(r) :
    /\ Resolves(plan[r], e.origin)
    /\ LET name == resolveOrigin(plan[r], e.origin)
       IN /\ name = <<Local(plan[r], Intent(e)), e.member>>
          /\ name[1] \notin Globals \cup Names
          /\ \A b \in ToSet(plan[r].allocated) : b.local = name[1] => b.intent = Intent(e)

\* An edge asks for its request at run time, and one request is first met before
\* another.
Runs(e) == e.kind \in {"value", "sideEffect"}
MetBefore(es, q, q2) ==
  \E k \in DOMAIN es :
    /\ Runs(es[k]) /\ Request(es[k]) = q
    /\ \A l \in 1..k : Runs(es[l]) => Request(es[l]) # q2

\* A module asks for its dependencies in the order in which its source first
\* needs them at run time.  Types move nothing, so that TypeScript output
\* initialises in the order of classic output and the cycle analysis, which
\* reads the classic projection, holds for both (projectImplementation).
RequestsInEncounterOrder ==
  \A r \in Good \ {"declaration"} :
    LET asked == runtimeRequests(plan[r])
    IN /\ {d.request : d \in ToSet(asked)} = {Request(e) : e \in {f \in ToSet(edges) : Runs(f)}}
       /\ \A i, j \in DOMAIN asked :
            i < j => MetBefore(edges, asked[i].request, asked[j].request)

\* What declarations bind, and what edges of a kind need bound.
DeclaredBy(ds) == UNION {{<<d.request, b>> : b \in ToSet(d.bindings)} : d \in ds}
Needed(r, kind) == {<<Request(e), Intent(e)>> : e \in {f \in Bound(r) : f.kind = kind}}

\* Every binding the module needs is declared once: by an import that runs if
\* the value is needed anywhere, before or after its type, and by one that is
\* erased otherwise; nothing else is declared (attach, removeTypeOnlyBinding).
EveryBindingDeclaredOnce ==
  \A r \in Good \ {"declaration"} :
    LET running == ToSet(runtimeRequests(plan[r]))
        erased  == typeOnlyRequests(plan[r])
    IN /\ DeclaredBy(running) = Needed(r, "value")
       /\ DeclaredBy(erased) = Needed(r, "type") \ Needed(r, "value")
       /\ \A d \in running \cup erased : IsInjective(d.bindings)
=============================================================================
