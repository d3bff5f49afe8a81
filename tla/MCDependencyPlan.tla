------------------------- MODULE MCDependencyPlan -------------------------
EXTENDS DependencyPlan

Spec4(external, path, attribute, form, name, alias) ==
  [external |-> external, path |-> path, attribute |-> attribute,
   form |-> form, name |-> name, alias |-> alias]
Of(kind, origin, member, spec) ==
  [kind |-> kind, origin |-> origin, member |-> member] @@ spec

FooOfA  == Spec4(FALSE, "a", None, "name", <<"Foo">>, None)
FooOfB  == Spec4(FALSE, "b", None, "name", <<"Foo">>, None)
FooAsT  == Spec4(FALSE, "a", None, "name", <<"Foo">>, <<"T">>)
Foo1OfC == Spec4(TRUE, "c", None, "name", <<"Foo", 1>>, None)
DataOfC == Spec4(TRUE, "c", None, "default", <<"Foo">>, None)
JsonOfC == Spec4(TRUE, "c", "json", "default", <<"Map">>, None)

\* Three modules: a and b both export Foo; c exports something that is
\* written Foo__1, a default that two packages name differently and that one
\* of them loads as JSON, and is also imported for its effects.  The module
\* itself declares T, the language Map.
MCEdge ==
  {Of(k, "a.Foo", <<>>, FooOfA) : k \in {"value", "type"}}
  \cup {Of(k, "b.Foo", <<>>, FooOfB) : k \in {"value", "type", "declaration"}}
  \cup {Of("type", "alias T", <<>>, FooAsT), Of("declaration", "alias T", <<>>, FooAsT)}
  \cup {Of(k, "c.Foo1", <<>>, Foo1OfC) : k \in {"value", "type", "declaration"}}
  \cup {Of("type", "c.Data", <<>>, DataOfC), Of("value", "c.Json", <<>>, JsonOfC)}
  \cup {Of("value", "a.Foo", <<"Item">>, FooOfA)}
  \cup {Of("sideEffect", None, <<>>, Spec4(TRUE, "c", x, None, <<>>, None)) : x \in {None, "json"}}
  \cup {Of("sideEffect", None, <<>>, Spec4(FALSE, "b", None, None, <<>>, None))}

MCNames   == {<<"T">>}
MCGlobals == {<<"Map">>}
=============================================================================
