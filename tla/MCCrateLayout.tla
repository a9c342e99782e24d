--------------------------- MODULE MCCrateLayout ---------------------------
(***************************************************************************)
(* The root namespace F.B, or L.B in a library L, or F alone, with items   *)
(* in some namespaces around it.                                           *)
(***************************************************************************)
EXTENDS CrateImports

F == <<"F">>
B == <<"B">>
C == <<"C">>
D == <<"D">>
L == <<"L">>

MCLibs == {<<<<"l">>>>}

Item(ns, kind, name) == [ns |-> ns, kind |-> kind, name |-> name]

\* What is in the root, and the models listed: a root without items is that of a
\* model that is skipped, or of a package without any.
Tops(root) ==
    {[items |-> {Item(root, kind, <<"x">>)}, listed |-> {}] : kind \in {"client", "accessors"}}
      \cup {[items |-> {Item(root, "accessors", <<"x">>), Item(root, "union", <<"y">>)}, listed |-> {}],
            [items |-> {Item(root, "model", <<"x">>)}, listed |-> {root}],
            [items |-> {}, listed |-> {root, <<L, B>>}],
            [items |-> {}, listed |-> {}]}

\* Besides the root's items, one or none in each of the namespaces, of a name
\* of its own.  Models are laid out and imported like enums.
PackagesOver(root, namespaces) ==
    {[root |-> root, listed |-> top.listed, first |-> root,
      items |-> top.items \cup {Item(ns, kind[ns], FlattenSeq(ns)) : ns \in {n \in namespaces : kind[n] # "none"}}] :
         top \in Tops(root), kind \in [namespaces -> {"client", "accessors", "enum", "union", "none"}]}

\* A namespace below one that may be empty, a sibling with a child, the parent
\* and a library; the root in other letters, and two words of one module.
Around == PackagesOver(<<F, B>>, {<<F, B, C>>, <<F, B, C, D>>, <<F, D, C>>})
            \cup PackagesOver(<<F, B>>, {<<F>>, <<F, D>>, <<L, C>>})
            \cup PackagesOver(<<F, B>>, {<<F, <<"b">>>>, <<F, B, <<"c", "D">>>>, <<<<"f">>, B, <<"c", "_", "d">>>>})
            \cup PackagesOver(<<L, B>>, {<<L, B, C>>, <<L, D>>, <<L>>})
            \cup PackagesOver(<<F>>, {<<F, C, D>>, <<D, C>>})

\* Siblings whose name begins with the root's.
Prefixed == PackagesOver(<<F, B>>, {<<F, <<"B", "c", "d">>>>, <<F, <<"B", "c">>, D>>})
=============================================================================
