---------------------------- MODULE CrateImports ----------------------------
(***************************************************************************)
(* The use statements of the files that CrateLayout lays out: which Rust   *)
(* type the adapter has cached for an item, the path that Use.addForType   *)
(* and buildImportPath make for it, and where the compiler finds that path *)
(* in the modules that are written.                                        *)
(*                                                                         *)
(* Any file may refer to any item.  The names of a path are those of       *)
(* CrateLayout; crate is the empty path.  Types of other crates, which are *)
(* imported from fixed paths, are left out.                                *)
(*                                                                         *)
(* A definition Name_Fault is Name with a plausible mistake in the code;   *)
(* no specification uses it: the properties must fail with it.             *)
(***************************************************************************)
EXTENDS CrateLayout

VARIABLE types   \* Adapter.types: the item that was adapted for a key

importVars == <<package, todo, modules, content, pending, files, types>>

ClientKinds == {"client", "accessors"}

\* Enums and models are cached by their names alone, wherever they are; unions
\* have a prefix of their own.
CacheKey(item) == <<IF item.kind = "union" THEN "union" ELSE "type", item.name>>

\* What stands for an item: who was adapted first under its key.  Clients are not
\* cached.
TypeOf(item) == IF item.kind \in ClientKinds THEN item ELSE types[CacheKey(item)]

ImportsInit == Init /\ types = <<>>

AdaptCached ==
    \E item \in todo :
       /\ AdaptItem(item)
       /\ types' = IF item.kind \in ClientKinds THEN types
                   ELSE Over(types, File(CacheKey(item), item))

EmitImporting == (WriteLibRs \/ EmitModule \/ Terminated) /\ UNCHANGED types

ImportsNext == AdaptCached \/ EmitImporting

ImportsSpec == ImportsInit /\ [][ImportsNext]_importVars

----------------------------------------------------------------------------
(* Use. *)

\* The path from the root, through generated for the module's own types.
BuildImportPath(dst, src) == IF dst = src THEN Append(src, Generated) ELSE src

\* The scope of the file that holds an item.
Scope(item) == CASE item.kind \in ClientKinds -> "clients"
                 [] item.kind = "model" -> "models"
                 [] item.kind = "union" -> "unions"
                 [] OTHER -> "modelsOther"

\* The module above a file: that of its directory.
Super(path, scope) == path \o <<Generated, IF scope = "clients" THEN Clients ELSE Models>>

\* Types that are defined in the same file are not imported.
SameFile(scope, item) == \/ item.kind = "model" /\ scope = "models"
                         \/ item.kind = "union" /\ scope = "unions"

AddForType_OwnModuleIsSuper(dst, scope, item) ==
    LET src == ModulePath(item.ns) IN
    IF item.kind \in ClientKinds
    THEN {BuildImportPath(dst, src) \o <<Clients, item.name>>}
    ELSE IF dst # src THEN {BuildImportPath(dst, src) \o <<Models, item.name>>}
    ELSE IF SameFile(scope, item) THEN {}
    ELSE {Append(Super(dst, scope), item.name)}

\* The path that a file imports a type from.
AddForType(dst, scope, item) ==
    LET src == ModulePath(item.ns) IN
    IF item.kind \in ClientKinds
    THEN {BuildImportPath(dst, src) \o <<Clients, item.name>>}
    ELSE IF scope = "clients" \/ dst # src
    THEN {BuildImportPath(dst, src) \o <<Models, item.name>>}
    ELSE IF SameFile(scope, item) THEN {}
    ELSE {Append(Super(dst, scope), item.name)}

\* The paths end at the leaves of the tree they are inserted into: what leads on
\* to another is not imported itself.
Text(added) == {p \in added : \A q \in added : p # q => ~IsPrefix(p, q)}

----------------------------------------------------------------------------
(* Where the compiler finds a path. *)

\* A name in a module is that of a module it declares, or else of one that it
\* re-exports from generated.
Enter(path, name) ==
    IF path \notin Written THEN {}
    ELSE IF name \in files[path] THEN {Append(path, name)}
    ELSE {path \o <<generated, name>> : generated \in files[path] \cap {Generated}}

Walk(path) ==
    LET at[n \in 0..Len(path)] ==
            IF n = 0 THEN {<<>>} ELSE UNION {Enter(m, path[n]) : m \in at[n - 1]}
    IN  at[Len(path)]

\* The directory in which a path finds its type, whichever file of it that is in.
DirectoriesOf(path) == Walk(SubSeq(path, 1, Len(path) - 1)) \cap Written

HomeOf(item) == Super(ModulePath(item.ns), Scope(item))

\* Every file finds each type it refers to, and finds the one that was meant:
\* nothing of the same name is imported in its stead or beside it.
UsesResolve ==
    Done => \A c \in content :
        LET scope == Scope(c.item)
            Paths(item) == AddForType(c.path, scope, TypeOf(item))
            Refers == {d \in package.items : d.kind \in ClientKinds => scope = "clients"}
            use == Text(UNION {Paths(d) : d \in Refers})
        IN  /\ \A d \in Refers :
                  IF Paths(d) = {} THEN HomeOf(d) = Super(c.path, scope)
                  ELSE \A p \in Paths(d) :
                          /\ p \in use /\ Last(p) = d.name
                          /\ DirectoriesOf(p) = {HomeOf(d)}
            /\ \A p, q \in use : Last(p) = Last(q) => p = q
=============================================================================
