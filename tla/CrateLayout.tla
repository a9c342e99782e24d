---------------------------- MODULE CrateLayout ----------------------------
(***************************************************************************)
(* From namespaces to the files of the crate: Adapter.adaptNamespace puts  *)
(* the content of every namespace into a module, and                       *)
(* CodeGenerator.emitContent writes the files of the modules and their mod *)
(* declarations.                                                           *)
(*                                                                         *)
(* A namespace is the sequence of its words, and a word the sequence of    *)
(* its letters: prefixes are compared as text, without regard to case, and *)
(* modules are named by the words in snake case. A file is named by the    *)
(* path of the Rust module it defines, be it path.rs or path/mod.rs, and   *)
(* its text is the set of modules it declares. Several files of models     *)
(* that are made from the same declarations (enums_serde, models_impl,     *)
(* ...) are represented by one.                                            *)
(*                                                                         *)
(* tcgc, which is external, lists the items in any order.                  *)
(*                                                                         *)
(* A definition Name_Fault is Name with a plausible mistake in the code;   *)
(* no specification uses it: the properties must fail with it.             *)
(***************************************************************************)
EXTENDS Naturals, Sequences, SequencesExt

CONSTANTS LibNamespaces,  \* LIB_NAMESPACE
          Packages        \* the packages considered

Kinds == {"client", "accessors", "enum", "model", "union"}

\* Words that name modules in the emitted code.  Those that a namespace may
\* take as well are spelled.
Generated == <<"g", "e", "n", "e", "r", "a", "t", "e", "d">>
Clients   == <<"c", "l", "i", "e", "n", "t", "s">>
Models    == <<"m", "o", "d", "e", "l", "s">>
Options   == <<"method_options">>
Enums     == <<"enums">>
Unions    == <<"unions">>
FileOf(kind) == CASE kind = "enum" -> Enums [] kind = "union" -> Unions [] kind = "model" -> Models

Word == Seq(STRING)

\* A package: its root namespace, without which the adapter throws; what it adapts;
\* the namespaces of all models that tcgc lists, among them those that are skipped
\* or become unions; and the first of tcgc's namespaces.
ASSUME LayoutAssumption ==
    \A p \in Packages :
       /\ p.root \in Seq(Word) /\ p.root # <<>>
       /\ p.listed \subseteq Seq(Word) /\ p.first \in Seq(Word)
       /\ \A item \in p.items : item.kind \in Kinds /\ item.ns \in Seq(Word) /\ item.name \in Word

VARIABLES package,   \* what tcgc hands over, and the root namespace
          todo,      \* those to be adapted
          modules,   \* the paths of the crate and its sub-modules
          content,   \* the items and the modules they are in
          pending,   \* the modules whose files are to be written
          files      \* the files written, and the modules they declare

vars == <<package, todo, modules, content, pending, files>>

NoFiles == [path \in {} |-> {}]

\* One file, and the modules it declares.
File(path, names) == [p \in {path} |-> names]

\* Files, and what is written over them.
Over(new, old) == [p \in DOMAIN new \cup DOMAIN old |-> IF p \in DOMAIN new THEN new[p] ELSE old[p]]

----------------------------------------------------------------------------
(* Letters and case. *)

Capitals == <<"A", "B", "C", "D", "E", "F", "G", "H", "I", "J", "K", "L", "M",
              "N", "O", "P", "Q", "R", "S", "T", "U", "V", "W", "X", "Y", "Z">>
Smalls   == <<"a", "b", "c", "d", "e", "f", "g", "h", "i", "j", "k", "l", "m",
              "n", "o", "p", "q", "r", "s", "t", "u", "v", "w", "x", "y", "z">>
Digits   == {"0", "1", "2", "3", "4", "5", "6", "7", "8", "9"}
Illegal  == {"!", "@", "#", "$", "%", "^", "&", "*", "(", ")", "+", "="}

Capital == Range(Capitals)
Small   == Range(Smalls)

SmallOf == [l \in Capital |-> Smalls[CHOOSE i \in DOMAIN Capitals : Capitals[i] = l]]

Lower(letter) == IF letter \in Capital THEN SmallOf[letter] ELSE letter

LowerCase(word) == [i \in DOMAIN word |-> Lower(word[i])]

\* A part begins where a small letter is followed by a capital, or a digit by a
\* letter, and, once in a word, with the last capital of an acronym.  Whatever is
\* neither a letter nor a digit parts as well.
SnakeCase(name) ==
    LET word == SelectSeq(name, LAMBDA l : l \notin Illegal)
        Is(i, class) == i \in DOMAIN word /\ word[i] \in class
        Parting(i) == i \in DOMAIN word /\ word[i] \notin Capital \cup Small \cup Digits
        Simple(i) == \/ Is(i - 1, Small) /\ Is(i, Capital)
                     \/ Is(i - 1, Digits) /\ Is(i, Capital \cup Small)
        Acronym(i) == /\ Is(i + 1, Small)
                      /\ \E first \in 1..(i - 1) : /\ \A k \in first..i : Is(k, Capital)
                                                    /\ ~Is(first - 1, Capital \cup {"_"})
        Begins(i) == Simple(i) \/ (Acronym(i) /\ \A k \in 1..(i - 1) : ~Acronym(k))
        Piece(i) == IF Parting(i) THEN IF Parting(i - 1) THEN <<>> ELSE <<"_">>
                    ELSE IF Begins(i) THEN <<"_", Lower(word[i])>> ELSE <<Lower(word[i])>>
    IN  IF LowerCase(word) = <<"e", "t", "a", "g">> THEN LowerCase(word)
        ELSE FlattenSeq([i \in DOMAIN word |-> Piece(i)])

Lowered(words) == [i \in DOMAIN words |-> LowerCase(words[i])]

SnakeCased(words) == [i \in DOMAIN words |-> SnakeCase(words[i])]

IsUnder(ns, top) == IsPrefix(Lowered(top), Lowered(ns))

IsStrictlyUnder(ns, top) == IsUnder(ns, top) /\ Len(ns) # Len(top)

----------------------------------------------------------------------------
IsLibNamespace(ns) == \E lib \in LibNamespaces : IsUnder(ns, lib)

\* The root namespace: that of the first client; without clients the smallest of
\* the models' that is in no library, which may be any of them; without models the
\* first of the namespaces.
RootsOf(p) ==
    LET clients == {item \in p.items : item.kind \in {"client", "accessors"}}
    IN  IF clients # {} THEN {item.ns : item \in clients}
        ELSE IF p.listed # {} THEN {ns \in p.listed : ~IsLibNamespace(ns)}
        ELSE {p.first}

Init == /\ package \in Packages
        /\ package.root \in RootsOf(package)
        /\ todo = package.items
        /\ modules = {<<>>} /\ content = {}
        /\ pending = {} /\ files = NoFiles

----------------------------------------------------------------------------
(* adaptNamespace. *)

From(s, n) == SubSeq(s, n, Len(s))

Root == package.root

Parent == SubSeq(Root, 1, Len(Root) - 1)

\* What is not near the root comes from a library and goes to the root.
Redirected(ns) ==
    LET underRoot == IsUnder(ns, Root)
        sibling   == Parent # <<>> /\ ~underRoot /\ IsStrictlyUnder(ns, Parent)
    IN  IF ns = <<>> \/ (Parent # <<>> /\ Lowered(ns) = Lowered(Parent))
           \/ (~underRoot /\ (~sibling \/ Lowered(Parent) \in LibNamespaces))
        THEN Root ELSE ns

\* startsWith compares text, so that the last word need not end there.
StartsWithRoot(ns) == LET n == Len(Root)
                      IN  /\ Len(ns) >= n
                          /\ Lowered(SubSeq(ns, 1, n - 1)) = Lowered(Parent)
                          /\ IsPrefix(LowerCase(Root[n]), LowerCase(ns[n]))

\* substring drops the root and one letter more; empty words are filtered out.
WithoutRoot(ns) == LET n    == Len(Root)
                       tail == From(ns[n], Len(Root[n]) + 2)
                   IN  (IF tail = <<>> THEN <<>> ELSE <<tail>>) \o From(ns, n + 1)

Trimmed_SiblingToo(namespace) ==
    LET ns == Redirected(namespace)
    IN  IF StartsWithRoot(ns) THEN WithoutRoot(ns)
        ELSE IF Parent # <<>> /\ IsStrictlyUnder(ns, Parent) THEN From(ns, Len(Root) + 1)
        ELSE ns

Trimmed(namespace) ==
    LET ns == Redirected(namespace)
    IN  IF StartsWithRoot(ns) THEN WithoutRoot(ns)
        ELSE IF Parent # <<>> /\ IsStrictlyUnder(ns, Parent) THEN From(ns, Len(Root))
        ELSE ns

ModulePath(namespace) == SnakeCased(Trimmed(namespace))

\* The module is found or created, with all modules above it.
WithModule_LeafOnly(path) == modules \cup {path}

WithModule(path) == modules \cup {SubSeq(path, 1, n) : n \in 0..Len(path)}

AdaptItem(item) ==
    /\ modules' = WithModule(ModulePath(item.ns))
    /\ content' = content \cup {[path |-> ModulePath(item.ns), item |-> item]}
    /\ todo' = todo \ {item}
    /\ UNCHANGED <<package, pending, files>>

Adapt == \E item \in todo : AdaptItem(item)

\* The modules of the next level.
SubModules(path) == {m \in modules : Len(m) = Len(path) + 1 /\ IsPrefix(path, m)}

Declarations(children) == {Last(m) : m \in children}

\* Unlike a mod.rs, lib.rs declares generated whether or not there is any.
LibRs == {Generated} \cup Declarations(SubModules(<<>>))

\* lib.rs is written when everything has been adapted.
WriteLibRs == /\ todo = {} /\ pending = {} /\ files = NoFiles
              /\ files' = File(<<>>, LibRs)
              /\ pending' = {<<>>}
              /\ UNCHANGED <<package, todo, modules, content>>

----------------------------------------------------------------------------
(* emitContent. *)

ItemsIn(path) == {c.item : c \in {d \in content : d.path = path}}

HasContent(path) == ItemsIn(path) # {}

\* Client accessors have neither options nor response headers.
HasModels_IfAnything(path) == HasContent(path)

HasModels(path) == \E item \in ItemsIn(path) : item.kind # "accessors"

ClientFiles(path) == {item.name : item \in {i \in ItemsIn(path) : i.kind \in {"client", "accessors"}}}

ModelFiles(path) == {FileOf(item.kind) : item \in {i \in ItemsIn(path) : i.kind \in {"enum", "union", "model"}}}
                      \cup {Options : item \in {i \in ItemsIn(path) : i.kind = "client"}}

\* A directory of files and the mod.rs that declares them.
Directory(dir, names) ==
    IF names = {} THEN NoFiles
    ELSE Over([path \in {Append(dir, name) : name \in names} |-> {}], File(dir, names))

GeneratedModRs(path) == (IF ClientFiles(path) # {} THEN {Clients} ELSE {})
                          \cup (IF HasModels(path) THEN {Models} ELSE {})

EmittedFrom(dir, path) ==
    Over(Directory(Append(dir, Clients), ClientFiles(path)),
         Over(Directory(Append(dir, Models), ModelFiles(path)),
              IF HasContent(path) THEN File(dir, GeneratedModRs(path)) ELSE NoFiles))

\* The directory of the enclosing module in place of its own.
EmittedFor_InParent(path) ==
    EmittedFrom(Append(SubSeq(path, 1, Len(path) - 1), Generated), path)

EmittedFor(path) == EmittedFrom(Append(path, Generated), path)

SubModRs(path) == (IF HasContent(path) THEN {Generated} ELSE {})
                    \cup Declarations(SubModules(path))

\* The files of a module are written, and then those of its sub-modules.  A file
\* that exists already is overwritten.
EmitModule ==
    \E path \in pending :
       /\ files' = Over(IF path = <<>> THEN EmittedFor(path)
                        ELSE Over(EmittedFor(path), File(path, SubModRs(path))), files)
       /\ pending' = (pending \ {path}) \cup SubModules(path)
       /\ UNCHANGED <<package, todo, modules, content>>

Done == todo = {} /\ pending = {} /\ files # NoFiles

Terminated == Done /\ UNCHANGED vars

Next == Adapt \/ WriteLibRs \/ EmitModule \/ Terminated

Spec == Init /\ [][Next]_vars

----------------------------------------------------------------------------
Written == DOMAIN files

Declared == UNION {{Append(path, name) : name \in files[path]} : path \in Written}

\* Every module that is declared has a file, and every file is declared by the
\* module above it, so that nothing is left out of the crate.  One declaration has
\* no file: generated in the lib.rs of a crate whose root has no content.
DeclaredAreWritten ==
    Done => Declared \cup {<<>>} = Written \cup {p \in {<<Generated>>} : ~HasContent(<<>>)}

\* What an item defines is found under the path that other modules import it
\* from, crate::<module>::clients or crate::<module>::models: the re-export of
\* generated is not hidden by a sub-module of the same name.
ImportsResolve ==
    Done => \A c \in content :
               /\ c.path \in Written /\ Generated \in files[c.path]
               /\ (IF c.item.kind \in {"client", "accessors"} THEN Clients ELSE Models)
                     \notin files[c.path]

\* The same namespace, as far as adaptNamespace can tell: the root's words differ in
\* case at most, and the others make one name in snake case.
SameNamespace(a, b) ==
    /\ Len(a) = Len(b)
    /\ \A i \in DOMAIN a : \/ SnakeCase(a[i]) = SnakeCase(b[i])
                           \/ i <= Len(Root) /\ LowerCase(a[i]) = LowerCase(b[i])

\* Namespaces that are not redirected to the root share a module only if their
\* words make the same names: FooBar and Foo_Bar are both foo_bar.
OneModulePerNamespace ==
    \A c, d \in content :
       c.path = d.path => SameNamespace(Redirected(c.item.ns), Redirected(d.item.ns))

\* A namespace beside the root becomes a child module, without the shared parent.
SiblingsAreChildren ==
    \A c \in content :
       LET ns == Redirected(c.item.ns)
       IN  ~IsUnder(ns, Root) => c.path = SnakeCased(From(ns, Len(Root)))

\* No file is written twice with different text.
NothingOverwritten == [][\A path \in Written : files'[path] = files[path]]_files
=============================================================================
