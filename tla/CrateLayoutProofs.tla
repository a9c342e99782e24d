------------------------- MODULE CrateLayoutProofs -------------------------
(***************************************************************************)
(* The modules of an emitted crate are declared where they are written,    *)
(* but for generated in the lib.rs of a root without content, nothing is   *)
(* written twice, and use statements find what they name: for any number   *)
(* of namespaces, of any depth, in any order, as long as no module made    *)
(* from a namespace has one of the names that emitContent uses itself.     *)
(***************************************************************************)
EXTENDS CrateImports, SequenceTheorems, WellFoundedInduction, TLAPS

Reserved == {Generated, Clients, Models}

Name == Word \cup {SnakeCase(word) : word \in Word} \cup Reserved \cup {Options, Enums, Unions}

Path == Seq(Name)

Free(path) == \A i \in 1..Len(path) : path[i] \notin Reserved

\* No namespace makes a module of a name of the emitter's own.
NoReserved == \A item \in package.items : Free(ModulePath(item.ns))

----------------------------------------------------------------------------
(* Paths. *)

LEMMA Words == Clients # Models /\ Generated # Clients /\ Generated # Models
<1>1. Generated[1] = "g" /\ Clients[1] = "c" /\ Models[1] = "m"
  BY DEF Generated, Clients, Models
<1>2. "g" # "c" /\ "g" # "m" /\ "c" # "m"
  OBVIOUS
<1>3. QED
  BY <1>1, <1>2

LEMMA BeginningIs ==
    ASSUME NEW S, NEW p \in Seq(S), NEW n \in 0..Len(p)
    PROVE  /\ SubSeq(p, 1, n) \in Seq(S) /\ Len(SubSeq(p, 1, n)) = n
           /\ \A i \in 1..n : SubSeq(p, 1, n)[i] = p[i]
<1>1. \A i \in 1..n : p[i] \in S
  BY ElementOfSeq, LenProperties
<1>2. n \in Int /\ 1 \in Int
  BY LenProperties
<1>3. QED
  BY <1>1, <1>2, SubSeqProperties

LEMMA PrefixTyped ==
    ASSUME NEW p \in Path, NEW n \in 0..Len(p)
    PROVE  /\ SubSeq(p, 1, n) \in Path /\ Len(SubSeq(p, 1, n)) = n
           /\ \A i \in 1..n : SubSeq(p, 1, n)[i] = p[i]
BY BeginningIs DEF Path

\* The prefix relation, element by element.
LEMMA BeginsWith ==
    ASSUME NEW S, NEW p \in Seq(S), NEW m \in Seq(S)
    PROVE  IsPrefix(p, m) <=> Len(p) <= Len(m) /\ \A i \in 1..Len(p) : p[i] = m[i]
<1>1. Len(p) \in Nat /\ Len(m) \in Nat
  BY LenProperties
<1>2. SubSeq(p, 1, Len(p)) = p
  BY SubSeqFull
<1>3. ASSUME Len(p) <= Len(m), \A i \in 1..Len(p) : p[i] = m[i]
      PROVE  p = SubSeq(m, 1, Len(p))
  <2>1. Len(p) \in 0..Len(m)
    BY <1>1, <1>3
  <2>2. /\ SubSeq(m, 1, Len(p)) \in Seq(S) /\ Len(SubSeq(m, 1, Len(p))) = Len(p)
        /\ \A i \in 1..Len(p) : SubSeq(m, 1, Len(p))[i] = p[i]
    BY <2>1, <1>3, BeginningIs
  <2>3. QED
    BY <2>2, SeqEqual
<1>4. ASSUME Len(p) <= Len(m), p = SubSeq(m, 1, Len(p))
      PROVE  \A i \in 1..Len(p) : p[i] = m[i]
  <2>1. Len(p) \in 0..Len(m)
    BY <1>1, <1>4
  <2>2. \A i \in 1..Len(p) : SubSeq(m, 1, Len(p))[i] = m[i]
    BY <2>1, BeginningIs
  <2>3. QED
    BY <1>4, <2>2
<1>5. QED
  BY <1>2, <1>3, <1>4 DEF IsPrefix

LEMMA PrefixIs ==
    ASSUME NEW p \in Path, NEW m \in Path
    PROVE  IsPrefix(p, m) <=> Len(p) <= Len(m) /\ \A i \in 1..Len(p) : p[i] = m[i]
BY BeginsWith DEF Path

\* A child is its parent with a word appended, and has one parent.
LEMMA Child ==
    ASSUME NEW p \in Path, NEW m \in Path, Len(m) = Len(p) + 1, IsPrefix(p, m)
    PROVE  m = Append(p, Last(m)) /\ Last(m) \in Name /\ m # <<>>
<1>1. Len(p) \in Nat /\ Len(m) \in 1..Len(m)
  BY LenProperties DEF Path
<1>2. Last(m) \in Name
  BY <1>1, ElementOfSeq DEF Last, Path
<1>3. /\ Append(p, Last(m)) \in Path /\ Len(Append(p, Last(m))) = Len(m)
      /\ \A i \in 1..Len(p) : Append(p, Last(m))[i] = p[i]
      /\ Append(p, Last(m))[Len(p) + 1] = Last(m)
  BY <1>2, AppendProperties DEF Path
<1>4. \A i \in 1..Len(m) : m[i] = Append(p, Last(m))[i]
  <2>1. \A i \in 1..Len(p) : p[i] = m[i]
    BY PrefixIs
  <2>2. QED
    BY <1>1, <1>3, <2>1 DEF Last
<1>5. m = Append(p, Last(m))
  BY <1>3, <1>4, SeqEqual DEF Path
<1>6. m # <<>>
  BY <1>1, EmptySeq
<1>7. QED
  BY <1>2, <1>5, <1>6

LEMMA OneParent ==
    ASSUME NEW p \in Path, NEW q \in Path, NEW m \in Path,
           Len(m) = Len(p) + 1, IsPrefix(p, m), Len(m) = Len(q) + 1, IsPrefix(q, m)
    PROVE  p = q
<1>1. Len(p) \in Nat /\ Len(q) \in Nat /\ Len(p) = Len(q)
  BY LenProperties DEF Path
<1>2. \A i \in 1..Len(p) : p[i] = q[i]
  BY <1>1, PrefixIs
<1>3. QED
  BY <1>1, <1>2, SeqEqual DEF Path

\* Every prefix of a path whose words are free has free words.
LEMMA PrefixFree ==
    ASSUME NEW p \in Path, Free(p), NEW n \in 0..Len(p)
    PROVE  SubSeq(p, 1, n) \in Path /\ Free(SubSeq(p, 1, n))
<1>1. Len(p) \in Nat
  BY LenProperties DEF Path
<1>2. QED
  BY <1>1, PrefixTyped DEF Free

----------------------------------------------------------------------------
(* The module of a namespace. *)

LEMMA RootTyped ==
    ASSUME package \in Packages
    PROVE  /\ Root \in Seq(Word) /\ Root # <<>> /\ Len(Root) \in Nat \ {0}
           /\ Root[Len(Root)] \in Word
<1>1. Root \in Seq(Word) /\ Root # <<>>
  BY LayoutAssumption DEF Root
<1>2. Len(Root) \in Nat \ {0}
  BY <1>1, EmptySeq
<1>3. QED
  BY <1>1, <1>2, ElementOfSeq

LEMMA FromTyped ==
    ASSUME NEW S, NEW s \in Seq(S), NEW n \in Nat \ {0}
    PROVE  From(s, n) \in Seq(S)
<1>1. Len(s) \in Nat /\ \A i \in n..Len(s) : s[i] \in S
  BY LenProperties, ElementOfSeq
<1>2. QED
  BY <1>1, SubSeqProperties DEF From

Letter == {Lower(l) : l \in STRING}

LEMMA LowerCaseIs ==
    ASSUME NEW word \in Word
    PROVE  LowerCase(word) \in Seq(Letter) /\ Len(LowerCase(word)) = Len(word)
<1>1. Len(word) \in Nat /\ DOMAIN word = 1..Len(word) /\ \A i \in 1..Len(word) : word[i] \in STRING
  BY LenProperties, ElementOfSeq DEF Word
<1>2. \A i \in 1..Len(word) : Lower(word[i]) \in Letter
  BY <1>1 DEF Letter
<1>3. [i \in 1..Len(word) |-> Lower(word[i])] \in [1..Len(word) -> Letter]
  BY <1>2
<1>4. LowerCase(word) \in [1..Len(word) -> Letter]
  BY <1>1, <1>3 DEF LowerCase
<1>5. QED
  BY <1>1, <1>4, LenProperties, SeqDef

LEMMA LoweredIs ==
    ASSUME NEW words \in Seq(Word)
    PROVE  /\ Lowered(words) \in Seq(Seq(Letter)) /\ Len(Lowered(words)) = Len(words)
           /\ \A i \in 1..Len(words) : Lowered(words)[i] = LowerCase(words[i])
<1>1. Len(words) \in Nat /\ DOMAIN words = 1..Len(words) /\ \A i \in 1..Len(words) : words[i] \in Word
  BY LenProperties, ElementOfSeq
<1>2. Lowered(words) = [i \in 1..Len(words) |-> LowerCase(words[i])]
  BY <1>1 DEF Lowered
<1>3. Lowered(words) \in [1..Len(words) -> Seq(Letter)]
  BY <1>1, <1>2, LowerCaseIs
<1>4. Lowered(words) \in Seq(Seq(Letter)) /\ Len(Lowered(words)) = Len(words)
  BY <1>1, <1>3, LenProperties, SeqDef
<1>5. QED
  BY <1>2, <1>4

LEMMA SnakeCasedIs ==
    ASSUME NEW words \in Seq(Word)
    PROVE  /\ SnakeCased(words) \in Path /\ Len(SnakeCased(words)) = Len(words)
           /\ \A i \in 1..Len(words) : SnakeCased(words)[i] = SnakeCase(words[i])
<1>1. Len(words) \in Nat /\ DOMAIN words = 1..Len(words) /\ \A i \in 1..Len(words) : words[i] \in Word
  BY LenProperties, ElementOfSeq
<1>2. SnakeCased(words) = [i \in 1..Len(words) |-> SnakeCase(words[i])]
  BY <1>1 DEF SnakeCased
<1>3. \A i \in 1..Len(words) : SnakeCase(words[i]) \in Name
  BY <1>1 DEF Name
<1>4. SnakeCased(words) \in [1..Len(words) -> Name]
  BY <1>2, <1>3
<1>5. SnakeCased(words) \in Path /\ Len(SnakeCased(words)) = Len(words)
  BY <1>1, <1>4, LenProperties, SeqDef DEF Path
<1>6. QED
  BY <1>2, <1>5

LEMMA ModuleTyped ==
    ASSUME package \in Packages, NEW ns \in Seq(Word)
    PROVE  ModulePath(ns) \in Path
<1> DEFINE r == Redirected(ns)
<1>1. r \in Seq(Word)
  BY RootTyped DEF Redirected
<1>2. ASSUME StartsWithRoot(r)
      PROVE  WithoutRoot(r) \in Seq(Word)
  <2> DEFINE n == Len(Root)
             tail == From(r[n], Len(Root[n]) + 2)
  <2>1. n \in Nat \ {0} /\ n \in 1..Len(r) /\ Root[n] \in Seq(STRING)
    BY <1>1, <1>2, RootTyped, LenProperties DEF StartsWithRoot, Word
  <2>2. r[n] \in Seq(STRING)
    BY <1>1, <2>1, ElementOfSeq DEF Word
  <2>3. Len(Root[n]) + 2 \in Nat \ {0}
    BY <2>1, LenProperties
  <2>4. tail \in Word
    BY <2>2, <2>3, FromTyped DEF Word
  <2>5. From(r, n + 1) \in Seq(Word)
    BY <1>1, <2>1, FromTyped
  <2> HIDE DEF tail
  <2>6. (IF tail = <<>> THEN <<>> ELSE <<tail>>) \in Seq(Word)
    BY <2>4
  <2>7. (IF tail = <<>> THEN <<>> ELSE <<tail>>) \o From(r, n + 1) \in Seq(Word)
    BY <2>5, <2>6, ConcatProperties
  <2>8. QED
    BY <2>7 DEF WithoutRoot, tail
<1>3. From(r, Len(Root)) \in Seq(Word)
  BY <1>1, RootTyped, FromTyped
<1>4. Trimmed(ns) \in Seq(Word)
  BY <1>1, <1>2, <1>3 DEF Trimmed
<1>5. QED
  BY <1>4, SnakeCasedIs DEF ModulePath

----------------------------------------------------------------------------
(* The files of one module. *)

GeneratedIn(p) == Append(p, Generated)

ClientsIn(p) == Append(GeneratedIn(p), Clients)

ModelsIn(p) == Append(GeneratedIn(p), Models)

\* A file below generated, which module of the crate it belongs to.
Owns(p, q) == /\ Len(q) \in (Len(p) + 1)..(Len(p) + 3)
              /\ q[Len(p) + 1] = Generated
              /\ \A i \in 1..Len(p) : q[i] = p[i]

LEMMA OneOwner ==
    ASSUME NEW p \in Path, NEW q \in Path, NEW r, Free(p), Free(q), Owns(p, r), Owns(q, r)
    PROVE  p = q
<1>1. Len(p) \in Nat /\ Len(q) \in Nat
  BY LenProperties DEF Path
<1>2. Len(p) = Len(q)
  BY <1>1 DEF Owns, Free, Reserved
<1>3. QED
  BY <1>1, <1>2, SeqEqual DEF Owns, Path

LEMMA FreeHasNoOwner ==
    ASSUME NEW p \in Path, NEW q \in Path, Free(q)
    PROVE  ~Owns(p, q)
<1>1. Len(p) \in Nat /\ Len(q) \in Nat
  BY LenProperties DEF Path
<1>2. QED
  BY <1>1 DEF Owns, Free, Reserved

LEMMA DirectoryIs ==
    ASSUME NEW dir \in Path, NEW names \in SUBSET Name
    PROVE  /\ DOMAIN Directory(dir, names) =
                IF names = {} THEN {} ELSE {dir} \cup {Append(dir, name) : name \in names}
           /\ names # {} => Directory(dir, names)[dir] = names
           /\ \A name \in names : Directory(dir, names)[Append(dir, name)] = {}
<1>1. \A name \in names : Append(dir, name) # dir
  BY AppendProperties, LenProperties DEF Path
<1>2. CASE names = {}
  BY <1>2 DEF Directory, NoFiles
<1>3. CASE names # {}
  <2> DEFINE below == {Append(dir, name) : name \in names}
             f == [path \in below |-> {}]
             g == [x \in {dir} |-> names]
  <2>1. Directory(dir, names) = [x \in (below \cup {dir}) |-> IF x \in below THEN f[x] ELSE g[x]]
    BY <1>3 DEF Directory, Over, File
  <2>2. dir \notin below
    BY <1>1
  <2> HIDE DEF below
  <2>3. DOMAIN Directory(dir, names) = below \cup {dir} /\ Directory(dir, names)[dir] = names
    BY <2>1, <2>2
  <2>4. \A x \in below : Directory(dir, names)[x] = {}
    BY <2>1
  <2>5. QED
    BY <1>3, <2>3, <2>4 DEF below
<1>4. QED
  BY <1>2, <1>3

\* Where the files of a module are.
LEMMA Places ==
    ASSUME NEW p \in Path
    PROVE  /\ GeneratedIn(p) \in Path /\ ClientsIn(p) \in Path /\ ModelsIn(p) \in Path
           /\ Owns(p, GeneratedIn(p)) /\ Owns(p, ClientsIn(p)) /\ Owns(p, ModelsIn(p))
           /\ Len(GeneratedIn(p)) = Len(p) + 1
           /\ Len(ClientsIn(p)) = Len(p) + 2 /\ Len(ModelsIn(p)) = Len(p) + 2
           /\ ClientsIn(p) # ModelsIn(p)
           /\ \A name \in Name :
                 /\ Append(ClientsIn(p), name) \in Path /\ Append(ModelsIn(p), name) \in Path
                 /\ Owns(p, Append(ClientsIn(p), name)) /\ Owns(p, Append(ModelsIn(p), name))
                 /\ Len(Append(ClientsIn(p), name)) = Len(p) + 3
                 /\ Len(Append(ModelsIn(p), name)) = Len(p) + 3
                 /\ \A other \in Name : Append(ClientsIn(p), name) # Append(ModelsIn(p), other)
<1>1. Len(p) \in Nat /\ Generated \in Name /\ Clients \in Name /\ Models \in Name
  BY LenProperties DEF Path, Name, Reserved
<1>2. /\ GeneratedIn(p) \in Path /\ Len(GeneratedIn(p)) = Len(p) + 1
      /\ \A i \in 1..Len(p) : GeneratedIn(p)[i] = p[i]
      /\ GeneratedIn(p)[Len(p) + 1] = Generated
  BY <1>1, AppendProperties DEF Path, GeneratedIn
<1>3. ASSUME NEW name \in Name
      PROVE  LET d == Append(GeneratedIn(p), name)
             IN  /\ d \in Path /\ Len(d) = Len(p) + 2
                 /\ \A i \in 1..Len(p) : d[i] = p[i]
                 /\ d[Len(p) + 1] = Generated /\ d[Len(p) + 2] = name
  <2>1. LET d == Append(GeneratedIn(p), name)
        IN  /\ d \in Path /\ Len(d) = Len(GeneratedIn(p)) + 1
            /\ \A i \in 1..Len(GeneratedIn(p)) : d[i] = GeneratedIn(p)[i]
            /\ d[Len(GeneratedIn(p)) + 1] = name
    BY <1>2, AppendProperties DEF Path
  <2>2. QED
    BY <1>1, <1>2, <2>1
<1>4. ASSUME NEW name \in Name, NEW dir \in {ClientsIn(p), ModelsIn(p)}
      PROVE  /\ Append(dir, name) \in Path /\ Len(Append(dir, name)) = Len(p) + 3
             /\ \A i \in 1..(Len(p) + 2) : Append(dir, name)[i] = dir[i]
  <2>1. dir \in Path /\ Len(dir) = Len(p) + 2
    BY <1>1, <1>3 DEF ClientsIn, ModelsIn
  <2>2. QED
    BY <1>1, <2>1, AppendProperties DEF Path
<1>5. /\ ClientsIn(p)[Len(p) + 2] = Clients /\ ModelsIn(p)[Len(p) + 2] = Models
      /\ ClientsIn(p)[Len(p) + 1] = Generated /\ ModelsIn(p)[Len(p) + 1] = Generated
      /\ \A i \in 1..Len(p) : ClientsIn(p)[i] = p[i] /\ ModelsIn(p)[i] = p[i]
      /\ ClientsIn(p) \in Path /\ ModelsIn(p) \in Path
      /\ Len(ClientsIn(p)) = Len(p) + 2 /\ Len(ModelsIn(p)) = Len(p) + 2
  BY <1>1, <1>3 DEF ClientsIn, ModelsIn
<1>6. ASSUME NEW name \in Name
      PROVE  /\ Append(ClientsIn(p), name) \in Path /\ Append(ModelsIn(p), name) \in Path
             /\ Owns(p, Append(ClientsIn(p), name)) /\ Owns(p, Append(ModelsIn(p), name))
             /\ Len(Append(ClientsIn(p), name)) = Len(p) + 3
             /\ Len(Append(ModelsIn(p), name)) = Len(p) + 3
             /\ Append(ClientsIn(p), name)[Len(p) + 2] = Clients
             /\ Append(ModelsIn(p), name)[Len(p) + 2] = Models
  BY <1>1, <1>4, <1>5 DEF Owns
<1>7. Owns(p, GeneratedIn(p)) /\ Owns(p, ClientsIn(p)) /\ Owns(p, ModelsIn(p))
  BY <1>1, <1>2, <1>5 DEF Owns
<1>8. QED
  BY <1>2, <1>5, <1>6, <1>7, Words

ItemsTyped == \A c \in content : c.item.name \in Word /\ c.item.kind \in Kinds

LEMMA NamesTyped ==
    ASSUME ItemsTyped, NEW p
    PROVE  /\ ClientFiles(p) \in SUBSET Name /\ ModelFiles(p) \in SUBSET Name
           /\ ClientFiles(p) # {} => HasContent(p)
           /\ HasModels(p) => HasContent(p)
           /\ HasModels(p) <=> ModelFiles(p) # {}
<1>1. \A item \in ItemsIn(p) : item.name \in Word /\ item.kind \in Kinds
  BY DEF ItemsTyped, ItemsIn
<1>2. \A item \in ItemsIn(p) : item.kind \in {"enum", "union", "model"} => FileOf(item.kind) \in Name
  BY DEF FileOf, Name, Reserved
<1>3. ClientFiles(p) \in SUBSET Name /\ ModelFiles(p) \in SUBSET Name
  BY <1>1, <1>2 DEF ClientFiles, ModelFiles, Name
<1>4. ASSUME HasModels(p)
      PROVE  ModelFiles(p) # {}
  <2>1. PICK item \in ItemsIn(p) : item.kind # "accessors"
    BY <1>4 DEF HasModels
  <2>2. item.kind \in {"client", "enum", "union", "model"}
    BY <1>1, <2>1 DEF Kinds
  <2>3. QED
    BY <2>1, <2>2 DEF ModelFiles
<1>5. ASSUME ModelFiles(p) # {}
      PROVE  HasModels(p)
  <2>1. \E item \in ItemsIn(p) : item.kind \in {"client", "enum", "union", "model"}
    BY <1>5 DEF ModelFiles
  <2>2. QED
    BY <2>1 DEF HasModels
<1>6. (ClientFiles(p) # {} => HasContent(p)) /\ (HasModels(p) => HasContent(p))
  BY DEF ClientFiles, HasModels, HasContent
<1>7. QED
  BY <1>3, <1>4, <1>5, <1>6

LEMMA OverIs ==
    ASSUME NEW f, NEW g, DOMAIN f \cap DOMAIN g = {}
    PROVE  /\ DOMAIN Over(f, g) = DOMAIN f \cup DOMAIN g
           /\ \A q \in DOMAIN f : Over(f, g)[q] = f[q]
           /\ \A q \in DOMAIN g : Over(f, g)[q] = g[q]
BY DEF Over

\* Among the files of a module that has any, each but the topmost is declared by
\* one of them, and what they declare is there.
LEMMA EmittedClosed ==
    ASSUME ItemsTyped, NEW p \in Path
    PROVE  /\ \A q \in DOMAIN EmittedFor(p) :
                 /\ Owns(p, q) /\ q \in Path
                 /\ \A name \in EmittedFor(p)[q] : Append(q, name) \in DOMAIN EmittedFor(p)
                 /\ \/ q = Append(p, Generated) /\ HasContent(p)
                    \/ \E r \in DOMAIN EmittedFor(p) : \E name \in EmittedFor(p)[r] : q = Append(r, name)
           /\ HasContent(p) => /\ Append(p, Generated) \in DOMAIN EmittedFor(p)
                               /\ EmittedFor(p)[Append(p, Generated)] = GeneratedModRs(p)
<1> DEFINE C  == ClientsIn(p)
           M  == ModelsIn(p)
           G  == GeneratedIn(p)
           cf == ClientFiles(p)
           mf == ModelFiles(p)
           gf == GeneratedModRs(p)
           fc == Directory(C, cf)
           fm == Directory(M, mf)
           fg == IF HasContent(p) THEN File(G, gf) ELSE NoFiles
           E  == EmittedFor(p)
<1>1. E = Over(fc, Over(fm, fg))
  BY DEF EmittedFor, EmittedFrom, ClientsIn, ModelsIn, GeneratedIn
<1>2. /\ cf \in SUBSET Name /\ mf \in SUBSET Name
      /\ cf # {} => HasContent(p)
      /\ HasModels(p) => HasContent(p)
      /\ HasModels(p) <=> mf # {}
  BY NamesTyped
<1>3. gf = (IF cf # {} THEN {Clients} ELSE {}) \cup (IF mf # {} THEN {Models} ELSE {})
  BY <1>2 DEF GeneratedModRs
<1>4. /\ C \in Path /\ M \in Path /\ G \in Path
      /\ Owns(p, G) /\ Owns(p, C) /\ Owns(p, M)
      /\ Len(p) \in Nat /\ Len(G) = Len(p) + 1 /\ Len(C) = Len(p) + 2 /\ Len(M) = Len(p) + 2 /\ C # M
      /\ C = Append(G, Clients) /\ M = Append(G, Models) /\ G = Append(p, Generated)
  BY Places, LenProperties DEF Path, ClientsIn, ModelsIn, GeneratedIn
<1>5. \A name \in Name :
        /\ Append(C, name) \in Path /\ Append(M, name) \in Path
        /\ Owns(p, Append(C, name)) /\ Owns(p, Append(M, name))
        /\ Len(Append(C, name)) = Len(p) + 3 /\ Len(Append(M, name)) = Len(p) + 3
        /\ \A other \in Name : Append(C, name) # Append(M, other)
  BY Places
<1>6. /\ DOMAIN fc = IF cf = {} THEN {} ELSE {C} \cup {Append(C, name) : name \in cf}
      /\ cf # {} => fc[C] = cf
      /\ \A name \in cf : fc[Append(C, name)] = {}
  BY <1>2, <1>4, DirectoryIs
<1>7. /\ DOMAIN fm = IF mf = {} THEN {} ELSE {M} \cup {Append(M, name) : name \in mf}
      /\ mf # {} => fm[M] = mf
      /\ \A name \in mf : fm[Append(M, name)] = {}
  BY <1>2, <1>4, DirectoryIs
<1>8. /\ DOMAIN fg = IF HasContent(p) THEN {G} ELSE {}
      /\ HasContent(p) => fg[G] = gf
  BY DEF File, NoFiles
<1> HIDE DEF C, M, G, cf, mf, gf, fc, fm, fg, E
<1>9. DOMAIN fm \cap DOMAIN fg = {}
  <2>1. \A q \in DOMAIN fm : Len(q) # Len(p) + 1
    BY <1>2, <1>4, <1>5, <1>7
  <2>2. QED
    BY <1>4, <1>8, <2>1
<1>10. DOMAIN fc \cap (DOMAIN fm \cup DOMAIN fg) = {}
  <2>1. \A q \in DOMAIN fc : Len(q) # Len(p) + 1
    BY <1>2, <1>4, <1>5, <1>6
  <2>2. \A name \in Name : C # Append(M, name) /\ M # Append(C, name)
    BY <1>4, <1>5
  <2>3. DOMAIN fc \cap DOMAIN fm = {}
    BY <1>2, <1>4, <1>5, <1>6, <1>7, <2>2
  <2>4. QED
    BY <1>4, <1>8, <2>1, <2>3
<1>11. /\ DOMAIN E = DOMAIN fc \cup DOMAIN fm \cup DOMAIN fg
       /\ \A q \in DOMAIN fc : E[q] = fc[q]
       /\ \A q \in DOMAIN fm : E[q] = fm[q]
       /\ \A q \in DOMAIN fg : E[q] = fg[q]
  <2>1. /\ DOMAIN Over(fm, fg) = DOMAIN fm \cup DOMAIN fg
        /\ \A q \in DOMAIN fm : Over(fm, fg)[q] = fm[q]
        /\ \A q \in DOMAIN fg : Over(fm, fg)[q] = fg[q]
    BY <1>9, OverIs
  <2>2. /\ DOMAIN E = DOMAIN fc \cup DOMAIN Over(fm, fg)
        /\ \A q \in DOMAIN fc : E[q] = fc[q]
        /\ \A q \in DOMAIN Over(fm, fg) : E[q] = Over(fm, fg)[q]
    BY <1>1, <1>10, <2>1, OverIs
  <2>3. QED
    BY <2>1, <2>2
<1>12. ASSUME NEW q \in DOMAIN fg
       PROVE  /\ q = G /\ HasContent(p)
              /\ \A name \in E[q] : Append(q, name) \in DOMAIN E
  <2>1. q = G /\ HasContent(p) /\ E[q] = gf
    BY <1>8, <1>11
  <2>2. \A name \in gf : (name = Clients /\ cf # {}) \/ (name = Models /\ mf # {})
    BY <1>3
  <2>3. (cf # {} => C \in DOMAIN E) /\ (mf # {} => M \in DOMAIN E)
    BY <1>6, <1>7, <1>11
  <2>4. QED
    BY <1>4, <2>1, <2>2, <2>3
<1>13. ASSUME NEW q \in DOMAIN fc
       PROVE  /\ Owns(p, q) /\ q \in Path
              /\ \A name \in E[q] : Append(q, name) \in DOMAIN E
              /\ \E r \in DOMAIN E : \E name \in E[r] : q = Append(r, name)
  <2>1. cf # {} /\ C \in DOMAIN E /\ E[C] = cf
    BY <1>6, <1>11
  <2>2. CASE q = C
    <3>1. G \in DOMAIN E /\ Clients \in E[G]
      BY <1>2, <1>3, <1>8, <1>11, <2>1
    <3>2. \A name \in cf : Append(C, name) \in DOMAIN E
      BY <1>6, <1>11, <2>1
    <3>3. QED
      BY <1>4, <2>1, <2>2, <3>1, <3>2
  <2>3. CASE \E name \in cf : q = Append(C, name)
    <3>1. E[q] = {}
      BY <1>6, <1>11, <2>3
    <3>2. QED
      BY <1>2, <1>5, <2>1, <2>3, <3>1
  <2>4. QED
    BY <1>6, <2>2, <2>3
<1>14. ASSUME NEW q \in DOMAIN fm
       PROVE  /\ Owns(p, q) /\ q \in Path
              /\ \A name \in E[q] : Append(q, name) \in DOMAIN E
              /\ \E r \in DOMAIN E : \E name \in E[r] : q = Append(r, name)
  <2>1. mf # {} /\ M \in DOMAIN E /\ E[M] = mf
    BY <1>7, <1>11
  <2>2. CASE q = M
    <3>1. G \in DOMAIN E /\ Models \in E[G]
      BY <1>2, <1>3, <1>8, <1>11, <2>1
    <3>2. \A name \in mf : Append(M, name) \in DOMAIN E
      BY <1>7, <1>11, <2>1
    <3>3. QED
      BY <1>4, <2>1, <2>2, <3>1, <3>2
  <2>3. CASE \E name \in mf : q = Append(M, name)
    <3>1. E[q] = {}
      BY <1>7, <1>11, <2>3
    <3>2. QED
      BY <1>2, <1>5, <2>1, <2>3, <3>1
  <2>4. QED
    BY <1>7, <2>2, <2>3
<1>15. HasContent(p) => G \in DOMAIN E /\ E[G] = gf
  BY <1>8, <1>11
<1>16. \A q \in DOMAIN E :
         /\ Owns(p, q) /\ q \in Path
         /\ \A name \in E[q] : Append(q, name) \in DOMAIN E
         /\ \/ q = G /\ HasContent(p)
            \/ \E r \in DOMAIN E : \E name \in E[r] : q = Append(r, name)
  BY <1>4, <1>11, <1>12, <1>13, <1>14
<1>17. QED
  BY <1>4, <1>15, <1>16 DEF E, gf

----------------------------------------------------------------------------
(* The inductive invariant. *)

Started == <<>> \in DOMAIN files

\* Every item is in the module of its namespace, once it has been adapted, and
\* no module is without those above it.
Adapted ==
    /\ package \in Packages /\ NoReserved
    /\ todo \subseteq package.items
    /\ \A c \in content : c.item \in package.items /\ c.path = ModulePath(c.item.ns) /\ c.path \in modules
    /\ \A item \in package.items \ todo : [path |-> ModulePath(item.ns), item |-> item] \in content
    /\ \A m \in modules : m \in Path /\ Free(m)
    /\ \A m \in modules : \A n \in 0..Len(m) : SubSeq(m, 1, n) \in modules

\* Nothing is written before everything has been adapted.
Phases ==
    /\ files = NoFiles \/ Started
    /\ Started => todo = {}
    /\ pending # {} => Started
    /\ pending \subseteq modules /\ <<>> \in modules

\* What the file of a module declares.
ModRs(m) == IF m = <<>> THEN LibRs ELSE SubModRs(m)

\* The modules whose files are complete.
Emitted == (modules \cap DOMAIN files) \ pending

\* The modules are visited along the tree: each once, and none is passed over.
Visited ==
    /\ \A m \in pending : m = <<>> \/ m \notin DOMAIN files
    /\ \A m \in Emitted : SubModules(m) \subseteq Emitted \cup pending
    /\ \A m \in Emitted \cup pending : m = <<>> \/ \E p \in Emitted : m \in SubModules(p)
    /\ Started => \A m \in modules : m \in Emitted \/ \E p \in pending : IsPrefix(p, m)

\* The files are those of the modules that have been visited.
Exact ==
    /\ \A m \in modules \cap DOMAIN files : files[m] = ModRs(m)
    /\ \A m \in Emitted : \A q \in DOMAIN EmittedFor(m) : q \in DOMAIN files /\ files[q] = EmittedFor(m)[q]
    /\ \A q \in DOMAIN files : q \in modules \/ \E m \in Emitted : q \in DOMAIN EmittedFor(m)

Inv == Adapted /\ Phases /\ Visited /\ Exact

LEMMA InvImpliesTyped == ASSUME Inv PROVE ItemsTyped
BY LayoutAssumption DEF Inv, Adapted, ItemsTyped

LEMMA InitHolds == ASSUME Init, NoReserved PROVE Inv
<1>1. DOMAIN files = {} /\ ~Started /\ Emitted = {}
  BY DEF Init, NoFiles, Started, Emitted
<1>2. <<>> \in Path /\ Free(<<>>)
  BY EmptySeq DEF Path, Free
<1>3. \A n \in 0..Len(<<>>) : SubSeq(<<>>, 1, n) = <<>>
  BY SubSeqEmpty
<1>4. Adapted
  <2>1. modules = {<<>>} /\ content = {} /\ todo = package.items /\ package \in Packages
    BY DEF Init
  <2>2. \A m \in modules : \A n \in 0..Len(m) : SubSeq(m, 1, n) \in modules
    BY <1>3, <2>1
  <2>3. \A m \in modules : m \in Path /\ Free(m)
    BY <1>2, <2>1
  <2>4. package.items \ todo = {} /\ todo \subseteq package.items
    BY <2>1
  <2>5. QED
    BY <2>1, <2>2, <2>3, <2>4 DEF Adapted
<1>5. Phases /\ Visited /\ Exact
  BY <1>1 DEF Init, Phases, Visited, Exact
<1>6. QED
  BY <1>4, <1>5 DEF Inv

\* The package, and so where its namespaces go, stays the same.
LEMMA SameModules ==
    ASSUME package' = package
    PROVE  /\ \A ns : ModulePath(ns)' = ModulePath(ns)
           /\ NoReserved' <=> NoReserved
<1>1. \A ns : ModulePath(ns)' = ModulePath(ns)
  BY DEF ModulePath, Trimmed, Redirected, StartsWithRoot, WithoutRoot, Parent, Root
<1>2. QED
  BY <1>1 DEF NoReserved

LEMMA AdaptStep == ASSUME Inv, Adapt PROVE Inv'
<1>1. PICK item \in todo :
        /\ modules' = WithModule(ModulePath(item.ns))
        /\ content' = content \cup {[path |-> ModulePath(item.ns), item |-> item]}
        /\ todo' = todo \ {item}
        /\ UNCHANGED <<package, pending, files>>
  BY DEF Adapt, AdaptItem
<1> DEFINE path == ModulePath(item.ns)
<1>2. ~Started /\ files = NoFiles /\ pending = {}
  BY <1>1 DEF Inv, Phases
<1>3. package \in Packages /\ item \in package.items /\ item.ns \in Seq(Word)
  BY <1>1, LayoutAssumption DEF Inv, Adapted
<1>4. path \in Path /\ Free(path) /\ Len(path) \in Nat
  BY <1>3, ModuleTyped, LenProperties DEF Inv, Adapted, NoReserved, Path
<1> HIDE DEF path
<1>5. modules' = modules \cup {SubSeq(path, 1, n) : n \in 0..Len(path)}
  BY <1>1 DEF WithModule, path
<1>6. path \in modules'
  <2>1. SubSeq(path, 1, Len(path)) = path
    BY <1>4, SubSeqFull DEF Path
  <2>2. Len(path) \in 0..Len(path)
    BY <1>4
  <2>3. SubSeq(path, 1, Len(path)) \in modules'
    BY <1>5, <2>2
  <2>4. QED
    BY <2>1, <2>3
<1>7. \A m \in modules' : m \in Path /\ Free(m)
  BY <1>4, <1>5, PrefixFree DEF Inv, Adapted
<1>8. ASSUME NEW m \in modules', NEW n \in 0..Len(m)
      PROVE  SubSeq(m, 1, n) \in modules'
  <2>1. CASE m \in modules
    BY <1>5, <2>1 DEF Inv, Adapted
  <2>2. CASE \E k \in 0..Len(path) : m = SubSeq(path, 1, k)
    <3>1. PICK k \in 0..Len(path) : m = SubSeq(path, 1, k)
      BY <2>2
    <3>2. Len(m) = k /\ m \in Path /\ \A i \in 1..k : m[i] = path[i]
      BY <1>4, <3>1, PrefixTyped
    <3>3. n \in 0..Len(path)
      BY <1>4, <3>1, <3>2
    <3>4. SubSeq(m, 1, n) = SubSeq(path, 1, n)
      <4>1. /\ SubSeq(m, 1, n) \in Path /\ Len(SubSeq(m, 1, n)) = n
            /\ \A i \in 1..n : SubSeq(m, 1, n)[i] = m[i]
        BY <3>2, PrefixTyped
      <4>2. /\ SubSeq(path, 1, n) \in Path /\ Len(SubSeq(path, 1, n)) = n
            /\ \A i \in 1..n : SubSeq(path, 1, n)[i] = path[i]
        BY <1>4, <3>3, PrefixTyped
      <4>3. \A i \in 1..n : i \in 1..k
        BY <3>1, <3>2
      <4>4. QED
        BY <3>2, <4>1, <4>2, <4>3, SeqEqual DEF Path
    <3>5. QED
      BY <1>5, <3>3, <3>4
  <2>3. QED
    BY <1>5, <2>1, <2>2
<1>9. Adapted'
  <2>1. (package \in Packages /\ NoReserved)' /\ todo' \subseteq package'.items
    BY <1>1, SameModules DEF Inv, Adapted
  <2>2. \A c \in content' :
           c.item \in package'.items /\ c.path = ModulePath(c.item.ns)' /\ c.path \in modules'
    <3>1. \A c \in content : c.item \in package.items /\ c.path = ModulePath(c.item.ns) /\ c.path \in modules'
      BY <1>5 DEF Inv, Adapted
    <3>2. \A c \in content' : c \in content \/ c = [path |-> path, item |-> item]
      BY <1>1 DEF path
    <3>3. QED
      BY <1>1, <1>3, <1>6, <3>1, <3>2, SameModules DEF path
  <2>3. \A i \in package'.items \ todo' : [path |-> ModulePath(i.ns)', item |-> i] \in content'
    BY <1>1, SameModules DEF Inv, Adapted
  <2>4. QED
    BY <1>7, <1>8, <2>1, <2>2, <2>3 DEF Adapted
<1>10. ~Started' /\ Emitted' = {} /\ DOMAIN files' = {}
  BY <1>1, <1>2 DEF Started, Emitted, NoFiles
<1>11. Phases'
  BY <1>1, <1>2, <1>5, <1>10 DEF Inv, Phases
<1>12. Visited' /\ Exact'
  BY <1>1, <1>2, <1>10 DEF Visited, Exact
<1>13. QED
  BY <1>9, <1>11, <1>12 DEF Inv

\* What a step after the adapter leaves alone.
LEMMA SameContent ==
    ASSUME UNCHANGED <<package, todo, modules, content>>
    PROVE  /\ Adapted' <=> Adapted
           /\ \A m : /\ EmittedFor(m)' = EmittedFor(m) /\ ModRs(m)' = ModRs(m)
                     /\ SubModules(m)' = SubModules(m) /\ HasContent(m)' = HasContent(m)
<1>1. Adapted' <=> Adapted
  <2>1. \A c \in content : ModulePath(c.item.ns)' = ModulePath(c.item.ns)
    BY SameModules
  <2>2. \A i \in package.items : ModulePath(i.ns)' = ModulePath(i.ns)
    BY SameModules
  <2>3. NoReserved' <=> NoReserved
    BY SameModules
  <2>4. QED
    BY <2>1, <2>2, <2>3 DEF Adapted
<1>2. \A m : EmittedFor(m)' = EmittedFor(m) /\ ModRs(m)' = ModRs(m)
  BY DEF EmittedFor, EmittedFrom, ModRs, LibRs, SubModRs, ClientFiles, ModelFiles, GeneratedModRs, HasModels, HasContent,
         ItemsIn, SubModules
<1>3. \A m : SubModules(m)' = SubModules(m) /\ HasContent(m)' = HasContent(m)
  BY DEF SubModules, HasContent, ItemsIn
<1>4. QED
  BY <1>1, <1>2, <1>3

LEMMA Stuttering == ASSUME Inv, UNCHANGED vars PROVE Inv'
<1>1. /\ Adapted' <=> Adapted
      /\ \A m : /\ EmittedFor(m)' = EmittedFor(m) /\ ModRs(m)' = ModRs(m)
                /\ SubModules(m)' = SubModules(m) /\ HasContent(m)' = HasContent(m)
  BY SameContent DEF vars
<1>2. Emitted' = Emitted /\ (Started' <=> Started)
  BY DEF vars, Emitted, Started
<1>3. Phases'
  BY <1>1, <1>2 DEF Inv, vars, Phases
<1>4. Visited'
  BY <1>1, <1>2 DEF Inv, vars, Visited
<1>5. Exact'
  BY <1>1, <1>2 DEF Inv, vars, Exact
<1>6. QED
  BY <1>1, <1>3, <1>4, <1>5 DEF Inv

LEMMA WriteLibRsStep == ASSUME Inv, WriteLibRs PROVE Inv'
<1>1. /\ todo = {} /\ files = NoFiles
      /\ files' = File(<<>>, LibRs)
      /\ pending' = {<<>>}
      /\ UNCHANGED <<package, todo, modules, content>>
  BY DEF WriteLibRs
<1>3. DOMAIN files' = {<<>>} /\ files'[<<>>] = ModRs(<<>>)
  BY <1>1 DEF File, ModRs
<1>4. Started' /\ Emitted' = {}
  BY <1>1, <1>3 DEF Started, Emitted
<1>5. Adapted'
  BY <1>1, SameContent DEF Inv
<1>6. Phases'
  BY <1>1, <1>4, SameContent DEF Inv, Phases
<1>7. Visited'
  <2>1. \A m \in modules' : IsPrefix(<<>>, m)
    <3>1. SUFFICES ASSUME NEW m \in modules'
                   PROVE  IsPrefix(<<>>, m)
      OBVIOUS
    <3>2. m \in Path /\ <<>> \in Path /\ Len(<<>>) = 0 /\ Len(m) \in Nat
      BY <1>1, EmptySeq, LenProperties DEF Inv, Adapted, Path
    <3>3. QED
      BY <3>2, PrefixIs
  <2>2. QED
    BY <1>1, <1>4, <2>1 DEF Visited
<1>8. Exact'
  <2>1. ModRs(<<>>)' = ModRs(<<>>)
    BY <1>1, SameContent
  <2>2. \A m \in modules' \cap DOMAIN files' : files'[m] = ModRs(m)'
    BY <1>3, <2>1
  <2>3. \A q \in DOMAIN files' : q \in modules'
    BY <1>1, <1>3 DEF Inv, Phases
  <2>4. QED
    BY <1>4, <2>2, <2>3 DEF Exact
<1>9. QED
  BY <1>5, <1>6, <1>7, <1>8 DEF Inv

\* The files of a module are new, but for lib.rs, which has been written before.
LEMMA FilesAreNew ==
    ASSUME Inv, NEW p \in pending,
           files' = Over(IF p = <<>> THEN EmittedFor(p)
                         ELSE Over(EmittedFor(p), File(p, SubModRs(p))), files)
    PROVE  /\ DOMAIN files' = DOMAIN EmittedFor(p) \cup {p} \cup DOMAIN files
           /\ \A q \in DOMAIN EmittedFor(p) : files'[q] = EmittedFor(p)[q] /\ q \notin modules /\ q \notin DOMAIN files
           /\ files'[p] = ModRs(p)
           /\ \A q \in DOMAIN files : files'[q] = files[q]
<1> DEFINE E == EmittedFor(p)
           new == IF p = <<>> THEN E ELSE Over(E, File(p, SubModRs(p)))
<1>1. p \in modules /\ p \in Path /\ Free(p) /\ (p = <<>> => p \in DOMAIN files)
  BY DEF Inv, Adapted, Phases, Started
<1>2. \A q \in DOMAIN E : Owns(p, q)
  BY <1>1, InvImpliesTyped, EmittedClosed
<1>3. ASSUME NEW q \in DOMAIN E
      PROVE  q \notin modules /\ q \notin DOMAIN files
  <2>1. q \notin modules
    BY <1>1, <1>2, FreeHasNoOwner DEF Inv, Adapted
  <2>2. ASSUME NEW m \in Emitted, q \in DOMAIN EmittedFor(m)
        PROVE  FALSE
    <3>1. m \in Path /\ Free(m) /\ m # p
      BY DEF Emitted, Inv, Adapted
    <3>2. Owns(m, q)
      BY <2>2, <3>1, InvImpliesTyped, EmittedClosed
    <3>3. QED
      BY <1>1, <1>2, <3>1, <3>2, OneOwner
  <2>3. QED
    BY <2>1, <2>2 DEF Inv, Exact
<1> HIDE DEF E
<1>4. p \notin DOMAIN E
  BY <1>1, <1>3
<1>5. p # <<>> => p \notin DOMAIN files
  BY DEF Inv, Visited
<1>6. /\ DOMAIN new = DOMAIN E \cup (IF p = <<>> THEN {} ELSE {p})
      /\ \A q \in DOMAIN E : new[q] = E[q]
      /\ p # <<>> => new[p] = SubModRs(p)
  BY <1>4 DEF Over, File
<1>7. files' = Over(new, files)
  BY DEF E
<1> HIDE DEF new
<1>8. DOMAIN new \cap DOMAIN files = {}
  BY <1>3, <1>5, <1>6
<1>9. /\ DOMAIN files' = DOMAIN new \cup DOMAIN files
      /\ \A q \in DOMAIN new : files'[q] = new[q]
      /\ \A q \in DOMAIN files : files'[q] = files[q]
  <2>1. /\ DOMAIN Over(new, files) = DOMAIN new \cup DOMAIN files
        /\ \A q \in DOMAIN new : Over(new, files)[q] = new[q]
        /\ \A q \in DOMAIN files : Over(new, files)[q] = files[q]
    BY <1>8, OverIs
  <2>2. QED
    BY <1>7, <2>1
<1>10. DOMAIN files' = DOMAIN E \cup {p} \cup DOMAIN files
  BY <1>1, <1>6, <1>9
<1>11. files'[p] = ModRs(p)
  <2>1. CASE p = <<>>
    BY <1>1, <1>9, <2>1 DEF Inv, Exact
  <2>2. CASE p # <<>>
    BY <1>6, <1>9, <2>2 DEF ModRs
  <2>3. QED
    BY <2>1, <2>2
<1>12. \A q \in DOMAIN E : files'[q] = E[q]
  BY <1>6, <1>9
<1>13. QED
  BY <1>3, <1>9, <1>10, <1>11, <1>12 DEF E

LEMMA EmitModuleStep == ASSUME Inv, EmitModule PROVE Inv'
<1>1. PICK p \in pending :
        /\ files' = Over(IF p = <<>> THEN EmittedFor(p)
                         ELSE Over(EmittedFor(p), File(p, SubModRs(p))), files)
        /\ pending' = (pending \ {p}) \cup SubModules(p)
        /\ UNCHANGED <<package, todo, modules, content>>
  BY DEF EmitModule
<1>2. /\ DOMAIN files' = DOMAIN EmittedFor(p) \cup {p} \cup DOMAIN files
      /\ \A q \in DOMAIN EmittedFor(p) : files'[q] = EmittedFor(p)[q] /\ q \notin modules /\ q \notin DOMAIN files
      /\ files'[p] = ModRs(p)
      /\ \A q \in DOMAIN files : files'[q] = files[q]
  BY <1>1, FilesAreNew
<1>3. /\ p \in modules /\ p \in Path /\ p \notin Emitted
      /\ \A m \in modules : m \in Path
  BY DEF Inv, Adapted, Phases, Emitted
<1>4. \A m \in SubModules(p) :
        m \in modules /\ m \in Path /\ Len(m) = Len(p) + 1 /\ IsPrefix(p, m) /\ m # p /\ m # <<>>
  <2>1. SUFFICES ASSUME NEW m \in SubModules(p)
                 PROVE  m # p /\ m # <<>>
    BY <1>3 DEF SubModules
  <2>2. Len(p) \in Nat /\ Len(m) = Len(p) + 1 /\ m \in Path /\ IsPrefix(p, m)
    BY <1>3, LenProperties DEF SubModules, Path
  <2>3. QED
    BY <1>3, <2>2, Child
<1>5. ASSUME NEW m \in SubModules(p)
      PROVE  m \notin DOMAIN files /\ m \notin pending
  <2>1. SUFFICES ASSUME m \in DOMAIN files \/ m \in pending
                 PROVE  FALSE
    OBVIOUS
  <2>2. m \in Emitted \cup pending /\ m # <<>>
    BY <1>4, <2>1 DEF Emitted
  <2>3. PICK r \in Emitted : m \in SubModules(r)
    BY <2>2 DEF Inv, Visited
  <2>4. r \in Path /\ Len(m) = Len(r) + 1 /\ IsPrefix(r, m)
    BY <1>3, <2>3 DEF Emitted, SubModules
  <2>5. r = p
    BY <1>3, <1>4, <2>4, OneParent
  <2>6. QED
    BY <1>3, <2>5
<1>6. /\ Emitted' = Emitted \cup {p}
      /\ pending' = (pending \ {p}) \cup SubModules(p)
      /\ modules' = modules
  BY <1>1, <1>2, <1>3, <1>4, <1>5 DEF Emitted
<1>7. /\ Adapted' <=> Adapted
      /\ \A m : /\ EmittedFor(m)' = EmittedFor(m) /\ ModRs(m)' = ModRs(m)
                /\ SubModules(m)' = SubModules(m) /\ HasContent(m)' = HasContent(m)
  BY <1>1, SameContent
<1>8. Started /\ Started'
  BY <1>2 DEF Inv, Phases, Started
<1>9. Phases'
  BY <1>1, <1>4, <1>6, <1>7, <1>8 DEF Inv, Phases
<1>10. Visited'
  <2>1. \A m \in pending' : m = <<>> \/ m \notin DOMAIN files'
    <3>1. \A m \in pending : m \in modules
      BY DEF Inv, Phases
    <3>2. QED
      BY <1>2, <1>4, <1>5, <1>6, <3>1 DEF Inv, Visited
  <2>2. \A m \in Emitted' : SubModules(m)' \subseteq Emitted' \cup pending'
    BY <1>6, <1>7 DEF Inv, Visited
  <2>3. \A m \in Emitted' \cup pending' : m = <<>> \/ \E r \in Emitted' : m \in SubModules(r)'
    BY <1>6, <1>7 DEF Inv, Visited
  <2>4. ASSUME NEW m \in modules
        PROVE  m \in Emitted' \/ \E r \in pending' : IsPrefix(r, m)
    <3>1. CASE m \in Emitted
      BY <1>6, <3>1
    <3>2. CASE \E r \in pending \ {p} : IsPrefix(r, m)
      BY <1>6, <3>2
    <3>3. CASE IsPrefix(p, m)
      <4>1. Len(p) <= Len(m) /\ (\A i \in 1..Len(p) : p[i] = m[i]) /\ Len(p) \in Nat /\ Len(m) \in Nat
        BY <1>3, <3>3, PrefixIs, LenProperties DEF Path
      <4>2. CASE Len(p) = Len(m)
        BY <1>3, <1>6, <4>1, <4>2, SeqEqual DEF Path
      <4>3. CASE Len(p) < Len(m)
        <5> DEFINE c == SubSeq(m, 1, Len(p) + 1)
        <5>1. Len(p) + 1 \in 0..Len(m)
          BY <4>1, <4>3
        <5>2. c \in modules
          BY <5>1 DEF Inv, Adapted
        <5>3. c \in Path /\ Len(c) = Len(p) + 1 /\ \A i \in 1..(Len(p) + 1) : c[i] = m[i]
          BY <1>3, <5>1, PrefixTyped
        <5> HIDE DEF c
        <5>4. IsPrefix(c, m)
          BY <1>3, <5>1, <5>3, PrefixIs
        <5>5. IsPrefix(p, c)
          BY <1>3, <4>1, <5>3, PrefixIs
        <5>6. c \in SubModules(p)
          BY <5>2, <5>3, <5>5 DEF SubModules
        <5>7. QED
          BY <1>6, <5>4, <5>6
      <4>4. QED
        BY <4>1, <4>2, <4>3
    <3>4. QED
      BY <1>8, <3>1, <3>2, <3>3 DEF Inv, Visited
  <2>5. QED
    BY <1>6, <2>1, <2>2, <2>3, <2>4 DEF Visited
<1>11. Exact'
  <2>1. \A m \in modules' \cap DOMAIN files' : files'[m] = ModRs(m)'
    BY <1>2, <1>6, <1>7 DEF Inv, Exact
  <2>2. \A m \in Emitted' : \A q \in DOMAIN EmittedFor(m)' : q \in DOMAIN files' /\ files'[q] = EmittedFor(m)'[q]
    BY <1>2, <1>6, <1>7 DEF Inv, Exact
  <2>3. \A q \in DOMAIN files' : q \in modules' \/ \E m \in Emitted' : q \in DOMAIN EmittedFor(m)'
    BY <1>2, <1>3, <1>6, <1>7 DEF Inv, Exact
  <2>4. QED
    BY <2>1, <2>2, <2>3 DEF Exact
<1>12. QED
  BY <1>7, <1>9, <1>10, <1>11 DEF Inv

----------------------------------------------------------------------------
(* What follows from it. *)

\* The end finds every module complete.
LEMMA AllEmitted ==
    ASSUME Inv, Done
    PROVE  Started /\ Emitted = modules /\ modules \subseteq DOMAIN files
<1>1. Started
  BY DEF Done, Inv, Phases
<1>2. \A m \in modules : m \in Emitted
  BY <1>1 DEF Done, Inv, Visited
<1>3. QED
  BY <1>1, <1>2 DEF Inv, Phases, Emitted

LEMMA DeclaredIfInv == ASSUME Inv PROVE DeclaredAreWritten
<1> DEFINE missing == {p \in {<<Generated>>} : ~HasContent(<<>>)}
<1> SUFFICES ASSUME Done
             PROVE  Declared \cup {<<>>} = Written \cup missing
  BY DEF DeclaredAreWritten
<1>1. Started /\ Emitted = modules /\ modules \subseteq DOMAIN files /\ <<>> \in modules
  BY AllEmitted DEF Inv, Phases
<1>2. /\ \A m \in modules : m \in Path /\ files[m] = ModRs(m)
      /\ \A m \in modules : \A q \in DOMAIN EmittedFor(m) : q \in DOMAIN files /\ files[q] = EmittedFor(m)[q]
      /\ \A q \in DOMAIN files : q \in modules \/ \E m \in modules : q \in DOMAIN EmittedFor(m)
      /\ \A m \in modules : m = <<>> \/ \E r \in modules : m \in SubModules(r)
  BY <1>1 DEF Inv, Adapted, Visited, Exact
<1>3. \A r \in modules : \A m \in SubModules(r) :
         m \in modules /\ m = Append(r, Last(m)) /\ Last(m) \in ModRs(r)
  <2>1. SUFFICES ASSUME NEW r \in modules, NEW m \in SubModules(r)
                 PROVE  m \in modules /\ m = Append(r, Last(m)) /\ Last(m) \in ModRs(r)
    OBVIOUS
  <2>2. m \in modules /\ m \in Path /\ r \in Path /\ Len(m) = Len(r) + 1 /\ IsPrefix(r, m)
    BY <1>2, <2>1 DEF SubModules
  <2>3. m = Append(r, Last(m))
    BY <2>2, Child
  <2>4. Last(m) \in Declarations(SubModules(r))
    BY <2>1 DEF Declarations
  <2>5. QED
    BY <2>2, <2>3, <2>4 DEF ModRs, LibRs, SubModRs
<1>11. Append(<<>>, Generated) = <<Generated>>
  OBVIOUS
<1>4. ASSUME NEW q \in DOMAIN files, NEW name \in files[q]
      PROVE  Append(q, name) \in DOMAIN files \cup missing
  <2>1. CASE q \in modules
    <3>1. name \in ModRs(q) /\ q \in Path
      BY <1>2, <1>4, <2>1
    <3>2. CASE name = Generated /\ HasContent(q)
      BY <1>2, <2>1, <3>1, <3>2, InvImpliesTyped, EmittedClosed
    <3>3. CASE \E m \in SubModules(q) : name = Last(m)
      BY <1>1, <1>3, <2>1, <3>3
    <3>4. CASE name = Generated /\ q = <<>> /\ ~HasContent(q)
      <4>1. Append(q, name) = <<Generated>>
        BY <1>11, <3>4
      <4>2. QED
        BY <3>4, <4>1
    <3>5. QED
      BY <3>1, <3>2, <3>3, <3>4 DEF ModRs, LibRs, SubModRs, Declarations
  <2>2. ASSUME NEW m \in modules, q \in DOMAIN EmittedFor(m)
        PROVE  Append(q, name) \in DOMAIN files
    <3>1. name \in EmittedFor(m)[q] /\ m \in Path
      BY <1>2, <1>4, <2>2
    <3>2. Append(q, name) \in DOMAIN EmittedFor(m)
      BY <2>2, <3>1, InvImpliesTyped, EmittedClosed
    <3>3. QED
      BY <1>2, <3>2
  <2>3. QED
    BY <1>2, <2>1, <2>2
<1>5. ASSUME NEW q \in DOMAIN files, q # <<>>
      PROVE  \E r \in DOMAIN files : \E name \in files[r] : q = Append(r, name)
  <2>1. CASE q \in modules
    <3>1. PICK r \in modules : q \in SubModules(r)
      BY <1>2, <1>5, <2>1
    <3>2. r \in DOMAIN files /\ Last(q) \in files[r] /\ q = Append(r, Last(q))
      BY <1>1, <1>2, <1>3, <3>1
    <3>3. QED
      BY <3>2
  <2>2. ASSUME NEW m \in modules, q \in DOMAIN EmittedFor(m)
        PROVE  \E r \in DOMAIN files : \E name \in files[r] : q = Append(r, name)
    <3>1. \/ q = Append(m, Generated) /\ HasContent(m)
          \/ \E r \in DOMAIN EmittedFor(m) : \E name \in EmittedFor(m)[r] : q = Append(r, name)
      BY <1>2, <2>2, InvImpliesTyped, EmittedClosed
    <3>2. CASE q = Append(m, Generated) /\ HasContent(m)
      <4>1. Generated \in files[m] /\ m \in DOMAIN files
        BY <1>1, <1>2, <3>2 DEF ModRs, LibRs, SubModRs
      <4>2. QED
        BY <3>2, <4>1
    <3>3. CASE \E r \in DOMAIN EmittedFor(m) : \E name \in EmittedFor(m)[r] : q = Append(r, name)
      BY <1>2, <3>3
    <3>4. QED
      BY <3>1, <3>2, <3>3
  <2>3. QED
    BY <1>2, <2>1, <2>2
<1>6. <<>> \in Written /\ Written = DOMAIN files
  BY <1>1 DEF Started, Written
<1>7. \A q : q \in Declared <=> \E r \in DOMAIN files : \E name \in files[r] : q = Append(r, name)
  BY <1>6 DEF Declared
<1>8. ASSUME NEW q \in Declared
      PROVE  q \in Written \cup missing
  <2>1. PICK r \in DOMAIN files : \E name \in files[r] : q = Append(r, name)
    BY <1>7
  <2>2. PICK name \in files[r] : q = Append(r, name)
    BY <2>1
  <2>3. QED
    BY <1>4, <1>6, <2>2
<1>9. \A q \in Written : q \in Declared \/ q = <<>>
  BY <1>5, <1>6, <1>7
<1>10. \A q \in missing : q \in Declared
  <2>1. <<>> \in DOMAIN files /\ files[<<>>] = LibRs
    BY <1>1, <1>2 DEF ModRs
  <2>2. Generated \in files[<<>>]
    BY <2>1 DEF LibRs
  <2>3. <<Generated>> \in Declared
    BY <1>7, <1>11, <2>1, <2>2
  <2>4. QED
    BY <2>3
<1> HIDE DEF missing
<1>12. QED
  BY <1>6, <1>8, <1>9, <1>10

LEMMA ImportsIfInv == ASSUME Inv PROVE ImportsResolve
<1> SUFFICES ASSUME Done, NEW c \in content
             PROVE  /\ c.path \in Written /\ Generated \in files[c.path]
                    /\ (IF c.item.kind \in {"client", "accessors"} THEN Clients ELSE Models)
                          \notin files[c.path]
  BY DEF ImportsResolve
<1>1. Emitted = modules /\ modules \subseteq DOMAIN files
  BY AllEmitted
<1>2. c.path \in modules /\ c.path \in Path /\ files[c.path] = ModRs(c.path)
  BY <1>1 DEF Inv, Adapted, Exact
<1>3. Generated \in ModRs(c.path)
  BY DEF ModRs, LibRs, SubModRs, HasContent, ItemsIn
<1>4. ASSUME NEW m \in SubModules(c.path)
      PROVE  Last(m) \notin Reserved
  <2>1. m \in modules /\ m \in Path /\ Free(m) /\ Len(m) = Len(c.path) + 1 /\ Len(c.path) \in Nat
    BY <1>2, LenProperties DEF SubModules, Inv, Adapted, Path
  <2>2. QED
    BY <2>1 DEF Free, Last
<1>5. \A name \in ModRs(c.path) : name = Generated \/ name \notin Reserved
  BY <1>4 DEF ModRs, LibRs, SubModRs, Declarations
<1>6. Clients \notin ModRs(c.path) /\ Models \notin ModRs(c.path)
  BY <1>5, Words DEF Reserved
<1>7. QED
  BY <1>1, <1>2, <1>3, <1>6 DEF Written

LEMMA NextKeeps == ASSUME Inv, [Next]_vars PROVE Inv'
BY AdaptStep, WriteLibRsStep, EmitModuleStep, Stuttering DEF Next, Terminated

LEMMA NextAppends ==
    ASSUME Inv, [Next]_vars
    PROVE  [\A path \in Written : files'[path] = files[path]]_files
<1>1. CASE WriteLibRs
  BY <1>1 DEF WriteLibRs, Written, NoFiles
<1>2. CASE EmitModule
  BY <1>2, FilesAreNew DEF EmitModule, Written
<1>3. CASE UNCHANGED files
  BY <1>3
<1>4. QED
  BY <1>1, <1>2, <1>3 DEF Next, Adapt, AdaptItem, Terminated, vars

THEOREM LayoutInvariant == Spec /\ NoReserved => []Inv
<1>1. Init /\ NoReserved => Inv
  BY InitHolds
<1>2. Inv /\ [Next]_vars => Inv'
  BY NextKeeps
<1>3. QED
  BY <1>1, <1>2, PTL DEF Spec

\* Every module that is declared has a file and every file is declared, but for
\* generated where the root has no content (emitLibRs, emitContent): whatever the
\* namespaces, unless one takes a name of the emitter's own.
THEOREM DeclaredModulesAreWritten == Spec /\ NoReserved => []DeclaredAreWritten
<1>1. Inv => DeclaredAreWritten
  BY DeclaredIfInv
<1>2. QED
  BY <1>1, LayoutInvariant, PTL

\* Under the same condition, what other modules import is found.
THEOREM ImportsAreFound == Spec /\ NoReserved => []ImportsResolve
<1>1. Inv => ImportsResolve
  BY ImportsIfInv
<1>2. QED
  BY <1>1, LayoutInvariant, PTL

\* Under the same condition, no file of one module replaces that of another.
THEOREM EachFileOnce == Spec /\ NoReserved => NothingOverwritten
<1>1. Inv /\ [Next]_vars => [\A path \in Written : files'[path] = files[path]]_files
  BY NextAppends
<1>2. QED
  BY <1>1, LayoutInvariant, PTL DEF Spec, NothingOverwritten

----------------------------------------------------------------------------
(* Modules and namespaces. *)

\* No namespace beside the root has a first word of its own that begins with the
\* root's last one, and none makes the names of a namespace below the root.
Separated ==
    \A i, j \in package.items :
       LET a == Redirected(i.ns)
           b == Redirected(j.ns)
           n == Len(Root)
       IN  ~IsUnder(a, Root) =>
              /\ ~IsPrefix(LowerCase(Root[n]), LowerCase(a[n]))
              /\ IsUnder(b, Root) => SnakeCased(From(b, n + 1)) # SnakeCased(From(a, n))

LEMMA FromIs ==
    ASSUME NEW S, NEW s \in Seq(S), NEW n \in Nat, n <= Len(s)
    PROVE  /\ From(s, n + 1) \in Seq(S) /\ Len(From(s, n + 1)) = Len(s) - n
           /\ \A i \in 1..(Len(s) - n) : From(s, n + 1)[i] = s[n + i]
<1>1. Len(s) \in Nat /\ \A i \in (n + 1)..Len(s) : s[i] \in S
  BY LenProperties, ElementOfSeq
<1>2. Len(SubSeq(s, n + 1, Len(s))) = IF n + 1 <= Len(s) THEN Len(s) - (n + 1) + 1 ELSE 0
  BY <1>1, SubSeqProperties
<1>3. \A i \in 1..(Len(s) - (n + 1) + 1) : SubSeq(s, n + 1, Len(s))[i] = s[n + 1 + i - 1]
  BY <1>1, SubSeqProperties
<1>4. \A i \in 1..(Len(s) - n) : i \in 1..(Len(s) - (n + 1) + 1) /\ n + 1 + i - 1 = n + i
  BY <1>1
<1>5. Len(From(s, n + 1)) = Len(s) - n /\ \A i \in 1..(Len(s) - n) : From(s, n + 1)[i] = s[n + i]
  BY <1>1, <1>2, <1>3, <1>4 DEF From
<1>6. From(s, n + 1) \in Seq(S)
  BY FromTyped
<1>7. QED
  BY <1>5, <1>6

\* Words that make the same names after the first n.
LEMMA SameNames ==
    ASSUME NEW a \in Seq(Word), NEW b \in Seq(Word), NEW n \in Nat,
           n <= Len(a), n <= Len(b),
           SnakeCased(From(a, n + 1)) = SnakeCased(From(b, n + 1))
    PROVE  Len(a) = Len(b) /\ \A i \in 1..Len(a) : i > n => SnakeCase(a[i]) = SnakeCase(b[i])
<1> DEFINE f(s) == From(s, n + 1)
<1>1. Len(a) \in Nat /\ Len(b) \in Nat
  BY LenProperties
<1>2. ASSUME NEW s \in Seq(Word), n <= Len(s)
      PROVE  /\ Len(SnakeCased(f(s))) = Len(s) - n
             /\ \A i \in 1..(Len(s) - n) : SnakeCased(f(s))[i] = SnakeCase(s[n + i])
  <2>1. /\ f(s) \in Seq(Word) /\ Len(f(s)) = Len(s) - n
        /\ \A i \in 1..(Len(s) - n) : f(s)[i] = s[n + i]
    BY <1>2, FromIs
  <2> HIDE DEF f
  <2>2. QED
    BY <2>1, SnakeCasedIs
<1> HIDE DEF f
<1>3. SnakeCased(f(a)) = SnakeCased(f(b))
  BY DEF f
<1>4. Len(a) = Len(b)
  BY <1>1, <1>2, <1>3
<1>5. ASSUME NEW i \in 1..Len(a), i > n
      PROVE  SnakeCase(a[i]) = SnakeCase(b[i])
  <2>1. i - n \in 1..(Len(a) - n) /\ i - n \in 1..(Len(b) - n) /\ n + (i - n) = i
    BY <1>1, <1>4, <1>5
  <2>2. /\ SnakeCased(f(a))[i - n] = SnakeCase(a[n + (i - n)])
        /\ SnakeCased(f(b))[i - n] = SnakeCase(b[n + (i - n)])
    BY <1>2, <2>1
  <2>3. QED
    BY <1>3, <2>1, <2>2
<1>6. QED
  BY <1>4, <1>5

\* A namespace is put at the root, below it or beside it, and its module is what is
\* left of it, in snake case.
LEMMA ModuleIs ==
    ASSUME package \in Packages, NEW ns \in Seq(Word),
           LET r == Redirected(ns)
           IN  ~IsUnder(r, Root) => ~IsPrefix(LowerCase(Root[Len(Root)]), LowerCase(r[Len(Root)]))
    PROVE  LET r == Redirected(ns)
               n == Len(Root)
           IN  /\ r \in Seq(Word)
               /\ \/ /\ IsUnder(r, Root)
                     /\ n <= Len(r) /\ \A i \in 1..n : LowerCase(r[i]) = LowerCase(Root[i])
                     /\ ModulePath(ns) = SnakeCased(From(r, n + 1))
                  \/ /\ ~IsUnder(r, Root)
                     /\ n - 1 <= Len(r) /\ \A i \in 1..(n - 1) : LowerCase(r[i]) = LowerCase(Root[i])
                     /\ ModulePath(ns) = SnakeCased(From(r, n))
<1> DEFINE r == Redirected(ns)
           n == Len(Root)
<1>1. /\ Root \in Seq(Word) /\ n \in Nat \ {0} /\ Root[n] \in Word
      /\ Len(Root[n]) \in Nat
  BY RootTyped, LenProperties DEF Word
<1>2. r \in Seq(Word)
  BY <1>1 DEF Redirected
<1>3. Len(r) \in Nat
  BY <1>2, LenProperties
<1>4. n - 1 \in 0..n
  BY <1>1
<1>5. /\ Parent \in Seq(Word) /\ Len(Parent) = n - 1
      /\ \A i \in 1..(n - 1) : Parent[i] = Root[i]
  BY <1>1, <1>4, BeginningIs DEF Parent
<1> HIDE DEF r, n
<1>6. ASSUME NEW top \in Seq(Word), NEW below \in Seq(Word)
      PROVE  IsUnder(below, top) <=>
                Len(top) <= Len(below) /\ \A i \in 1..Len(top) : LowerCase(top[i]) = LowerCase(below[i])
  <2>1. /\ Lowered(top) \in Seq(Seq(Letter)) /\ Lowered(below) \in Seq(Seq(Letter))
        /\ Len(Lowered(top)) = Len(top) /\ Len(Lowered(below)) = Len(below)
        /\ \A i \in 1..Len(top) : Lowered(top)[i] = LowerCase(top[i])
        /\ \A i \in 1..Len(below) : Lowered(below)[i] = LowerCase(below[i])
    BY LoweredIs
  <2>2. IsUnder(below, top) <=>
           Len(top) <= Len(below) /\ \A i \in 1..Len(top) : Lowered(top)[i] = Lowered(below)[i]
    BY <2>1, BeginsWith DEF IsUnder
  <2>3. Len(top) \in Nat /\ Len(below) \in Nat
    BY LenProperties
  <2>4. Len(top) <= Len(below) => \A i \in 1..Len(top) : i \in 1..Len(below)
    BY <2>3
  <2>5. QED
    BY <2>1, <2>2, <2>4
<1>7. CASE IsUnder(r, Root)
  <2>1. n <= Len(r) /\ \A i \in 1..n : LowerCase(r[i]) = LowerCase(Root[i])
    BY <1>1, <1>2, <1>6, <1>7 DEF n
  <2>2. Lowered(SubSeq(r, 1, n - 1)) = Lowered(Parent)
    <3> DEFINE s == SubSeq(r, 1, n - 1)
    <3>1. n - 1 \in 0..Len(r)
      BY <1>1, <1>3, <2>1
    <3>2. s \in Seq(Word) /\ Len(s) = n - 1 /\ \A i \in 1..(n - 1) : s[i] = r[i]
      BY <1>2, <3>1, BeginningIs
    <3> HIDE DEF s
    <3>3. \A i \in 1..(n - 1) : LowerCase(s[i]) = LowerCase(Parent[i])
      <4>1. \A i \in 1..(n - 1) : i \in 1..n
        BY <1>1
      <4>2. QED
        BY <1>5, <2>1, <3>2, <4>1
    <3>4. /\ Lowered(s) \in Seq(Seq(Letter)) /\ Lowered(Parent) \in Seq(Seq(Letter))
          /\ Len(Lowered(s)) = n - 1 /\ Len(Lowered(Parent)) = n - 1
          /\ \A i \in 1..(n - 1) : Lowered(s)[i] = LowerCase(s[i]) /\ Lowered(Parent)[i] = LowerCase(Parent[i])
      BY <1>5, <3>2, LoweredIs
    <3>5. QED
      BY <3>3, <3>4, SeqEqual DEF s
  <2>3. r[n] \in Word /\ LowerCase(r[n]) = LowerCase(Root[n])
    BY <1>1, <1>2, <1>3, <2>1, ElementOfSeq
  <2>4. IsPrefix(LowerCase(Root[n]), LowerCase(r[n]))
    <3>1. LowerCase(Root[n]) \in Seq(Letter)
      BY <1>1, LowerCaseIs
    <3>2. Len(LowerCase(Root[n])) \in Nat
      BY <3>1, LenProperties
    <3>3. IsPrefix(LowerCase(Root[n]), LowerCase(Root[n]))
      BY <3>1, <3>2, BeginsWith
    <3>4. QED
      BY <2>3, <3>3
  <2>5. StartsWithRoot(r)
    BY <2>1, <2>2, <2>4 DEF StartsWithRoot, n
  <2>6. From(r[n], Len(Root[n]) + 2) = <<>>
    <3>1. Len(r[n]) = Len(Root[n])
      BY <1>1, <2>3, LowerCaseIs
    <3>2. r[n] \in Seq(STRING) /\ Len(r[n]) \in Nat /\ Len(r[n]) + 2 > Len(r[n])
      BY <1>1, <2>3, <3>1 DEF Word
    <3>3. QED
      BY <3>1, <3>2, SubSeqEmpty DEF From
  <2>7. From(r, n + 1) \in Seq(Word)
    BY <1>1, <1>2, FromTyped
  <2>8. <<>> \o From(r, n + 1) = From(r, n + 1)
    BY <2>7, ConcatEmptySeq
  <2>9. WithoutRoot(r) = From(r, n + 1)
    BY <2>6, <2>8 DEF WithoutRoot, n
  <2>10. ModulePath(ns) = SnakeCased(From(r, n + 1))
    BY <2>5, <2>9 DEF ModulePath, Trimmed, r
  <2>11. QED
    BY <1>2, <1>7, <2>1, <2>10 DEF r, n
<1>8. CASE ~IsUnder(r, Root)
  <2>1. ~StartsWithRoot(r)
    BY <1>8 DEF StartsWithRoot, r
  <2>2. r = ns /\ Parent # <<>> /\ IsStrictlyUnder(r, Parent)
    <3>1. r # Root
      <4>1. IsUnder(Root, Root)
        BY <1>1, <1>6 DEF n
      <4>2. QED
        BY <1>8, <4>1
    <3>2. QED
      BY <1>8, <3>1 DEF Redirected, r
  <2>3. n - 1 <= Len(r) /\ \A i \in 1..(n - 1) : LowerCase(r[i]) = LowerCase(Root[i])
    <3>1. IsUnder(r, Parent)
      BY <2>2 DEF IsStrictlyUnder
    <3>2. Len(Parent) <= Len(r) /\ \A i \in 1..Len(Parent) : LowerCase(Parent[i]) = LowerCase(r[i])
      BY <1>2, <1>5, <1>6, <3>1
    <3>3. QED
      BY <1>5, <3>2
  <2>4. ModulePath(ns) = SnakeCased(From(r, n))
    BY <2>1, <2>2 DEF ModulePath, Trimmed, r, n
  <2>5. QED
    BY <1>2, <1>8, <2>3, <2>4 DEF r, n
<1>9. QED
  BY <1>7, <1>8

\* Of two namespaces that are separated, the modules differ unless their words make
\* the same names.
LEMMA ModulesDiffer ==
    ASSUME package \in Packages, Separated, NEW i \in package.items, NEW j \in package.items,
           ModulePath(i.ns) = ModulePath(j.ns)
    PROVE  SameNamespace(Redirected(i.ns), Redirected(j.ns))
<1> DEFINE a == Redirected(i.ns)
           b == Redirected(j.ns)
           n == Len(Root)
<1>1. i.ns \in Seq(Word) /\ j.ns \in Seq(Word) /\ n \in Nat \ {0}
  BY LayoutAssumption, RootTyped
<1>2. /\ ~IsUnder(a, Root) => /\ ~IsPrefix(LowerCase(Root[n]), LowerCase(a[n]))
                              /\ IsUnder(b, Root) => SnakeCased(From(b, n + 1)) # SnakeCased(From(a, n))
      /\ ~IsUnder(b, Root) => /\ ~IsPrefix(LowerCase(Root[n]), LowerCase(b[n]))
                              /\ IsUnder(a, Root) => SnakeCased(From(a, n + 1)) # SnakeCased(From(b, n))
  BY DEF Separated
<1>3. /\ a \in Seq(Word)
      /\ \/ /\ IsUnder(a, Root)
            /\ n <= Len(a) /\ \A k \in 1..n : LowerCase(a[k]) = LowerCase(Root[k])
            /\ ModulePath(i.ns) = SnakeCased(From(a, n + 1))
         \/ /\ ~IsUnder(a, Root)
            /\ n - 1 <= Len(a) /\ \A k \in 1..(n - 1) : LowerCase(a[k]) = LowerCase(Root[k])
            /\ ModulePath(i.ns) = SnakeCased(From(a, n))
  BY <1>1, <1>2, ModuleIs
<1>4. /\ b \in Seq(Word)
      /\ \/ /\ IsUnder(b, Root)
            /\ n <= Len(b) /\ \A k \in 1..n : LowerCase(b[k]) = LowerCase(Root[k])
            /\ ModulePath(j.ns) = SnakeCased(From(b, n + 1))
         \/ /\ ~IsUnder(b, Root)
            /\ n - 1 <= Len(b) /\ \A k \in 1..(n - 1) : LowerCase(b[k]) = LowerCase(Root[k])
            /\ ModulePath(j.ns) = SnakeCased(From(b, n))
  BY <1>1, <1>2, ModuleIs
<1>5. ASSUME NEW m \in Nat, m <= n, m <= Len(a), m <= Len(b),
             \A k \in 1..m : LowerCase(a[k]) = LowerCase(b[k]),
             SnakeCased(From(a, m + 1)) = SnakeCased(From(b, m + 1))
      PROVE  SameNamespace(a, b)
  <2> HIDE DEF a, b, n
  <2>1. a \in Seq(Word) /\ b \in Seq(Word)
    BY <1>3, <1>4
  <2>2. Len(a) = Len(b) /\ \A k \in 1..Len(a) : k > m => SnakeCase(a[k]) = SnakeCase(b[k])
    BY <1>5, <2>1, SameNames
  <2>3. DOMAIN a = 1..Len(a) /\ Len(a) \in Nat
    BY <2>1, LenProperties
  <2>4. ASSUME NEW k \in DOMAIN a
        PROVE  SnakeCase(a[k]) = SnakeCase(b[k]) \/ (k <= n /\ LowerCase(a[k]) = LowerCase(b[k]))
    <3>1. k \in 1..Len(a) /\ (k > m \/ k \in 1..m)
      BY <1>5, <2>3
    <3>2. QED
      BY <1>1, <1>5, <2>2, <3>1
  <2>5. QED
    BY <2>2, <2>4 DEF SameNamespace, n
<1> HIDE DEF a, b, n
<1>6. CASE IsUnder(a, Root) /\ IsUnder(b, Root)
  <2>1. SnakeCased(From(a, n + 1)) = SnakeCased(From(b, n + 1))
    BY <1>3, <1>4, <1>6
  <2>2. n <= Len(a) /\ n <= Len(b) /\ \A k \in 1..n : LowerCase(a[k]) = LowerCase(b[k])
    BY <1>3, <1>4, <1>6
  <2>3. QED
    BY <1>1, <1>5, <2>1, <2>2 DEF a, b
<1>7. CASE ~IsUnder(a, Root) /\ ~IsUnder(b, Root)
  <2>1. n - 1 \in Nat /\ n - 1 <= n /\ (n - 1) + 1 = n
    BY <1>1
  <2>2. SnakeCased(From(a, (n - 1) + 1)) = SnakeCased(From(b, (n - 1) + 1))
    BY <1>3, <1>4, <1>7, <2>1
  <2>3. /\ n - 1 <= Len(a) /\ n - 1 <= Len(b)
        /\ \A k \in 1..(n - 1) : LowerCase(a[k]) = LowerCase(b[k])
    BY <1>3, <1>4, <1>7
  <2>4. QED
    BY <1>5, <2>1, <2>2, <2>3 DEF a, b
<1>8. QED
  BY <1>2, <1>3, <1>4, <1>6, <1>7

\* Where the content is, of which namespaces and modules speak without the files.
Mapped ==
    /\ package \in Packages /\ Separated
    /\ todo \subseteq package.items
    /\ \A c \in content : c.item \in package.items /\ c.path = ModulePath(c.item.ns)

LEMMA MappedStep == ASSUME Mapped, [Next]_vars PROVE Mapped'
<1>1. package' = package
  BY DEF Next, Adapt, AdaptItem, WriteLibRs, EmitModule, Terminated, vars
<1>2. \A ns : ModulePath(ns)' = ModulePath(ns)
  BY <1>1, SameModules
<1>3. Separated'
  <2>1. Root' = Root /\ \A ns : Redirected(ns)' = Redirected(ns)
    BY <1>1 DEF Redirected, IsUnder, IsStrictlyUnder, Parent, Root
  <2>2. \A ns : IsUnder(ns, Root)' <=> IsUnder(ns, Root)
    BY <2>1 DEF IsUnder
  <2>3. \A i, j \in package'.items :
           LET a == Redirected(i.ns)
               b == Redirected(j.ns)
               n == Len(Root)
           IN  ~IsUnder(a, Root) =>
                  /\ ~IsPrefix(LowerCase(Root[n]), LowerCase(a[n]))
                  /\ IsUnder(b, Root) => SnakeCased(From(b, n + 1)) # SnakeCased(From(a, n))
    BY <1>1 DEF Mapped, Separated
  <2>4. QED
    BY <2>1, <2>2, <2>3 DEF Separated, From, IsUnder
<1>4. CASE Adapt
  <2>1. PICK item \in todo :
          /\ content' = content \cup {[path |-> ModulePath(item.ns), item |-> item]}
          /\ todo' = todo \ {item}
    BY <1>4 DEF Adapt, AdaptItem
  <2>2. item \in package.items
    BY DEF Mapped
  <2> DEFINE new == [path |-> ModulePath(item.ns), item |-> item]
  <2>3. new.item = item /\ new.path = ModulePath(item.ns)
    OBVIOUS
  <2> HIDE DEF new
  <2>4. \A c \in content' : c \in content \/ c = new
    BY <2>1 DEF new
  <2>5. \A c \in content' : c.item \in package.items /\ c.path = ModulePath(c.item.ns)
    BY <2>2, <2>3, <2>4 DEF Mapped
  <2>6. \A c \in content' : c.item \in package'.items /\ c.path = ModulePath(c.item.ns)'
    BY <1>1, <1>2, <2>5
  <2>7. QED
    BY <1>1, <1>3, <2>1, <2>6 DEF Mapped
<1>5. CASE UNCHANGED <<todo, content>>
  BY <1>1, <1>2, <1>3, <1>5 DEF Mapped
<1>6. QED
  BY <1>4, <1>5 DEF Next, WriteLibRs, EmitModule, Terminated, vars

\* Where adaptNamespace puts the content of a namespace, it puts that of no other, but
\* for those whose words are one name in snake case or, in the root, without case:
\* what is cut off is the same for all, unless a namespace beside the root begins like
\* the root or makes the names of one below it.
THEOREM NamespacesKeepApart == Spec /\ Separated => []OneModulePerNamespace
<1>1. Init /\ Separated => Mapped
  BY DEF Init, Mapped
<1>2. Mapped /\ [Next]_vars => Mapped'
  BY MappedStep
<1>3. Mapped => OneModulePerNamespace
  <2>1. SUFFICES ASSUME Mapped, NEW c \in content, NEW d \in content, c.path = d.path
                 PROVE  SameNamespace(Redirected(c.item.ns), Redirected(d.item.ns))
    BY DEF OneModulePerNamespace
  <2>2. /\ c.item \in package.items /\ d.item \in package.items
        /\ ModulePath(c.item.ns) = ModulePath(d.item.ns)
    BY <2>1 DEF Mapped
  <2>3. QED
    BY <2>1, <2>2, ModulesDiffer DEF Mapped
<1>4. QED
  BY <1>1, <1>2, <1>3, PTL DEF Spec

\* The theorems hold of CrateImports as well: its cache decides what the text of a
\* file is, and not where it is written.
THEOREM ImportsKeepLayout == ImportsSpec => Spec
<1>1. ImportsInit => Init
  BY DEF ImportsInit
<1>2. [ImportsNext]_importVars => [Next]_vars
  BY DEF ImportsNext, AdaptCached, EmitImporting, Next, Adapt, Terminated, importVars, vars
<1>3. QED
  BY <1>1, <1>2, PTL DEF ImportsSpec, Spec

----------------------------------------------------------------------------
(* Where the compiler finds what the use statements name. *)

\* Induction over the numbers.
LEMMA SetInduction ==
    ASSUME NEW T, 0 \in T, \A n \in Nat : n \in T => n + 1 \in T
    PROVE  Nat \subseteq T
<1> DEFINE less == OpToRel(<, Nat)
           rest == Nat \ T
<1>1. SUFFICES ASSUME rest # {}
               PROVE  FALSE
  OBVIOUS
<1>2. IsWellFoundedOn(less, Nat)
  BY NatLessThanWellFounded
<1>3. \A x, y \in Nat : <<x, y>> \in less <=> x < y
  BY DEF OpToRel
<1>4. rest \subseteq Nat
  OBVIOUS
<1> HIDE DEF less
<1>5. PICK m \in rest : \A k \in rest : <<k, m>> \notin less
  BY <1>1, <1>2, <1>4, WFMin
<1>6. m \in Nat \ {0} /\ m - 1 \in Nat /\ (m - 1) + 1 = m
  OBVIOUS
<1>7. m - 1 \in rest
  BY <1>6
<1>8. m - 1 < m
  BY <1>6
<1>9. <<m - 1, m>> \in less
  BY <1>3, <1>6, <1>8
<1>10. QED
  BY <1>5, <1>7, <1>9

\* The modules that are reached after each name of a path.
IsWalk(f, path, n) ==
    f = [i \in 0..n |-> IF i = 0 THEN {<<>>} ELSE UNION {Enter(m, path[i]) : m \in f[i - 1]}]

LEMMA WalkExists ==
    ASSUME NEW path, NEW n \in Nat
    PROVE  \E f : IsWalk(f, path, n)
<1> DEFINE Step(i, v) == IF i = 0 THEN {<<>>} ELSE UNION {Enter(m, path[i]) : m \in v}
           T == {k \in Nat : \E f : IsWalk(f, path, k)}
<1>1. 0 \in T
  <2> DEFINE f == [i \in 0..0 |-> {<<>>}]
  <2>1. f = [i \in 0..0 |-> Step(i, f[i - 1])]
    OBVIOUS
  <2> HIDE DEF f
  <2>2. IsWalk(f, path, 0)
    BY <2>1 DEF IsWalk
  <2>3. QED
    BY <2>2
<1>2. ASSUME NEW k \in Nat, k \in T
      PROVE  k + 1 \in T
  <2>1. PICK f : IsWalk(f, path, k)
    BY <1>2
  <2> DEFINE g == [i \in 0..(k + 1) |-> IF i = k + 1 THEN Step(i, f[i - 1]) ELSE f[i]]
  <2>2. \A i \in 0..k : f[i] = Step(i, f[i - 1])
    BY <2>1 DEF IsWalk
  <2> HIDE DEF Step
  <2>3. ASSUME NEW i \in 0..(k + 1)
        PROVE  g[i] = Step(i, g[i - 1])
    <3>1. CASE i = 0
      <4>1. g[i] = f[i]
        BY <3>1
      <4>2. \A v, w : Step(0, v) = Step(0, w)
        BY DEF Step
      <4>3. QED
        BY <2>2, <3>1, <4>1, <4>2
    <3>2. CASE i # 0
      <4>1. i - 1 \in 0..k /\ i - 1 \in 0..(k + 1) /\ i - 1 # k + 1
        BY <3>2
      <4>2. g[i - 1] = f[i - 1]
        BY <4>1
      <4>3. CASE i = k + 1
        BY <4>2, <4>3
      <4>4. CASE i # k + 1
        <5>1. g[i] = f[i] /\ i \in 0..k
          BY <4>4
        <5>2. QED
          BY <2>2, <4>2, <5>1
      <4>5. QED
        BY <4>3, <4>4
    <3>3. QED
      BY <3>1, <3>2
  <2>4. g = [i \in 0..(k + 1) |-> g[i]]
    OBVIOUS
  <2> HIDE DEF g
  <2>5. g = [i \in 0..(k + 1) |-> Step(i, g[i - 1])]
    BY <2>3, <2>4
  <2>6. IsWalk(g, path, k + 1)
    BY <2>5 DEF IsWalk, Step
  <2>7. QED
    BY <2>6
<1>3. Nat \subseteq T
  <2> HIDE DEF T
  <2>1. QED
    BY <1>1, <1>2, SetInduction
<1>4. QED
  BY <1>3

LEMMA WalkIs ==
    ASSUME NEW path \in Path
    PROVE  \E f : IsWalk(f, path, Len(path)) /\ Walk(path) = f[Len(path)]
<1> DEFINE f == CHOOSE g : g = [n \in 0..Len(path) |->
                    IF n = 0 THEN {<<>>} ELSE UNION {Enter(m, path[n]) : m \in g[n - 1]}]
<1>1. Len(path) \in Nat
  BY LenProperties DEF Path
<1>2. IsWalk(f, path, Len(path))
  <2>1. \E g : IsWalk(g, path, Len(path))
    BY <1>1, WalkExists
  <2>2. f = CHOOSE g : IsWalk(g, path, Len(path))
    BY DEF IsWalk
  <2> HIDE DEF f
  <2>3. QED
    BY <2>1, <2>2
<1>3. Walk(path) = f[Len(path)]
  BY DEF Walk
<1>4. QED
  BY <1>2, <1>3

\* Two walks agree as long as their paths do.
LEMMA SameWalk ==
    ASSUME NEW p, NEW q, NEW k \in Nat, NEW n \in Nat, k <= n, NEW f, NEW g,
           IsWalk(f, p, k), IsWalk(g, q, n), \A i \in 1..k : p[i] = q[i]
    PROVE  f[k] = g[k]
<1> DEFINE T == {j \in Nat : j <= k => f[j] = g[j]}
<1>1. /\ \A i \in 0..k : f[i] = IF i = 0 THEN {<<>>} ELSE UNION {Enter(m, p[i]) : m \in f[i - 1]}
      /\ \A i \in 0..n : g[i] = IF i = 0 THEN {<<>>} ELSE UNION {Enter(m, q[i]) : m \in g[i - 1]}
  BY DEF IsWalk
<1>2. 0 \in T
  <2>1. 0 \in 0..k /\ 0 \in 0..n
    OBVIOUS
  <2>2. f[0] = {<<>>} /\ g[0] = {<<>>}
    BY <1>1, <2>1
  <2>3. QED
    BY <2>2
<1>3. ASSUME NEW j \in Nat, j \in T
      PROVE  j + 1 \in T
  <2>1. SUFFICES ASSUME j + 1 <= k
                 PROVE  f[j + 1] = g[j + 1]
    OBVIOUS
  <2>2. f[j] = g[j] /\ j + 1 \in 0..k /\ j + 1 \in 0..n /\ j + 1 \in 1..k /\ j + 1 # 0 /\ (j + 1) - 1 = j
    BY <1>3, <2>1
  <2>3. p[j + 1] = q[j + 1]
    BY <2>2
  <2>4. /\ f[j + 1] = UNION {Enter(m, p[j + 1]) : m \in f[j]}
        /\ g[j + 1] = UNION {Enter(m, q[j + 1]) : m \in g[j]}
    BY <1>1, <2>2
  <2>5. QED
    BY <2>2, <2>3, <2>4
<1>4. Nat \subseteq T
  <2> HIDE DEF T
  <2>1. QED
    BY <1>2, <1>3, SetInduction
<1>5. QED
  BY <1>4

LEMMA WalkEmpty == Walk(<<>>) = {<<>>}
<1>1. <<>> \in Path /\ Len(<<>>) = 0
  BY EmptySeq DEF Path
<1>2. PICK f : IsWalk(f, <<>>, 0) /\ Walk(<<>>) = f[0]
  BY <1>1, WalkIs
<1>3. QED
  BY <1>2 DEF IsWalk

\* One name more is looked up in the modules that the others lead to.
LEMMA WalkOn ==
    ASSUME NEW b \in Path, NEW x \in Name
    PROVE  Walk(Append(b, x)) = UNION {Enter(m, x) : m \in Walk(b)}
<1> DEFINE p == Append(b, x)
           n == Len(b)
<1>1. /\ n \in Nat /\ p \in Path /\ Len(p) = n + 1 /\ p[n + 1] = x
      /\ \A i \in 1..n : p[i] = b[i]
  BY AppendProperties, LenProperties DEF Path
<1>2. PICK f : IsWalk(f, b, n) /\ Walk(b) = f[n]
  BY WalkIs
<1>3. PICK g : IsWalk(g, p, n + 1) /\ Walk(p) = g[n + 1]
  BY <1>1, WalkIs
<1>4. f[n] = g[n]
  <2>1. \A i \in 1..n : b[i] = p[i]
    BY <1>1
  <2>2. n + 1 \in Nat /\ n <= n + 1
    BY <1>1
  <2> HIDE DEF p, n
  <2>3. QED
    BY <1>1, <1>2, <1>3, <2>1, <2>2, SameWalk
<1>5. g[n + 1] = UNION {Enter(m, p[n + 1]) : m \in g[n]}
  <2>1. n + 1 \in 0..(n + 1) /\ n + 1 # 0 /\ (n + 1) - 1 = n
    BY <1>1
  <2>2. \A i \in 0..(n + 1) : g[i] = IF i = 0 THEN {<<>>} ELSE UNION {Enter(m, p[i]) : m \in g[i - 1]}
    BY <1>3 DEF IsWalk
  <2>3. QED
    BY <2>1, <2>2
<1>6. QED
  BY <1>1, <1>2, <1>3, <1>4, <1>5

\* A module declares generated if it has content, and never what is in there.
LEMMA Declares ==
    ASSUME Inv, Done, NEW m \in modules
    PROVE  /\ m \in Path /\ Free(m) /\ m \in Written /\ files[m] = ModRs(m)
           /\ HasContent(m) => Generated \in files[m]
           /\ Clients \notin files[m] /\ Models \notin files[m]
<1>1. Emitted = modules /\ modules \subseteq DOMAIN files
  BY AllEmitted
<1>2. m \in Path /\ Free(m) /\ m \in DOMAIN files /\ files[m] = ModRs(m)
  BY <1>1 DEF Inv, Adapted, Exact
<1>3. HasContent(m) => Generated \in ModRs(m)
  BY DEF ModRs, LibRs, SubModRs
<1>4. ASSUME NEW n \in SubModules(m)
      PROVE  Last(n) \notin Reserved
  <2>1. n \in Path /\ Free(n) /\ Len(n) = Len(m) + 1 /\ Len(m) \in Nat
    BY <1>2, LenProperties DEF SubModules, Inv, Adapted, Path
  <2>2. QED
    BY <2>1 DEF Free, Last
<1>5. \A name \in ModRs(m) : name = Generated \/ name \notin Reserved
  BY <1>4 DEF ModRs, LibRs, SubModRs, Declarations
<1>6. Clients \notin ModRs(m) /\ Models \notin ModRs(m)
  BY <1>5, Words DEF Reserved
<1>7. QED
  BY <1>2, <1>3, <1>6 DEF Written

\* The path of a module leads to it.
LEMMA WalkModule ==
    ASSUME Inv, Done, NEW m \in modules
    PROVE  Walk(m) = {m}
<1> DEFINE T == {n \in Nat : \A k \in modules : Len(k) = n => Walk(k) = {k}}
<1>1. \A k \in modules : k \in Path /\ Len(k) \in Nat
  BY LenProperties DEF Inv, Adapted, Path
<1>2. 0 \in T
  <2>1. \A k \in modules : Len(k) = 0 => k = <<>>
    BY <1>1, EmptySeq DEF Path
  <2>2. QED
    BY <2>1, WalkEmpty
<1>3. ASSUME NEW n \in Nat, n \in T
      PROVE  n + 1 \in T
  <2>1. SUFFICES ASSUME NEW k \in modules, Len(k) = n + 1
                 PROVE  Walk(k) = {k}
    OBVIOUS
  <2> DEFINE b == SubSeq(k, 1, n)
  <2>2. n \in 0..Len(k) /\ k \in Path
    BY <1>1, <2>1
  <2>3. b \in modules /\ b \in Path /\ Len(b) = n /\ \A i \in 1..n : b[i] = k[i]
    BY <2>2, PrefixTyped DEF Inv, Adapted
  <2> HIDE DEF b
  <2>4. IsPrefix(b, k) /\ Len(k) = Len(b) + 1
    BY <2>1, <2>2, <2>3, PrefixIs
  <2>5. k = Append(b, Last(k)) /\ Last(k) \in Name
    BY <2>2, <2>3, <2>4, Child
  <2>6. Last(k) \in files[b] /\ b \in Written
    <3>1. Last(k) \in ModRs(b)
      BY <2>4 DEF ModRs, LibRs, SubModRs, Declarations, SubModules
    <3>2. QED
      BY <2>3, <3>1, Declares
  <2>7. Enter(b, Last(k)) = {Append(b, Last(k))}
    BY <2>6 DEF Enter
  <2>8. Walk(b) = {b}
    BY <1>3, <2>3
  <2>9. Walk(Append(b, Last(k))) = UNION {Enter(x, Last(k)) : x \in Walk(b)}
    BY <2>3, <2>5, WalkOn
  <2>10. UNION {Enter(x, Last(k)) : x \in {b}} = Enter(b, Last(k))
    OBVIOUS
  <2>11. QED
    BY <2>5, <2>7, <2>8, <2>9, <2>10
<1>4. Nat \subseteq T
  <2> HIDE DEF T
  <2>1. QED
    BY <1>2, <1>3, SetInduction
<1>5. QED
  BY <1>1, <1>4

\* The directory of the clients or the models of a module.
HomeIn(m, dir) == Append(Append(m, Generated), dir)

\* It is found through the module, by what that re-exports, and through generated.
LEMMA WalkHome ==
    ASSUME Inv, Done, NEW m \in modules, NEW dir \in {Clients, Models}, HasContent(m), dir \in GeneratedModRs(m)
    PROVE  /\ Walk(Append(m, dir)) = {HomeIn(m, dir)} /\ Walk(HomeIn(m, dir)) = {HomeIn(m, dir)}
           /\ HomeIn(m, dir) \in Written
<1> DEFINE g == Append(m, Generated)
<1>1. /\ m \in Path /\ m \in Written /\ Generated \in files[m] /\ dir \notin files[m]
      /\ Generated \in Name /\ dir \in Name
  BY Declares DEF Name, Reserved
<1>2. g \in Path /\ HomeIn(m, dir) \in Path
  BY <1>1, Places DEF GeneratedIn, ClientsIn, ModelsIn, HomeIn
<1>3. m \in Emitted
  BY AllEmitted
<1>4. /\ g \in DOMAIN EmittedFor(m) /\ EmittedFor(m)[g] = GeneratedModRs(m)
      /\ HomeIn(m, dir) \in DOMAIN EmittedFor(m)
  BY <1>1, InvImpliesTyped, EmittedClosed DEF HomeIn
<1>5. g \in Written /\ files[g] = GeneratedModRs(m) /\ HomeIn(m, dir) \in Written
  BY <1>3, <1>4 DEF Inv, Exact, Written
<1>6. Walk(m) = {m}
  BY WalkModule
<1> HIDE DEF g
<1>7. Enter(m, Generated) = {g}
  BY <1>1 DEF Enter, g
<1>8. Enter(g, dir) = {HomeIn(m, dir)}
  BY <1>5 DEF Enter, HomeIn, g
<1>9. Enter(m, dir) = {HomeIn(m, dir)}
  <2>1. m \o <<Generated, dir>> = HomeIn(m, dir)
    BY <1>1 DEF HomeIn, Path
  <2>2. Enter(m, dir) = {m \o <<x, dir>> : x \in files[m] \cap {Generated}}
    BY <1>1 DEF Enter
  <2>3. files[m] \cap {Generated} = {Generated}
    BY <1>1
  <2>4. QED
    BY <2>1, <2>2, <2>3
<1>10. \A a, x : UNION {Enter(y, x) : y \in {a}} = Enter(a, x)
  OBVIOUS
<1>11. Walk(Append(m, dir)) = {HomeIn(m, dir)}
  BY <1>1, <1>6, <1>9, <1>10, WalkOn
<1>12. Walk(g) = {g}
  BY <1>1, <1>6, <1>7, <1>10, WalkOn DEF g
<1>13. Walk(Append(g, dir)) = {HomeIn(m, dir)}
  BY <1>1, <1>2, <1>8, <1>10, <1>12, WalkOn
<1>14. QED
  BY <1>5, <1>11, <1>13 DEF HomeIn, g

\* The directory that an item is in, by its kind.
DirOf(item) == IF item.kind \in ClientKinds THEN Clients ELSE Models

\* What use statements name, but for types of the same file.
LEMMA PathIs ==
    ASSUME package \in Packages, NEW item \in package.items, NEW dst \in Path, NEW scope
    PROVE  LET src == ModulePath(item.ns)
           IN  /\ src \in Path /\ BuildImportPath(dst, src) \in Path
               /\ HomeOf(item) = HomeIn(src, DirOf(item))
               /\ \/ AddForType(dst, scope, item) =
                        {Append(Append(BuildImportPath(dst, src), DirOf(item)), item.name)}
                  \/ /\ AddForType(dst, scope, item) = {}
                     /\ scope # "clients" /\ Super(dst, scope) = HomeOf(item)
<1> DEFINE src == ModulePath(item.ns)
           base == BuildImportPath(dst, src)
<1>1. item.ns \in Seq(Word) /\ item.kind \in Kinds /\ item.name \in Name
  BY LayoutAssumption DEF Name
<1>2. src \in Path
  BY <1>1, ModuleTyped
<1>3. Generated \in Name /\ Clients \in Name /\ Models \in Name /\ DirOf(item) \in Name
  BY DEF Name, Reserved, DirOf
<1> HIDE DEF src
<1>4. base \in Path /\ (dst = src => base = Append(src, Generated)) /\ (dst # src => base = src)
  BY <1>2, <1>3, AppendProperties DEF BuildImportPath, Path
<1>5. ASSUME NEW a \in Path, NEW x \in Name, NEW y \in Name
      PROVE  a \o <<x, y>> = Append(Append(a, x), y)
  BY DEF Path
<1>6. \A s : Super(dst, s) = HomeIn(dst, IF s = "clients" THEN Clients ELSE Models)
  BY <1>3, <1>5 DEF Super, HomeIn
<1>7. HomeOf(item) = HomeIn(src, DirOf(item))
  <2>1. Scope(item) = "clients" <=> item.kind \in ClientKinds
    BY <1>1 DEF Scope, ClientKinds, Kinds
  <2>2. Super(src, Scope(item)) = HomeIn(src, DirOf(item))
    BY <1>2, <1>3, <1>5, <2>1 DEF Super, HomeIn, DirOf
  <2>3. QED
    BY <2>2 DEF HomeOf, src
<1>8. \A d \in {Clients, Models} : base \o <<d, item.name>> = Append(Append(base, d), item.name)
  BY <1>1, <1>3, <1>4, <1>5
<1> HIDE DEF base
<1>9. AddForType(dst, scope, item) =
        IF item.kind \in ClientKinds THEN {base \o <<Clients, item.name>>}
        ELSE IF scope = "clients" \/ dst # src THEN {base \o <<Models, item.name>>}
        ELSE IF SameFile(scope, item) THEN {} ELSE {Append(Super(dst, scope), item.name)}
  BY DEF AddForType, src, base
<1>10. CASE item.kind \in ClientKinds
  BY <1>2, <1>4, <1>7, <1>8, <1>9, <1>10 DEF DirOf, src, base
<1>11. CASE item.kind \notin ClientKinds /\ (scope = "clients" \/ dst # src)
  BY <1>2, <1>4, <1>7, <1>8, <1>9, <1>11 DEF DirOf, src, base
<1>12. CASE item.kind \notin ClientKinds /\ scope # "clients" /\ dst = src
  <2>1. Super(dst, scope) = Append(base, Models) /\ DirOf(item) = Models /\ Super(dst, scope) = HomeOf(item)
    BY <1>4, <1>6, <1>7, <1>12 DEF HomeIn, DirOf
  <2>2. QED
    BY <1>2, <1>4, <1>7, <1>9, <1>12, <2>1 DEF src, base
<1>13. QED
  BY <1>10, <1>11, <1>12

\* Paths through free modules end where one of these names is followed by a type, so
\* that none leads on to another.
Plain(a) == \A i \in 1..Len(a) : a[i] \notin {Clients, Models}

LEMMA BaseIsPlain ==
    ASSUME NEW dst, NEW src \in Path, Free(src)
    PROVE  Plain(BuildImportPath(dst, src))
<1>1. Len(src) \in Nat /\ Generated \in Name
  BY LenProperties DEF Path, Name, Reserved
<1>2. Len(Append(src, Generated)) = Len(src) + 1
  BY <1>1, AppendProperties DEF Path
<1>3. \A i \in 1..(Len(src) + 1) : Append(src, Generated)[i] = IF i <= Len(src) THEN src[i] ELSE Generated
  BY <1>1, AppendProperties DEF Path
<1>4. Plain(src)
  BY DEF Plain, Free, Reserved
<1>5. Plain(Append(src, Generated))
  BY <1>1, <1>2, <1>3, <1>4, Words DEF Plain
<1>6. QED
  BY <1>4, <1>5 DEF BuildImportPath

LEMMA NoneLeadsOn ==
    ASSUME NEW a \in Path, NEW b \in Path, Plain(a), Plain(b),
           NEW k \in {Clients, Models}, NEW l \in {Clients, Models}, NEW x \in Name, NEW y \in Name,
           IsPrefix(Append(Append(a, k), x), Append(Append(b, l), y))
    PROVE  Append(Append(a, k), x) = Append(Append(b, l), y)
<1> DEFINE p == Append(Append(a, k), x)
           q == Append(Append(b, l), y)
<1>1. Len(a) \in Nat /\ Len(b) \in Nat /\ k \in Name /\ l \in Name
  BY LenProperties DEF Path, Name, Reserved
<1>2. ASSUME NEW c \in Path, NEW m \in Name, NEW z \in Name
      PROVE  LET r == Append(Append(c, m), z)
             IN  /\ r \in Path /\ Len(r) = Len(c) + 2
                 /\ \A i \in 1..Len(c) : r[i] = c[i]
                 /\ r[Len(c) + 1] = m
  <2>1. Append(c, m) \in Path /\ Len(Append(c, m)) = Len(c) + 1 /\ Len(c) \in Nat
    BY AppendProperties, LenProperties DEF Path
  <2>2. (\A i \in 1..Len(c) : Append(c, m)[i] = c[i]) /\ Append(c, m)[Len(c) + 1] = m
    BY AppendProperties DEF Path
  <2>3. LET r == Append(Append(c, m), z)
        IN  /\ r \in Path /\ Len(r) = Len(c) + 2
            /\ \A i \in 1..(Len(c) + 1) : r[i] = Append(c, m)[i]
    BY <2>1, AppendProperties DEF Path
  <2>4. QED
    BY <2>1, <2>2, <2>3
<1>3. /\ p \in Path /\ q \in Path /\ Len(p) = Len(a) + 2 /\ Len(q) = Len(b) + 2
      /\ p[Len(a) + 1] = k
      /\ \A i \in 1..Len(b) : q[i] = b[i]
  BY <1>1, <1>2
<1> HIDE DEF p, q
<1>4. Len(p) <= Len(q) /\ \A i \in 1..Len(p) : p[i] = q[i]
  BY <1>3, PrefixIs DEF p, q
<1>5. Len(a) + 1 \notin 1..Len(b)
  BY <1>1, <1>3, <1>4 DEF Plain
<1>6. Len(p) = Len(q)
  BY <1>1, <1>3, <1>4, <1>5
<1>7. p = q
  BY <1>3, <1>4, <1>6, SeqEqual DEF Path
<1>8. QED
  BY <1>7 DEF p, q

----------------------------------------------------------------------------
(* What is referred to is what was meant. *)

\* No two items have the same name, wherever they are.
NamesUnique == \A d, e \in package.items : d.name = e.name => d = e

\* The cache has what has been adapted, and nothing else.
Cached ==
    /\ \A k \in DOMAIN types : \E d \in package.items \ todo : k = CacheKey(d)
    /\ \A d \in package.items \ todo : d.kind \notin ClientKinds =>
          CacheKey(d) \in DOMAIN types /\ types[CacheKey(d)] = d

CachedInv == Inv /\ NamesUnique /\ Cached

LEMMA CachedStep ==
    ASSUME CachedInv, [ImportsNext]_importVars
    PROVE  CachedInv'
<1>1. [Next]_vars
  BY DEF ImportsNext, AdaptCached, EmitImporting, Next, Adapt, Terminated, importVars, vars
<1>2. Inv'
  BY <1>1, NextKeeps DEF CachedInv
<1>3. package' = package
  BY <1>1 DEF Next, Adapt, AdaptItem, WriteLibRs, EmitModule, Terminated, vars
<1>4. NamesUnique'
  BY <1>3 DEF CachedInv, NamesUnique
<1>5. \A d : CacheKey(d)' = CacheKey(d)
  BY DEF CacheKey
<1>10. ASSUME \A k \in DOMAIN types' : \E d \in package.items \ todo' : k = CacheKey(d),
              \A d \in package.items \ todo' : d.kind \notin ClientKinds =>
                 CacheKey(d) \in DOMAIN types' /\ types'[CacheKey(d)] = d
       PROVE  CachedInv'
  <2>1. Cached'
    BY <1>3, <1>5, <1>10 DEF Cached
  <2>2. QED
    BY <1>2, <1>4, <2>1 DEF CachedInv
<1>11. /\ \A k \in DOMAIN types : \E d \in package.items \ todo : k = CacheKey(d)
       /\ \A d \in package.items \ todo : d.kind \notin ClientKinds =>
             CacheKey(d) \in DOMAIN types /\ types[CacheKey(d)] = d
  BY DEF CachedInv, Cached
<1>6. CASE AdaptCached
  <2>1. PICK item \in todo : /\ todo' = todo \ {item}
                             /\ types' = IF item.kind \in ClientKinds THEN types
                                         ELSE Over(types, File(CacheKey(item), item))
    BY <1>6 DEF AdaptCached, AdaptItem
  <2>2. item \in package.items /\ todo \subseteq package.items
    BY DEF CachedInv, Inv, Adapted
  <2>3. package.items \ todo' = (package.items \ todo) \cup {item}
    BY <2>1, <2>2
  <2>4. CASE item.kind \in ClientKinds
    <3>1. types' = types
      BY <2>1, <2>4
    <3>2. \A d : d \in package.items \ todo' <=> d \in package.items \ todo \/ d = item
      BY <2>3
    <3>3. \A k \in DOMAIN types' : \E d \in package.items \ todo' : k = CacheKey(d)
      BY <1>11, <3>1, <3>2
    <3>4. \A d \in package.items \ todo' : d.kind \notin ClientKinds =>
             CacheKey(d) \in DOMAIN types' /\ types'[CacheKey(d)] = d
      BY <1>11, <2>4, <3>1, <3>2
    <3>5. QED
      BY <1>10, <3>3, <3>4
  <2>5. CASE item.kind \notin ClientKinds
    <3> DEFINE k == CacheKey(item)
    <3>1. \A d, e : CacheKey(d) = CacheKey(e) => d.name = e.name
      BY DEF CacheKey
    <3>2. k \notin DOMAIN types
      <4>1. SUFFICES ASSUME k \in DOMAIN types
                     PROVE  FALSE
        OBVIOUS
      <4>2. PICK d \in package.items \ todo : k = CacheKey(d)
        BY <1>11, <4>1
      <4>3. d = item
        BY <2>2, <3>1, <4>2 DEF CachedInv, NamesUnique
      <4>4. QED
        BY <4>2, <4>3
    <3> HIDE DEF k
    <3>3. /\ DOMAIN types' = DOMAIN types \cup {k}
          /\ \A x \in DOMAIN types : types'[x] = types[x]
          /\ types'[k] = item
      BY <2>1, <2>5, <3>2 DEF Over, File, k
    <3>4. \A x \in DOMAIN types' : \E d \in package.items \ todo' : x = CacheKey(d)
      BY <1>11, <2>3, <3>3 DEF k
    <3>5. ASSUME NEW d \in package.items \ todo', d.kind \notin ClientKinds
          PROVE  CacheKey(d) \in DOMAIN types' /\ types'[CacheKey(d)] = d
      BY <1>11, <2>3, <3>3, <3>5 DEF k
    <3>6. QED
      BY <1>10, <3>4, <3>5
  <2>6. QED
    BY <2>4, <2>5
<1>7. CASE UNCHANGED <<package, todo, types>>
  BY <1>7, <1>10, <1>11
<1>8. EmitImporting => UNCHANGED <<package, todo, types>>
  BY DEF EmitImporting, WriteLibRs, EmitModule, Terminated, vars
<1>9. QED
  BY <1>6, <1>7, <1>8 DEF ImportsNext, importVars

\* Where an item is once all modules have been written.
LEMMA InPlace ==
    ASSUME CachedInv, Done, NEW d \in package.items
    PROVE  LET src == ModulePath(d.ns)
           IN  /\ TypeOf(d) = d
               /\ src \in modules /\ HasContent(src) /\ DirOf(d) \in GeneratedModRs(src)
<1> DEFINE src == ModulePath(d.ns)
           c == [path |-> src, item |-> d]
<1>1. package.items \ todo = package.items
  BY DEF Done
<1>2. TypeOf(d) = d
  BY <1>1 DEF CachedInv, Cached, TypeOf
<1>3. c \in content
  BY <1>1 DEF CachedInv, Inv, Adapted
<1>4. src \in modules /\ d \in ItemsIn(src)
  BY <1>3 DEF CachedInv, Inv, Adapted, ItemsIn
<1>5. CASE d.kind \in ClientKinds
  <2>1. ClientFiles(src) # {}
    BY <1>4, <1>5 DEF ClientFiles, ClientKinds
  <2>2. QED
    BY <1>2, <1>4, <1>5, <2>1 DEF HasContent, GeneratedModRs, DirOf
<1>6. CASE d.kind \notin ClientKinds
  <2>1. HasModels(src)
    BY <1>4, <1>6 DEF HasModels, ClientKinds
  <2>2. QED
    BY <1>2, <1>4, <1>6, <2>1 DEF HasContent, GeneratedModRs, DirOf
<1>7. QED
  BY <1>5, <1>6

\* Each path finds the item it was made for, and no other path leads through it.
LEMMA PathsMeet ==
    ASSUME CachedInv, Done, NEW dst \in modules, NEW scope, NEW d \in package.items
    PROVE  LET at == AddForType(dst, scope, TypeOf(d))
           IN  /\ at = {} => HomeOf(d) = Super(dst, scope)
               /\ \A p \in at : Last(p) = d.name /\ DirectoriesOf(p) = {HomeOf(d)}
               /\ \A e \in package.items : \A p \in at : \A q \in AddForType(dst, scope, TypeOf(e)) :
                     /\ IsPrefix(p, q) => p = q
                     /\ d = e => p = q
<1> DEFINE src(i) == ModulePath(i.ns)
           base(i) == BuildImportPath(dst, src(i))
           path(i) == Append(Append(base(i), DirOf(i)), i.name)
           at(i) == AddForType(dst, scope, TypeOf(i))
<1>1. package \in Packages /\ dst \in Path /\ Inv
  BY DEF CachedInv, Inv, Adapted
<1>2. \A i \in package.items : i.name \in Name /\ DirOf(i) \in {Clients, Models} /\ DirOf(i) \in Name
  BY <1>1, LayoutAssumption DEF Name, Reserved, DirOf
<1>3. \A i \in package.items :
         /\ src(i) \in modules /\ HasContent(src(i)) /\ DirOf(i) \in GeneratedModRs(src(i)) /\ TypeOf(i) = i
         /\ src(i) \in Path /\ base(i) \in Path
         /\ HomeOf(i) = HomeIn(src(i), DirOf(i))
         /\ at(i) = {path(i)} \/ (at(i) = {} /\ scope # "clients" /\ Super(dst, scope) = HomeOf(i))
  BY <1>1, InPlace, PathIs
<1>4. \A i \in package.items : Plain(base(i))
  <2>1. \A i \in package.items : Free(src(i))
    BY <1>1, <1>3 DEF Inv, Adapted
  <2>2. QED
    BY <1>3, <2>1, BaseIsPlain
<1>5. ASSUME NEW i \in package.items
      PROVE  Last(path(i)) = i.name /\ DirectoriesOf(path(i)) = {HomeOf(i)}
  <2> DEFINE b == Append(base(i), DirOf(i))
  <2>1. b \in Path /\ Len(b) \in Nat /\ i.name \in Name
    BY <1>2, <1>3, AppendProperties, LenProperties DEF Path
  <2>2. /\ Append(b, i.name) \in Path /\ Len(Append(b, i.name)) = Len(b) + 1
        /\ \A j \in 1..Len(b) : Append(b, i.name)[j] = b[j]
        /\ Append(b, i.name)[Len(b) + 1] = i.name
    BY <2>1, AppendProperties DEF Path
  <2>3. Last(Append(b, i.name)) = i.name
    BY <2>2 DEF Last
  <2>4. SubSeq(Append(b, i.name), 1, Len(b)) = b
    <3>1. Len(b) \in 0..Len(Append(b, i.name))
      BY <2>1, <2>2
    <3> DEFINE f == SubSeq(Append(b, i.name), 1, Len(b))
    <3>2. f \in Path /\ Len(f) = Len(b) /\ \A j \in 1..Len(b) : f[j] = Append(b, i.name)[j]
      BY <2>2, <3>1, PrefixTyped
    <3> HIDE DEF f
    <3>3. f = b
      BY <2>1, <2>2, <3>2, SeqEqual DEF Path
    <3>4. QED
      BY <3>3 DEF f
  <2>5. Len(Append(b, i.name)) - 1 = Len(b)
    BY <2>1, <2>2
  <2>6. Walk(b) = {HomeOf(i)} /\ HomeOf(i) \in Written
    <3>1. base(i) = src(i) \/ base(i) = Append(src(i), Generated)
      BY DEF BuildImportPath
    <3>2. /\ Walk(Append(src(i), DirOf(i))) = {HomeOf(i)}
          /\ Walk(Append(Append(src(i), Generated), DirOf(i))) = {HomeOf(i)}
          /\ HomeOf(i) \in Written
      <4> DEFINE m == src(i)
                 dir == DirOf(i)
      <4>1. /\ m \in modules /\ dir \in {Clients, Models} /\ HasContent(m) /\ dir \in GeneratedModRs(m)
            /\ HomeOf(i) = HomeIn(m, dir)
        BY <1>2, <1>3
      <4> HIDE DEF m, dir
      <4>2. /\ Walk(Append(m, dir)) = {HomeIn(m, dir)} /\ Walk(HomeIn(m, dir)) = {HomeIn(m, dir)}
            /\ HomeIn(m, dir) \in Written
        BY <1>1, <4>1, WalkHome
      <4>3. QED
        BY <4>1, <4>2 DEF HomeIn, m, dir
    <3>3. QED
      BY <3>1, <3>2
  <2> HIDE DEF b
  <2>7. DirectoriesOf(Append(b, i.name)) = {HomeOf(i)}
    BY <2>4, <2>5, <2>6 DEF DirectoriesOf
  <2>8. QED
    BY <2>3, <2>7 DEF b
<1>6. ASSUME NEW i \in package.items, NEW j \in package.items, IsPrefix(path(i), path(j))
      PROVE  path(i) = path(j)
  <2>1. /\ base(i) \in Path /\ base(j) \in Path /\ Plain(base(i)) /\ Plain(base(j))
        /\ DirOf(i) \in {Clients, Models} /\ DirOf(j) \in {Clients, Models}
        /\ i.name \in Name /\ j.name \in Name
    BY <1>2, <1>3, <1>4
  <2>2. IsPrefix(Append(Append(base(i), DirOf(i)), i.name), Append(Append(base(j), DirOf(j)), j.name))
    BY <1>6
  <2> HIDE DEF base
  <2>3. QED
    BY <2>1, <2>2, NoneLeadsOn
<1> HIDE DEF path, at, src, base
<1>7. at(d) = {} => HomeOf(d) = Super(dst, scope)
  BY <1>3
<1>8. \A i \in package.items : \A p \in at(i) : p = path(i)
  BY <1>3
<1>9. \A p \in at(d) : Last(p) = d.name /\ DirectoriesOf(p) = {HomeOf(d)}
  BY <1>5, <1>8
<1>10. \A e \in package.items : \A p \in at(d) : \A q \in at(e) : (IsPrefix(p, q) => p = q) /\ (d = e => p = q)
  BY <1>6, <1>8
<1>11. QED
  BY <1>7, <1>9, <1>10 DEF at

LEMMA UsesIfInv == ASSUME CachedInv PROVE UsesResolve
<1> SUFFICES ASSUME Done, NEW c \in content
             PROVE  LET scope == Scope(c.item)
                        Paths(item) == AddForType(c.path, scope, TypeOf(item))
                        Refers == {d \in package.items : d.kind \in ClientKinds => scope = "clients"}
                        use == Text(UNION {Paths(d) : d \in Refers})
                    IN  /\ \A d \in Refers :
                              IF Paths(d) = {} THEN HomeOf(d) = Super(c.path, scope)
                              ELSE \A p \in Paths(d) :
                                      /\ p \in use /\ Last(p) = d.name
                                      /\ DirectoriesOf(p) = {HomeOf(d)}
                        /\ \A p, q \in use : Last(p) = Last(q) => p = q
  BY DEF UsesResolve
<1> DEFINE scope == Scope(c.item)
           Paths(item) == AddForType(c.path, scope, TypeOf(item))
           Refers == {d \in package.items : d.kind \in ClientKinds => scope = "clients"}
           all == UNION {Paths(d) : d \in Refers}
           use == Text(all)
<1>1. c.path \in modules
  BY DEF CachedInv, Inv, Adapted
<1> HIDE DEF scope
<1>2. \A d \in package.items :
         /\ Paths(d) = {} => HomeOf(d) = Super(c.path, scope)
         /\ \A p \in Paths(d) : Last(p) = d.name /\ DirectoriesOf(p) = {HomeOf(d)}
         /\ \A e \in package.items : \A p \in Paths(d) : \A q \in Paths(e) :
               (IsPrefix(p, q) => p = q) /\ (d = e => p = q)
  BY <1>1, PathsMeet
<1>3. Refers \subseteq package.items
  OBVIOUS
<1> HIDE DEF Paths, Refers
<1>4. \A p : p \in all <=> \E d \in Refers : p \in Paths(d)
  OBVIOUS
<1> HIDE DEF all
<1>5. \A p \in all : p \in use
  BY <1>2, <1>3, <1>4 DEF Text
<1>6. \A d \in Refers : IF Paths(d) = {} THEN HomeOf(d) = Super(c.path, scope)
                        ELSE \A p \in Paths(d) : /\ p \in use /\ Last(p) = d.name
                                                 /\ DirectoriesOf(p) = {HomeOf(d)}
  BY <1>2, <1>3, <1>4, <1>5
<1>7. ASSUME NEW p \in use, NEW q \in use, Last(p) = Last(q)
      PROVE  p = q
  <2>1. p \in all /\ q \in all
    BY DEF Text
  <2>2. PICK d \in Refers : p \in Paths(d)
    BY <1>4, <2>1
  <2>3. PICK e \in Refers : q \in Paths(e)
    BY <1>4, <2>1
  <2>4. d.name = e.name
    BY <1>2, <1>3, <1>7, <2>2, <2>3
  <2>5. d = e
    BY <1>3, <2>4 DEF CachedInv, NamesUnique
  <2>6. QED
    BY <1>2, <1>3, <2>2, <2>3, <2>5
<1>8. QED
  BY <1>6, <1>7 DEF use, all, Paths, Refers, scope

\* What a file imports from the crate it finds, through modules and through what
\* they re-export, and it is what was meant (Use.addForType, buildImportPath): if no
\* namespace takes a name of the emitter's own and no two items have one name.
THEOREM UsesFindTheirTypes == ImportsSpec /\ NoReserved /\ NamesUnique => []UsesResolve
<1>1. ImportsInit /\ NoReserved /\ NamesUnique => CachedInv
  <2>1. ImportsInit => Cached
    BY DEF ImportsInit, Init, Cached
  <2>2. QED
    BY <2>1, InitHolds DEF ImportsInit, CachedInv
<1>2. CachedInv /\ [ImportsNext]_importVars => CachedInv'
  BY CachedStep
<1>3. CachedInv => UsesResolve
  BY UsesIfInv
<1>4. QED
  BY <1>1, <1>2, <1>3, PTL DEF ImportsSpec
=============================================================================
