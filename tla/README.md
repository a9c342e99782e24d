# Formal models of the TypeSpec Rust emitter

TLA+ modules for `packages/typespec-rust`, the TypeSpec emitter that turns a
service description into the source of a Rust crate. All paths below are
relative to that directory. The modules are model-checked with TLC; the
properties that matter most are proved for every value of the constants with
TLAPS.

## 1. Inventory

The emitter runs inside the TypeSpec compiler, once per compilation:

    tsp compile -> $onEmit (src/emitter.ts)
                     |-- Adapter.tcgcToCrate (src/tcgcadapter/adapter.ts)   tcgc model -> rust.Crate
                     |-- CodeGenerator (src/codegen/*.ts)                   rust.Crate -> files
                     `-- src/lib.rs, src/**/generated, Cargo.toml, cargo fmt

| Component | State it keeps | Operations | Hard part | What makes it correct |
|---|---|---|---|---|
| Type adapter, `Adapter.adaptTypes` and below | the cache `types`, the stack of enclosing models, `fieldsMap`, the module contents | `getModel`, `getModelField`, `getDiscriminatedUnion`, `getNonDiscriminatedUnion`, `getType`, ... | mutual recursion over a cyclic graph; half-built objects in a cache; the result depends on the order of visits | finite size of every emitted type, each type registered once and complete, termination |
| Namespaces, `adaptNamespace` | the tree of sub-modules | find or create the module of a namespace | case-insensitive prefixes, siblings, library namespaces | distinct namespaces in distinct modules, but for those that snake case makes one |
| Client adapter, `adaptClients` | the tree of clients, `clientMethodParams` | `recursiveAdaptClient`, `adaptClientParameter`, `adaptClientAccessor` | parameters inherited by sub-clients, versions of several services under other names in the parent | every client can be created and reached, and has the fields its methods read |
| Method adapter, `adaptMethod`, and request builders, `src/codegen/clients.ts` | `rustMethod.params`, its options; the request under construction | `adaptMethodParameter`, `adaptMethodSpreadParameter`, groups; `constructUrl`, `applyHeaderParams`, `constructRequest` | one description is written by the adapter and read at a dozen places of the emitter | the emitted method compiles; what is given is sent, where the operation has it, and once |
| Code model, `src/codemodel` | data | constructors | - | - |
| Code generator, `src/codegen` | `Use` (a trie of use statements), the list of files | `emitContent`, `recursiveEmit`, ... | which files exist and which `mod.rs` declares them | what is declared exists and the reverse |
| Models and unions, `src/codegen/models.ts`, `unions.ts`, `context.ts` | `bodyFormatForModels`; `serdeHelpers` and `xmlListWrappers`, filled field by field and cleared per module | `recursiveAddBodyFormat`, `emitModelDefinitions`, `addSerDeHelper`, `getXMLListWrapper`, `emitSerDeHelpers`, `emitUnions` | helpers are shared by name between the fields of a module; attributes of a field depend on the format, the encoding, the wrappers and each other | the generated functions exist and fit; a message that follows the description is written and read |
| Emitted pollers and pagers, `src/codegen/clients.ts` | `PollerState`/`PagerState` in the emitted crate | the closures of `getLroMethodBody`, `getPageableMethodBody` | asynchronous: requests, answers, resumption | the link that is polled is the latest announced; the result comes from the right place |
| Emitter entry point, `src/emitter.ts` | the output directory | `$onEmit`, `shouldRmDir`, `writeToCrateDir` | successive runs over the same directory, failures in between | the output is that of the last run; handwritten code survives |
| Regeneration script, `.scripts/tspcompile.js`, `.scripts/semaphore.js` | `current`, `queue`, the event loop | `take`, `leave`, `generate` | callbacks, timers, several failure paths | no slot lost, every crate built or reported |
| Naming, `src/utils/utils.ts`, `src/tcgcadapter/naming.ts` | - | `snakeCaseName`, `getUniqueVarName`, ... | collisions | unique, legal names |
| Options, diagnostics, Cargo.toml, doc tests | - | - | - | text and declarations |
| Tests, generated crates, `spector.js`, `workspace-members.js` | - | - | - | outside the emitter |

Everything inside one run of the emitter is sequential JavaScript; concurrency
exists in the regeneration script (callbacks of Node's event loop), in the
emitted pollers and pagers (the service answers on its own), and between
successive runs over the same output directory.

The hazards of this code, each at its line, are listed in `PROJECT.json`.

## 2. Modules

### TypeAdapter

The recursion of the type adapter, made explicit. `calls` is the JavaScript
call stack of unfinished `getModel`, `getDiscriminatedUnion` and
`getNonDiscriminatedUnion` calls; one action is what the code does between two
such calls.

| Model | Code |
|---|---|
| `schema` | the part of tcgc's package that can recurse: for a model its properties, the inherited ones included, and its additional properties; for a union its variants and its kind |
| `roots` | the unions and models `adaptTypes` has still to visit |
| `types` | the keys of `Adapter.types` for models and unions |
| `calls[k].stack` | the `stack` parameter of `getModel`/`getModelField` |
| `fields` | `rust.Model.fields`: `heap` for a Vec or HashMap, `boxed` for `rust.Box`, `ref` for the reference of `FixUpBase` |
| `pushed` | how often a type was pushed into `module.models`/`module.unions` |
| `VisitRoot`, `RegisterRoot` | the loops of `adaptTypes` |
| `VisitProperty`, `AddField` | `getModelField` before and after `this.getType(property.type, stack)`, and `rustModel.fields.push` |
| `VisitAddlProps`, `ModelReturns` | `this.getType(addlProps)`, `stack.pop()` and the return |
| `VisitVariant`, `AddVariant`, `UnionReturns` | the loops over the variants in the three union functions, and the cache entry at their end |
| `FixUpBase` | the branch for `Unknown<Name>` in `getDiscriminatedUnion` |
| `FieldNeedsBoxing` | `fieldNeedsBoxing` |

In the code `stack` is one array which is pushed and popped; as every push has
its pop, each frame of the model has the value the array has during its call.

What is abstracted: types that neither recurse nor hold models (scalars, enums,
dates, literals, external types), names (a node is its own cache key), the
usage flags, and `Option`, which does not change the size question. An untagged
union that contains itself without a model in between is left out: the adapter
recurses without bound there (see the hazards).

Properties: `Sized` (no Rust type contains itself by value), `BoxedOnlyOnCycles`
(the converse: a boxed field's type leads back to its model), `CachedModelsComplete`
(a model met half finished in the cache is completed), `RegisteredOnce`,
`NothingMissing`, `BaseFieldsAreRefs`, `Terminates`.

`Sized` and `RegisteredOnce` do not hold for all type graphs. They hold when no
cycle passes through a union or through additional properties (`Stratified`),
and the three edges that are cut there - the stack that is not handed to the
members of a discriminated union, nor to additional properties, and the late
cache entry - are where the properties fail. Section 4 has a run for the first; for the
others, and for `BaseFieldsAreRefs`, the graphs are listed with the hazards.

### BuildDriver, WorkPool

`BuildDriver` is `tspcompile.js` with `semaphore.js` on Node's event loop: the
script runs to its end first (`todo`), then what was given to `nextTick`
(`ticks`), and only then timers and exits of compilers. `Leave` is
`semaphore.leave`; `Task` is the task of `generate` up to its next wait.
`take`'s `firstHere` adds one unit and subtracts it again within one call, so
it cancels out.

`WorkPool` is what the script promises: jobs start in order, at most `Capacity`
at once, each once. `BuildDriver` implements it under a mapping by the phases of
the builds: `Waiting` (not started, and not filtered out), `Begun`, `Gone`. A
build that was handed its slot but has not run yet counts as waiting.

### Emitter

`$onEmit` over successive runs on one output directory. A file is abstracted to
the number of the run that wrote it (`disk`); `Hand` marks handwritten files.
`Content` is the list that `emitContent` returns and `Before` its order, which
matters when a run is cut short: a sub-module's `mod.rs` is written before its
contents, `generated/mod.rs` after them. `ShouldRmDir` reads the `mod.rs` of a
directory. A sub-module may have the name of a handwritten directory, whose `mod.rs` it then
overwrites, as nothing in the code prevents it. `overwrite` is the option `overwrite-lib-rs`. `Crash` kills a run at
any step, `CrashInRemoval` in the middle of a removal; `torn` holds the
directories that a kill left without their mark, by then or for good.
`Sources` stands for everything below `generated/` except `mod.rs`.

### CrateLayout, CrateImports

From namespaces to files: `Adapter.adaptNamespace`, `emitLibRs`, and
`CodeGenerator.emitContent` with the functions of `mod.ts`. `CrateImports` adds what
these files import from each other.

| Model | Code |
|---|---|
| `package` | what tcgc hands over: the items, each with a namespace, the namespaces of all models it lists, the first of its namespaces; and the root namespace |
| `RootsOf` | the choice of the root in the constructor of `Adapter`, which may be a namespace without items |
| `modules`, `content` | the tree of `rust.Crate` and `rust.SubModule`, and what has been pushed into them |
| `Redirected`, `Trimmed`, `WithModule` | the three parts of `adaptNamespace`; `StartsWithRoot` and `WithoutRoot` are `startsWith` and `substring`, by letters and without regard to case |
| `SnakeCase` | `snakeCaseName` with `deconstruct`, `fixETagName` and `removeIllegalChars`, which makes the name of a module of each word that is left |
| `Adapt` | the pushes of `adaptTypes` and `recursiveAdaptClient` |
| `WriteLibRs` with `LibRs`, `EmitModule` | `emitLibRs`, which declares `generated` always; one round of `recursiveEmit` |
| `files` | the files written and the `mod` declarations in them |
| `types`, `TypeOf` | `Adapter.types` and what it returns for an enum, a model or a union |
| `AddForType`, `BuildImportPath` | `Use.addForType` for types of the crate, `buildImportPath` |
| `Text` | the leaves of the trees of `Use` |
| `Walk`, `DirectoriesOf` | where the compiler finds a path (external) |

A file is named by the module path it defines, so that `x.rs` and `x/mod.rs` are
the same file, as they are for the compiler. The text of the files, and which of
several files of one kind are made, are abstracted. Any file may refer to any type, and
a file of clients to any client, since who refers to whom is up to the description.

### ClientTree

The clients of a crate, how they are adapted and how a caller gets hold of one.

| Model | Code |
|---|---|
| `package` | what tcgc hands over: for each client the parameters it is initialised with, who initialises it (`clientInitialization.initializedBy`), its children, whether it has methods and the client parameters they read |
| `stack`, `next` | the unfinished calls of `recursiveAdaptClient` and their loops over the children |
| `rust[c].fields`, `.endpoint` | `rust.Client.fields`, `.endpoint` |
| `rust[c].auth`, `.ctors` | the flags `authType`, with the schemes in place of bits, and `constructable.constructors` |
| `rust[c].params`, `.options` | `ctorParams`, which each constructor gets, and the fields of `constructable.options` |
| `ProcessCredential`, `WithNoCredential`, `Constructed` | `processCredential`, the test that adds `with_no_credential`, and the loop over the constructors |
| `rust[c].accessors`, `.reads` | the accessors and the client parameters among `rust.Client.methods` |
| `cache` | `clientMethodParams`, with `Key` as `getClientParamsKey` |
| `EnterRoot`, `EnterChild` | `recursiveAdaptClient` up to the loop over the children: `AdaptConstructable` and `AdaptSubClient` are its first two branches, `Reject` its errors |
| `Leave` | the methods, and the caller's `adaptClientAccessor` |
| `AccessorBody`, `ConstructorBody` | `getClientAccessorMethodBody`, and the constructors that `emitClients` writes |

A name is a sequence of words, so that prefixes can be told from names. A type
is only whether it is an `Option`. Clients are emitted after all are adapted,
which matters: a parent gains fields with each child of several services.

Properties: `AccessorsInitialise` and `ConstructorsInitialise` (rustc wants every
field exactly once), `ClientParamsResolve` (the endpoint among them),
`NamesDistinct`, and `AuthenticationAsDescribed`: a client can be created without
a credential only if the service accepts that, and with one exactly if it accepts
a token, which the pipeline then sends. A client whose schemes are all unsupported
has no constructor, which the code only warns of (`UnsupportedAuthenticationScheme`).

What tcgc hands over is typed (`ClientTreeAssumption`). Four of the properties need more
than types, and the module states what. `WellNamed`: the clients are a forest, and no two children
of a client, nor two clients called by a name of their own (roots, and those with
`@clientName`), have the same name; `NameOf` gives the others the name of their parent
as a prefix. `Coherent` has four parts. `NamesFit`: no parameter is called `pipeline`, or like an
api-version with words before it, which is how a version of a sub-client is called in the client
above. `OwnParamsFit`: a client has an endpoint, and its parameters of one name agree.
`SubParamsFit`: what a sub-client has of its parent, it has in the same way, and what
it has alone is required. `ReadsFit`: methods read what their client has, and those that
read a parameter of one name at one place read the same. `OnceEach`: a client has each child once, and
each parameter, those in the template of its endpoint included, under a name of its own. `AccessorsFit`, of a
client and a child: the two call their endpoint the same; a parameter of the child is one of the client, in the
same way, or the caller is asked for it, which works only if it is a required parameter of a method and no version
that the client was given already; where the client has dropped a version that it only merges, the child adds
its own to it, which works only for sub-clients of a root; and no parameter is called like one of the child with the
last word of the name of the child before it. `MCClientTree` has TLC evaluate
them (`Supported`); `SubParamsFit`, `ReadsFit` and `AccessorsFit` are where the code goes wrong, at the lines of the hazards.

### MethodCall, HttpCall

One method, from its description to the request that it sends.

| Model | Code |
|---|---|
| `method.params`, `method.ops` | `method.parameters`, `method.operation.parameters` and `bodyParam`; `segments` is `methodParameterSegments` |
| `Matches`, `AdaptOne`, `AdaptGroup`, `SkipParam`, `AdaptClientParams` | the two filters, the cases and the last loop of `adaptMethod` |
| `Adapted`, `Processed` | `adaptMethodParameter` or `adaptMethodSpreadParameter`, and `processAdaptedParam` |
| `params`, `options` | `rustMethod.params`, the fields of its options |
| `Signature`, `Scope` | `getMethodParamsCountAndSig`, and what `getMethodOptions` and the client add to it |
| `Value`, `Guarded`, `PathRef`, `Reads` | `getHeaderPathQueryParamValue`, `getParamValueHelper` and the places that use them |
| `Check`, `ConstructPath`, `ConstructQuery`, `ApplyHeaders`, `SetBody` | the parts of the body of an emitted method, in their order |
| `given`, `request` | the values of one call, and what is sent for each parameter of the operation |

Adaptation and emission are decided once for a method; the call is then made with
every combination of values that are given, absent or empty. `Reads` names what
the emitted text refers to and `Scope` what there is; the text itself, the Rust
types and the encodings are abstracted.

`HttpCall` is the promise of a client method in terms of the description alone,
with no notion of options, groups or clients: `MethodCall` implements it
(`KeepsPromise`).

`WellFormed` is what tcgc hands over (`MethodAssumption`): names of parameters are unique, an operation has one
body at most, each segment leads from a parameter of the signature to one of its
properties, and no two end in the same name (`AreDistinct`). A property that was
extracted from a body model which is a parameter itself is dropped by the adapter
(`adapter.ts:2038-2050`) and excluded here. The properties do not hold for all of these,
and the module says for which: `Emittable` excludes the five descriptions for which the emitted text
refers to what does not exist, `LiteralsRequired` optional literals that nobody reads,
`Overrides` signatures that make optional what the operation requires. Each is a
hazard with its line; `MCMethodCall` has TLC evaluate them for the methods of the run.

### SerdeFields, EnumValues, ModelSerde

The models of a crate, down to the messages that the emitted code exchanges with
a service. `SerdeFields` is one field: what `getModelField` makes of a property
and which attributes and helpers `models.ts` gives it. `EnumValues` is the variants of
enums and untagged unions, and how they are converted. `ModelSerde` is the crate.

| Model | Code |
|---|---|
| `crate` | the models with the properties that tcgc describes, the unions, the bodies of the methods with their format, the modules in the order in which `CodeGenerator` sorts them |
| `Collected` | which bodies get a format: those of parameters, pagers and responses, but not of pollers |
| `formats`, `TakeBody`, `AddBodyFormat`, `ConflictingFormats` | `Context.bodyFormatForModels`, the loops of the constructor, `recursiveAddBodyFormat` and its error |
| `serdeHelpers`, `xmlListWrappers` | the two maps of `models.ts`, by the name of the helper; the value is the field that the helper was made for |
| `EmitModels`, `NoModels`, `EmitField`, `UnexpectedKind`, `EmitHelpers` | `emitModels` up to its loop over the models, its return without any, one field of `emitModelDefinitions`, the error of `buildSerDeModName`, and `emitSerDeHelpers` with the text of the wrappers |
| `SerdeParams` with `RenameParams`, `CodecParams`, `SkipParams`, ... | the branches that fill `serdeParams` for a field |
| `HelperPath`, `SerDeModName`, `LiteralName`, `WrapperName` | the names of the functions, by which fields share them; `Converted` and `Identifier` are the replacements in the name of a literal, of a text, a number or an enum value |
| `SerializeForm`, `DeserializeForm` | `recursiveBuildSerializeBody` and `recursiveBuildDeserializeBody`: what each piece of a type writes for the piece around it |
| `GetEnum`, `GetMergedFlatEnum`, `BuildUntaggedUnion` | the functions of these names; `GroupOf` is the counter in the names of values that coalesce |
| `FromWire`, `ToWire`, `WrittenEnum`, `Accepts` | the conversions and the serde impls that `enums.ts` emits |
| `ReadValue` | what is derived for an untagged union: the first variant that accepts a value |
| `Holding`, `NoUnionMember` | the search for the union of a subtype among those of its module, and the error without one |
| `StructTag`, `WrittenTags`, `ReadAs` | the tag of a union, as `emitModelDefinitions` and `unions.ts` write and read it |
| `message`, `wire`, `read`, `Send`, `Answer`, `Read` | one message by the emitted code or by a service; serde and quick-xml, which are external, follow the attributes |

A value is only whether it is given, but for enums and untagged unions, which have one
of the values that their types describe or, if extensible, another; an entry on the wire has its name, its mark
(attribute or text), the form of its list, its encoding and the value of a
literal. What must be sent (`Described`) is defined on the description alone.
`IsCrate` is the shape of a crate (`SerdeAssumption`): a type names models, enums and unions that the crate has. Below
it, and before the messages, stand the conditions of the theorems: `ReachedPlainly`, `HelpersSupported`, `SendingSupported` and `ReadingSupported`.

### LroPoller, Operation, Pager, PageReader

The closures that `getLroMethodBody` and `getPageableMethodBody` emit, together
with the service on the other side and, for the pager, the caller. The runtime
of `azure_core` that calls them and the service are not in this repository; both
are modelled from how the emitted code uses them and are marked external.

| Model | Code |
|---|---|
| `LroPoller.method` | the headers and status codes of the method, as the conditions of lines 1592-1598 and 1692-1731 sort them |
| `links` | `PollerContinuation::Links` |
| `SendFirst`, `SendPoll` | the two arms of the match on `poller_state` |
| `NextLink`, `FinalLink`, `AtOnce`, `StatusBody`, `FinalBody` | the emitted code between `pipeline.send` and the match on the status |
| `InProgress`, `Succeeds`, `EndsOtherwise`, `Fails` | the arms of that match, and `?` |
| `Target` | the request made by `target` |
| `Pager.state` | `PagerState` |
| `FirstUrl`, `WithToken`, `Reinjected`, `RequestHeader` | `constructUrl`, the query builder of the following requests, `applyHeaderParams` |
| `Request`, `Continue`, `Finish`, `Fail` | the closure up to `send`, and what it makes of the answer |

The service of `LroPoller` tells the truth about the operation, in the form that
the emitted code expects of this kind of method: each `Monitors` link announced
last is the one to poll, each `Places` link announced last holds the result, an
answer with a body has the status of the operation. It may announce a new link
with any answer or with none. It may end the operation between two polls. The
service of `Pager` serves the page it is asked for; its links may lack the
version and the parameters that the description marks for reinjection.

`Operation` is what a poller promises its caller: one outcome, which is that of the
operation or an error, told once, and the result at most once and only after a
success. `LroPoller` implements it (`WatchesOperation`). `PageReader` is what a pager promises its caller: the pages from the first one asked
for to the last, in order and each once. `Pager` implements it (`ReadsPages`);
failures, links, tokens and resumption do not show there.

### MC modules

The `MC` modules give the constants their values; the families of type graphs
and of packages are described there.

### Faulty variants

A definition `Name_Fault` in a module is `Name` with a plausible mistake. No
specification uses it; each property of each passing run fails when one of them
replaces the original, which shows that the property depends on the code.

### Not modelled

- The code model (`src/codemodel`) is data: its instances are the state of the modules.
- Names, but for those of enum values, reserved words, docs, options, diagnostics,
  `Cargo.toml` and doc tests are text.
- The traits of response headers and literals that are values of an enum (`getEnumValue`,
  which does not find a value that coalesces with another); enums of floats; parameters
  that were extracted from a body with `@bodyRoot`, which are not sent (`adapter.ts:2047`).
- Imports from other crates, and the impl blocks of `Context`.
- Pageable and long-running methods outside the closure: they share the request builder
  that `MethodCall` models for plain calls.
- `spector.js`, `workspace-members.js`, the tests and the generated crates are outside
  the emitter.

## 3. Runs

| Run | Module | Expected | Properties | Shows |
|---|---|---|---|---|
| `types` | `MCTypeAdapter` | passes | `Sized`, `BoxedOnlyOnCycles`, `CachedModelsComplete`, `RegisteredOnce`, `BaseFieldsAreRefs`, `NothingMissing`, `Terminates` | Cycles of models, all three kinds of union and additional properties, where no cycle passes through a union: every emitted type has a finite size, boxes are spent on cycles only, everything is adapted completely and registered once, and the adapter ends. |
| `discriminated` | `MCTypeAdapter` | violated | `Sized` | A cycle through a discriminated union that is first met from a model: nothing is boxed. |
| `builds` | `MCBuildDriver` | passes | `SlotsAccounted`, `NoIdleSlot`, `NoStaleOutput`, `EveryBuildEnds`, `PoolRefined` | Five crates over two slots with failing deletions, a failing exec and failing compilers: no slot is lost or idle, every selected crate is built or reported, and the script implements a pool of workers. |
| `emit` | `MCEmitter` | passes | `OutputFresh`, `OutputExact`, `HandwrittenKept` | Three runs of the emitter over one directory, each with its own crate, which may fail in the adapter or the code generator or be killed anywhere, also in the middle of a removal: after a run that succeeds its files are there and fresh, nothing of earlier runs is left but where a kill cut a removal or the writing below src/generated short, and handwritten modules survive. |
| `lro` | `MCLroPoller` | passes | `WatchesOperation`, `PollsMonitor`, `ResultDelivered`, `PollEnds` | Every kind of long-running method against a service that moves its links and ends the operation when it likes: the poller follows the latest links, tells the truth about the outcome, delivers the result and ends. |
| `lro_delete` | `MCLroPoller` | violated | `PollEnds` | A DELETE that the service ends with an empty 200 is polled for ever. |
| `pager` | `MCPager` | passes | `InOrder`, `RequestComplete`, `ReadsPages`, `PagerEnds` | Three pages under every strategy, with incomplete links, requests that fail and callers that resume: the pages arrive in order, every request is complete and the pager ends at the last page. |
| `layout` | `MCCrateLayout` | passes | `DeclaredAreWritten`, `ImportsResolve`, `UsesResolve`, `OneModulePerNamespace`, `NothingOverwritten` | Packages with items in the root, in children, siblings, parents and libraries, in other letters and under names that snake case makes one, and roots without content: only such namespaces share a module, the mod declarations and the files agree but for generated in a lib.rs whose root is empty, and whatever a file imports is found where the use statement points, in the directory of the type that was meant. |
| `layout_prefixed` | `MCCrateLayout` | violated | `SiblingsAreChildren` | A sibling namespace whose name begins with the name of the root loses letters of its name. |
| `methods` | `MCMethodCall` | passes | `EmittedCompiles`, `OptionsMatter`, `KeepsPromise` | Methods with a parameter in the path, the query and the header each and a body, required or optional, of the signature, a group or the client: the emitted method compiles, reads all that the caller gives, and sends one request with each value where the operation has it. |
| `clients` | `MCClientTree` | passes | `AuthenticationAsDescribed`, `AccessorsInitialise`, `ConstructorsInitialise`, `NamesDistinct`, `ClientParamsResolve` | Roots, sub-clients and sub-clients of these for one and for several services, with every union of up to three authentication schemes: every constructor and accessor initialises every field of its client once, whichever client has the parameter, the constructors are those the schemes allow, and methods find the client parameters they read. |
| `models` | `MCModelSerde` | passes | `FormatsReach`, `HelpersFit`, `SendsAsDescribed`, `ReadsWhatIsSent` | Some 3100 small crates: every pair of fields from a pool for JSON and from one for XML, literals of texts, numbers and enums, spread bodies, extensible and enveloped unions, enums, untagged unions, additional properties, pages, pollers and models that two bodies share. The format reaches every model, every helper that an attribute names exists and fits, the emitted client sends what the description says and reads what a service sends by it. |

Bounds. Three models, one with two references through the heap or not, contain
every way in which two cycles can share a node and in which a half-finished
model can be met from inside and from outside of a cycle (`ModelSchemas`).
`LayeredSchemas` varies the kind of the union, its variants, heap references,
additional properties and the order of the visits. Larger graphs are covered by
the theorems. Five builds over two slots fill the queue, let it drain, and let a slot be
handed over twice while another build backs off; two attempts make both a retry
and a final failure happen. Three runs of the emitter with two sources and one
sub-module are enough for leftovers of two different runs to meet a third; of two
handwritten directories one has the name of the sub-module.
The packages of `CrateLayout` have up to three namespaces around the root, one of
every relation that `adaptNamespace` tells apart: child, grandchild below a
namespace that may be empty, sibling, child of a sibling, parent, library, none
of these. Some differ in case alone, and some have different words for one module. The root may have no items: it is
then that of a model that is skipped, or the first namespace of a package without models. Namespaces that are named like a module the emitter makes (`generated`,
`models`, `clients`), and a child and a sibling of the root with the same last
word, are left out: the properties fail for them, as the hazards say. So are two
items of one name: the cache takes them for one, and `UsesResolve` fails. The packages of `ClientTree` have a root, two children, one of them with a
child, and a second root: three levels are the least at which a client inherits
what its parent has not from its own description, and two children the least at
which versions of several services meet in a parent. A credential is
a union of up to three schemes, so that two flows of OAuth2 can meet a scheme
that is not supported. Every way to initialise the
root and the second child is combined with parameters that are shared, dropped
and added on the way down. `MethodCall` takes every path parameter with every
query parameter, which covers groups of none, one (the adapter rejects these), two and three, and every
header with every body; the parts of the request do not depend on each other
otherwise. Left out of `ClientTree` are optional parameters of a sub-client that
callers can also construct, and API versions in children of a single service;
left out of `MethodCall` are path values that contain a later placeholder of the
same path.

`MCModelSerde` puts every pair of fields from a pool of JSON shapes, and from one
of XML shapes, into a model, and the first of the two once more into a model of
another module, with an empty module in between: two fields are what it takes
for helpers to be shared or mixed up, two modules for the maps to be cleared too
early or too late. To these come spread bodies, extensible unions and unions
with an envelope, additional properties, a model in two bodies, pollers, and a subtype in another module than its
union, on which the emitter gives up. The literals are texts, an integer, a number with a point and an enum value. The enums have two
groups of values that coalesce, apart from one that does not, so that the groups are
numbered; the untagged unions list their variants from the widest to the narrowest. No model has two
properties that are its text, which one message could not hold. The pools
leave out the shapes for which the generated code does not work, each of which
is a hazard with its line: an optional field with a helper of its own that is
absent (`models.ts:614`); two literals that differ in marks only, and numbers with a sign or an exponent (`:712`); two
fields of one shape where only the first has a custom deserializer (`:643`); XML
lists with one key and different shapes (`:491`); fixed widths, decimals and
integers as strings inside collections (`:1311`); a sealed union with an unknown
member, renamed fields of an extensible base, unions or boxes on the way to
an XML model, and the XML status of a poller that no other body holds (`context.ts:34`); unions of enums in which a name stands for two
values or an enum is extensible (`adapter.ts:799`), and untagged unions with two models
or an extensible enum (`adapter.ts:825`); additional properties that hold lists in XML
(`:232`); a spread body with a null for an empty string.

A method whose model has no status property is left out of `LroPoller`. Where the code
goes wrong on what is left out, the hazards say so. Two links of each kind let a link be replaced, kept and mixed up with
the other; three pages have a first, a middle and a last one, and two parameters
let one be reinjected while the other is not. `LroPoller` and `Pager` have no
bound in their guards. `MaxRuns` bounds the runs of the emitter (`StartRun`), nothing else is bounded
by a guard.

The type invariants of `BuildDriver`, `Emitter`, `LroPoller` and `Pager`, and the invariants
that only serve their proofs and that of `TypeAdapter` (`CallStackInv`,
`QueuesMatchPhases`, ...), are proved for all constants (section 5) and are not
checked in a run.

Fairness. `TypeAdapter` is sequential code that never waits: weak fairness of
`Next`. In `BuildDriver` timers fire and processes exit, and `Next` is weakly
fair as well; no build is preferred, and no assumption is made on the outcome of
a deletion or a compilation. `Emitter` has no liveness property: its runs are
started by hand, and neither have `CrateLayout`, `ClientTree`, `MethodCall`
and `ModelSerde`, whose steps are bounded by the description. In `LroPoller` and `Pager` the
caller polls or reads on until the end (`Closure`) and the service answers
(`Handle`, `Serve`): without the first the stream is simply dropped, and the
second is what a timeout of the transport turns into a failure. `Progress` is
fair because a poller cannot end if the operation does not. Nothing is assumed
about failures, or about a caller that resumes.

## 4. Where the code departs from what it says

**`discriminated`** violates `Sized` (`src/tcgcadapter/adapter.ts:693`). The code boxes a field when its type is on the stack, "to avoid infinitely recursive type definitions" (src/tcgcadapter/adapter.ts:929), and the release notes promise to "Avoid infinite recursion in emitted types by using `Box<T>` to break the cycle." (CHANGELOG.md:512). But getDiscriminatedUnion adapts its members with getModel(unionMember) (line 648 for subtypes) without the stack. For a { u: U }, b { a: A } and U with the member b, visited from a: b does not find a on the new stack, and the member check runs with the stack of a, which does not hold b; so a holds U, U holds b and b holds a by value.

**`lro_delete`** violates `PollEnds` (`src/codegen/clients.ts:1747`). The emitter recognises an ARM DELETE "which may have empty responses and only communicate via status codes" (src/codegen/clients.ts:1722), and requires 200 to be among its status codes (line 1729). But only an empty 204 is taken for success; an empty 200, the third of the declared codes and one that ends a DELETE, becomes "{}", which has no status and means that the operation is in progress: the poller asks again for ever.

**`layout_prefixed`** violates `SiblingsAreChildren` (`src/tcgcadapter/adapter.ts:196`). The comment says "if the root namespace is Foo.Bar and we encounter Foo.Baz, treat Baz as a child module by trimming the shared parent (Foo) prefix." (src/tcgcadapter/adapter.ts:193). For the root Foo.Bar and the sibling Foo.Barista the text begins with the root, although isUnderRoot above is false; substring drops the root and one letter more, and the content ends up in the module "sta" in place of "barista".

## 5. Proofs

| Module | Theorem | Property | Establishes |
|---|---|---|---|
| `TypeAdapterProofs` | `TypeCorrect` | - | The variables keep their types and no call runs past the references of its type, for every set of type graphs. |
| `TypeAdapterProofs` | `SizedTypes` | `Sized` | For any number of models and unions, no emitted type contains itself by value, provided that no cycle of the type graph passes through a union or through additional properties. |
| `TypeAdapterProofs` | `CallStackCorrect` | - | Under the same assumption the cache, the call stack and the model stacks fit together: an unfinished outer model is on the stack of every inner call or on a higher level. |
| `RegenerationProofs` | `TypeCorrect` | - | Type correctness for any list of crates, capacity and number of retries; the attempts never exceed the bound. |
| `RegenerationProofs` | `SlotsNeverLeak` | `SlotsAccounted` | The counter of the semaphore is the number of builds that hold a slot and never exceeds the capacity. |
| `RegenerationProofs` | `SlotsNeverIdle` | `NoIdleSlot` | No build waits while a slot is free. |
| `RegenerationProofs` | `OutputNeverStale` | `NoStaleOutput` | The compiler never runs over old output, and old output survives only if every attempt to delete it failed. |
| `LroPollerProofs` | `TypeCorrect` | - | Type correctness of poller and service for any links and any kinds of methods. |
| `LroPollerProofs` | `ImplementsOperation` | `WatchesOperation` | The poller implements the abstract operation: the caller is told one outcome, once, success only of an operation that has succeeded and Done only of one that has failed, and gets the result at most once, after a success. |
| `LroPollerProofs` | `PollsGoToMonitor` | `PollsMonitor` | Every poll goes to the link announced last. |
| `LroPollerProofs` | `ResultIsDelivered` | `ResultDelivered` | The result is taken from where the service keeps it. |
| `PagerProofs` | `TypeCorrect` | - | Type correctness for any number of pages and any parameters. |
| `PagerProofs` | `PagesInOrder` | `InOrder` | The pages arrive in order, whatever fails in between and however often the caller resumes. |
| `PagerProofs` | `RequestsComplete` | `RequestComplete` | Every request carries the parameters of the caller and the version of the client. |
| `PagerProofs` | `ImplementsPageReader` | `ReadsPages` | The pager implements the reader of pages: for any number of pages the caller gets them in order, each one once, whatever fails and however often reading is resumed, and the end after the last of them. |
| `RegenerationProofs` | `EmitterTypeCorrect` | - | The variables keep their types, for any number of directories, files and runs. |
| `RegenerationProofs` | `HandwrittenSurvives` | `HandwrittenKept` | No run touches the mod.rs of a handwritten module, unless a sub-module has the name of its directory. |
| `RegenerationProofs` | `OutputIsFresh` | `OutputFresh` | After a run that succeeds every file of the crate was written by it, whatever earlier runs left, and an overwritten lib.rs declares the modules that are there. |
| `RegenerationProofs` | `OutputIsExact` | `OutputExact` | After a run that succeeds no file of an earlier run is left, but in directories whose removal, or whose contents below src/generated, a kill cut short. |
| `RegenerationProofs` | `ImplementsWorkPool` | `PoolRefined` | The script implements the pool of workers: for any list of crates and any capacity, builds start in the order of the script, never more than there are slots, and each once. |
| `TypeAdapterProofs` | `BoxesOnCycles` | `BoxedOnlyOnCycles` | Whatever the type graph, cycles through unions included, only a field whose type leads back to its model is boxed. |
| `TypeAdapterProofs` | `ModelsComplete` | `CachedModelsComplete` | Whatever the type graph, a model that recursive calls meet half finished in the cache is completed by the one call that adapts it. |
| `CrateLayoutProofs` | `DeclaredModulesAreWritten` | `DeclaredAreWritten` | For any items in any namespaces and any root, unless a namespace makes a module of a name of the emitter's own: every module that is declared has a file and every file is declared, but for generated, which lib.rs declares also where the root has no content and so no file. Whether the names are ones that Rust takes is not said. |
| `CrateLayoutProofs` | `ImportsAreFound` | `ImportsResolve` | Under the same condition what an item defines is found where other modules import it from. |
| `CrateLayoutProofs` | `EachFileOnce` | `NothingOverwritten` | Under the same condition no file of one module replaces that of another. |
| `TypeAdapterProofs` | `EveryTypeIsPushed` | `NothingMissing` | For any type graph whose package lists what others refer to, cycles of all kinds included: what was adapted has been pushed in the end, with all that it refers to. |
| `TypeAdapterProofs` | `PushedAtMostOnce` | `RegisteredOnce` | On such a graph, if no cycle passes through a union or additional properties, no type is pushed twice. |
| `TypeAdapterProofs` | `UnknownModelsFixed` | `BaseFieldsAreRefs` | On such a graph the model Unknown<Name> of a cached union has been pushed with all of its fields as references, and stays so. |
| `CrateLayoutProofs` | `ImportsKeepLayout` | - | What is cached and imported changes nothing of the layout: the theorems about CrateLayout hold of CrateImports. |
| `MethodCallProofs` | `ParamsAreThoseOfSegments` | - | The parameters of the Rust method are exactly what the segments of the operation ask for, one for each that is adapted, and its options are the optional ones of the method. |
| `MethodCallProofs` | `EmittedMethodCompiles` | `EmittedCompiles` | For methods that the emitter can emit, whatever the emitted body reads is a parameter, an option or a field of the client. |
| `MethodCallProofs` | `EveryOptionMatters` | `OptionsMatter` | If literals are required too, a caller can leave out exactly what the signature says is optional, and whatever he sets is read. |
| `MethodCallProofs` | `MethodKeepsItsPromise` | `KeepsPromise` | MethodCall implements HttpCall: for supported methods what is sent is what was given, each parameter where the operation has it and nothing else, or the call is refused for an empty part of the path. |
| `CrateLayoutProofs` | `NamespacesKeepApart` | `OneModulePerNamespace` | Unless a namespace beside the root begins like the root or makes the names of one below it, namespaces with one module make one name in snake case word by word, or differ in the case of the root's words alone; for any namespaces of any depth. |
| `ClientTreeProofs` | `WellTyped` | - | Adapted clients, the calls under way and the cache of client parameters keep their types, for any trees of clients. |
| `ClientTreeProofs` | `ClientsAuthenticate` | `AuthenticationAsDescribed` | Whatever schemes a service accepts, and whatever sub-clients add to the constructors later: there is a constructor with a credential exactly if it accepts a token, one without exactly if it needs none or accepts none, and no two have the same name. |
| `ClientTreeProofs` | `NamesKeepApart` | `NamesDistinct` | In any forest of clients, of any depth, in which no two children of a client and no two absolute names are called the same, no two clients have the same name. |
| `ClientTreeProofs` | `ClientParamsAreFields` | `ClientParamsResolve` | In any package whose clients agree on the parameters they share, what a method reads from its client is a field of it of that type, and is sent where the operation has it. |
| `CrateLayoutProofs` | `UsesFindTheirTypes` | `UsesResolve` | If no namespace takes a name of the emitter's own and no two items have one name: whatever a file imports is found where its use statement points, through modules and re-exports, in the directory of what was meant. |
| `ClientTreeProofs` | `ConstructorsSetFields` | `ConstructorsInitialise` | In any forest of clients whose parameters have names of their own, each constructor sets every field of its client exactly once and begins with the endpoint, whatever sub-clients of any depth add to the client afterwards. |
| `ClientTreeProofs` | `AccessorsSetFields` | `AccessorsInitialise` | In any forest of clients in which a child has what it shares with its parent in the same way, and alone only required parameters of methods (Reachable): each accessor initialises every field of the client it returns exactly once and with a value of its type, from the parent by the same or the longer name, or from a parameter. |
| `ModelSerdeProofs` | `FormatsInvariant` | - | For any crate: what is left to collect, what was collected and what the bodies ask for fit together, and the emitter gives up only for a model in bodies of both formats, a literal in a collection or a subtype whose module has no union with it. |
| `ModelSerdeProofs` | `ModelsHaveTheirFormats` | `FormatsReach` | In any crate whose XML models, and those in both formats, are reached through collections and Options from a parameter, a response or a page: every model is emitted in the format of the bodies it is in, the status of a poller among them, and only a model in both, a literal in a collection or a subtype whose module has no union with it makes the emitter fail. |
| `ModelSerdeProofs` | `SerdeInvariant` | - | For any crate: every field has the attribute its own shape asks for, and the helpers of each module are exactly those that its own fields name, made for one of them. |
| `ModelSerdeProofs` | `FieldsFitTheirHelpers` | `HelpersFit` | In any crate of the shapes that azure_core and the helpers are made for, in which literals that are numbers have neither sign nor exponent and fields that share a helper agree on it: every function an attribute names exists in the module under a legal name, compiles and takes the type of the field, and no module has any other; the variants of every enum have names of their own. |
| `ModelSerdeProofs` | `SendsWhatIsDescribed` | `SendsAsDescribed` | In any crate of supported shapes whose names tell properties, literals of a module and merged enum values apart, and whose unions are in the module of their members: whatever fields a client gives, of a model alone or as a member of a union, what it sends is exactly what the description says, each field once under its wire name, in its place, with its encoding and its value, and the tag of the union once. |
| `ModelSerdeProofs` | `ReadsWhatIsDescribed` | `ReadsWhatIsSent` | In any crate of supported shapes whose optional fields have a default, whose variants of untagged unions are told apart by their kinds and whose bases have no attributes: whatever fields a service leaves out, of a model alone or as a member of a union, its message is read as the model it is, every field that is sent has its value, and values of untagged unions and enums are read as the narrowest variant that describes them. |

`TypeAdapterProofs`. `Sized` is not inductive. Its proof needs an order in which
types are finished: a type is *closed* when no unfinished call of `getModel` can
add a field to it (`Closed`). `EdgesClosed` says that whatever a type holds by
value was closed before, so that the order of closing contradicts a cycle; the
proof of `Sized` carries, for every set of types, the element that was closed
last. That a field which is not boxed has a closed type follows from `ChainOK`:
an outer call that is still open is on the stack of the inner one - then
`fieldNeedsBoxing` boxes - or on a strictly higher level of the type graph, from
where no reference leads back. This is where `Stratified` is used, and only
there. `FramesOK` and `VariantsClosed` connect cache, call stack and variants.
The theorems assume `\A s \in Schemas : Stratified(s)` and nothing about the
number of models, unions or properties; `TypeCorrect` needs no assumption.

In the same module, two properties hold for every type graph, cycles through
unions included. `OneCallPerModel` says that no model is adapted by two calls at
once, and that its fields are the properties its call has visited; it rests on the
cache entry that `getModel` makes before it looks at the properties. With
`IdleModelsComplete` for the models no call is adapting it gives
`CachedModelsComplete`. `StacksReach` says that every model on the stack of a call
leads to the type of that call, so that what `fieldNeedsBoxing` finds there closes a
cycle: `BoxedOnlyOnCycles`.

Also in `TypeAdapterProofs`: what is pushed into the modules comes from three places:
the loops of `adaptTypes`, untagged unions themselves, and unions for their
`Unknown<Name>`. `NothingLost` says for each of them that a type in the cache has been
pushed or will be (`RootsPushed`, `UntaggedPushed`, `BasesPushed`), and that a call has
cached what its references lead to (`RefsCached`); it is kept on every type graph
whose package lists what others refer to (`Listed`). `NothingTwice` says that what is
still to be pushed has not been pushed (`PushedOnce`), and that a fixed up
`Unknown<Name>` is closed in the sense above, so that no field comes
after the others were made references (`BasesFixed`). An untagged union must not be
called again before it is cached, and an `Unknown<Name>` must not be met half finished:
both need `Stratified`, and the hazards give the graphs on which they fail.

`RegenerationProofs`, the first half, is about `BuildDriver`. The inductive invariant is `TypeOK`, `QueuesMatchPhases`,
`SlotsAccounted`, `NoIdleSlot` and `RetriesLeft` (a build that backs off has an
attempt left). Each of the three bookkeeping invariants needs the others:
`SlotsAccounted` needs that the head of the queue is not yet holding a slot,
which `QueuesMatchPhases` says, and `NoIdleSlot` needs the exact count.
For the refinement (`ImplementsWorkPool`) `WaitsInOrder` adds that the builds
that were handed a slot come before those in the queue, and these before those
that were not asked for yet; and that a build never overtakes a tick, since no
tick is pending while the script still runs.

`LroPollerProofs`. The links of the poller are compared with those of the service
at the moments at which they must agree: `LinksKept` says that between two
answers the poller has the service's links, and that an answer is ahead of it by
exactly the headers it carries. `StatusTrue` relates the last answer to the state
of the operation. `LinkUntilSuccess` is what makes the shortcut for PUT and PATCH
sound: while the link to poll is the first URL, no answer but the final one has
status 200 and no link. `ResultAtEnd` carries both to the result. For the refinement
(`ImplementsOperation`) `OutcomeAtEnd` adds that nothing is told before the end, so
that no outcome is ever revised.

`PagerProofs`. `StateFitsLast` ties the continuation to the page the caller got
last, and `AskedOnce` says that a request under way asks for one page, the one
that continuation leads to: this is where appending a token instead of replacing
it would fail. `AnswerFits` says the same of the answer. `StartOnlyWithTokens`
keeps the caller's token out of the methods that have none. For the refinement
(`ImplementsPageReader`) every step of the pager is a step of `PageReader` or
changes nothing there: `Continue` and `Finish` hand out a page, `Resume` may choose
another first page while there is no continuation.

`RegenerationProofs`, the second half, is about `Emitter`. That nothing old survives (`OutputExact`) needs more than what a
run removes: every directory with generated files must be recognised by the next
run, whenever this one stops (`Told`). While files are written this rests on their
order: `WrittenInOrder` says that what comes after a file still to write is still
to write, so that a sub-module has its `mod.rs` as soon as it has any file
(`MarkWritten`). `Untorn` says so of every directory that no kill has torn,
`Progresses` that what is not to be written any more is written. The handwritten
modules survive because their `mod.rs` has no mark and no file of a crate lies
in their directories; `HandwrittenKept` leaves out a directory that has the name of a sub-module, where this is wrong.

`CrateLayoutProofs`. `Inv` follows the tree of modules through the two halves of the
run. `Adapted` says that the tree has every prefix of its paths and a module for all
content; `Visited` that a module is waiting for its files once, below a parent that has
been written; `Exact` that what is written is the files of the modules visited, no more
and no less, each with the declarations of its own module. From it `DeclaredAreWritten` follows, with the one declaration that has no
file: `generated` in the `lib.rs` of a root without content. That no two modules write one
file (`OneOwner`) is a fact about paths: everything a module writes has one of the names
`generated`, `clients` and `models` at the place where the module's path ends, or is its
`mod.rs`. It needs that no namespace makes a module of such a name (`NoReserved`), which
is the assumption of these theorems because the code does not see to it. They are
about `CrateLayout`, and by `ImportsKeepLayout` about `CrateImports` as well, whose
steps do to the layout what those of `CrateLayout` do.

`NamespacesKeepApart` is about the paths alone. `ModuleIs` says what the text operations of
`adaptNamespace` come to: the words after the root's, in snake case, for a namespace below it, the words
after the root's parent for one beside it, while parents and libraries are
redirected to the root. Two namespaces with one module are then the same (`ModulesDiffer`) as far as `SameNamespace`
tells, which takes words of one name in snake case for one, and the words of the root without their case; if
none beside the root begins like the root or makes the names of one below it
(`Separated`). Both are hazards of the code. `Separated` and `NoReserved` hold for all
packages of the run `layout`.

`UsesFindTheirTypes` is about the text of use statements, over the layout that `Inv` describes.
`Walk`, which follows a path as the compiler does, is a recursive function on the length of the path;
what it finds is shown by induction on that length (`SetInduction`): a module's path leads to
itself (`WalkModule`), and one that goes on with `clients` or `models` to the directory below
`generated`, by itself or by what the module re-exports (`WalkHome`), and from there no
further (`NoneLeadsOn`). The first `clients` or `models` of a path comes right before the name of
the type (`BaseIsPlain`), so that no path is a prefix of another and `Use.text`, which leaves out a
path when it writes a longer one, leaves out nothing that is needed (`PathsMeet`). `CachedInv` says
that the cache has what was adapted and nothing else, which
is wrong when two items have one name: the theorem assumes `NamesUnique`, which the run's packages satisfy.

`MethodCallProofs`. `ParamsInv` is a closed form of the loop in `adaptMethod`: whatever
the order of the parameters, those of the Rust method are the ones that the segments of what has
been adapted ask for (`ParamsFollow`), and the options are the optional ones among them
(`OptionsFollow`); since `AreDistinct` makes the ends of segments unique, each parameter knows its own.
From it `EmittedCompiles` and `OptionsMatter` are proved place by place: path, query, header and body,
each with its way to read a value, a group or an element. For the refinement `CallInv` says which
parameters of the operation are dealt with when the emitted method has come to some place: those have
what `HttpCall` promises, the others are not sent yet.

`ClientTreeProofs`. The folds of the adapter, over parameters, schemes and reads, and
sequences flattened from pieces are reasoned about by induction on their length: a set that
contains 0 and the successors of its elements contains all of `Nat` (`SetInduction`, from the
well-foundedness of `<`), and the set to take is that of the lengths for which the claim
holds. `TypeInv` types the clients and the calls. `AuthInv` says that each client callers create has the
constructors that its schemes ask for, each once and with the credential only in `new`
(`AuthFits`); children that add versions later change the parameters but neither names nor credentials.
`NamesInv` says that a client is named by itself or after its parent, so that of two clients
of one name, which has the same length and last word for both, the parents have one name as well: induction on the
length. `ResolveInv` says that a client has the fields of its parameters
and otherwise only versions of clients below (`Resolved`), so that no version a child
adds is taken for a parameter by a later child, and that what is remembered of an operation's
parameter is what any other has for it (`Remembers`). `CtorInv` says of a client with constructors that
each of them fits the fields (`Fits`: no two fields, options or parameters have one name, and each field but the
pipeline has exactly one parameter, and an option if that is optional), begins with the endpoint, and that all names
are those of its own parameters or end in an api-version behind the name of an adapted client (`Known`). What a
sub-client adds is named after it; it is adapted once (`TreeInv`: the calls under way are different clients,
and children are adapted in their order) and no adapted client has its name (`NamesInv`), so the names are new
(`Fresh`). A sequence that has each field once is as long as the fields are many (`Counting`).
For `AccessorsInitialise` it is not enough that every field has a source: `AccessorInv` says exactly which fields a
client has (`FieldsAre`), those of its parameters and one for each version that a child has brought
(`VersionOfChild`), and that accessors are for children. `EnterFieldsSub` keeps it where a sub-client
changes two clients in one step, and needs `AccessorsFit` to know that the nearest client that can be created is the
parent (`VersionsBelowRoot`). Of the body of an accessor, `PieceIs` says what becomes of one field of the
parent: itself if the child has it, the child's version if it is that one by the longer name (`Renames`), or nothing.
That a longer name means this version and no other is `VersionOnly`, from names that say where they
are split (`SameTail`, `PrefixKeepsApart`). `FieldsSplit` says that the child has what it inherits and what the caller is asked for, and
`NothingTwice` that these are different. The theorems assume `WellNamed`, `Coherent`, `OnceEach`
and `AccessorsFit` where these are needed, and `ClientsAuthenticate` none of them.

`ModelSerdeProofs`. `FormatsInv` is about `Context`. `FormatsSound` says that who has a format, or is
about to get it, is a model that the bodies of that format ask for; `FormatsComplete` that what such a model leads to
has the format too, but for the types still to be looked at. Both are stated on sets of models (`AskedOf` is
the least closed set), so that no recursion over the graph is needed. When nothing is left, the models of a format
are closed under what the code follows, which is not boxes and unions, and so contain
all that is reached without these. `ReachedPlainly` says that the difference does not matter: it
is asked of XML, since JSON is also the format of what is not reached, and of models in
both formats, which are an error only if they are found. It also asks that the XML status of a
poller is in a body of another kind, since the code collects none of pollers.

`EmissionInv` follows `emitModels`: every field that has been emitted has the attribute of its own shape (`AttrsRight`);
the two maps hold what the fields of this module have asked for so far, and each helper was made for a field of this module that
asked for it by that name (`CurrentRight`), and so do the maps of every module that is complete (`CompleteRight`).
`HelpersFit` then is a question about two fields with one name of a helper. `NameTells` says that the name
of a module of functions tells the whole type: collections, Options and the leaf with its encoding, by
induction over the wrappers. `LiteralsNamedApart` keeps the names of literals apart from these, by their first word, and `LiteralsAreLegal` says that a name
has no marks if the literal is a text, or a number with at most a point.
The code of a helper is put together by a recursion over the wrappers; `NestedCompiles` shows
that each piece is what the one around it expects. For enums, `EnumsNamed` says that values
whose names coalesce become different variants of that name. `FieldsFitTheirHelpers` assumes `ReachedPlainly` and `HelpersSupported`: the
shapes for which the functions exist, and agreement of two fields that share one. Each of its
conjuncts is there for a hazard.

`SendsWhatIsDescribed` follows one message through these attributes. `ReadyMade` says, for every field of a crate
whose models are emitted, that the helper or the wrapper it names was made for a field of the same name; `HelperTells`, that this has
the same encoding, by `NameTells`, or is a literal of the same name, and so of the same value by `SendingSupported`. An entry
has a name and a mark (`PlaceWritten`), the form of a list (`ListWritten`), an encoding (`EncodingWritten`)
and the value of a literal, and for each of these the lemma compares two functions of one property: what is written by the
attribute, and what the description asks for. `EnumWritten` says that a variant of an enum is
written as the text it stands for, also in a merged enum, which keeps the first value of a name;
`NarrowestThere`, that an untagged union has a narrowest variant for each value described, so that
`GivenIsWritten` holds of all values. `FieldWritten` puts an entry together: a field is there if it is given and may be set, a required
literal is there anyway, and for any other there is nothing or null. `ModelWritten` adds up the entries of a model, since every property has one field
of its name, and `TagsWritten` the tag. `SentRight` carries this over the step `Send`, and
to the states that follow only because the crate stays as it is. The theorem assumes `SendingSupported` besides the two other conditions: names tell the properties of a
model, the literals of a module and the values of merged enums apart; `@unwrapped` is for text and lists;
an XML model with additional properties has plain fields only; and a member of a union has its tag from the
union or from itself, not from both, and is in the module of the union if it has it from itself.

`ReadsWhatIsDescribed` goes the other way, from the entries that a service sends by the description. `EntryOf` says
that in the place where a field is looked for there is the entry of its property and no other, or none if it
is left out. `FieldUnderstood` compares, for one entry, the form of the list, the encoding and the value with what the
function reads: by `ReadingPath` this is the function that writes, a custom one, the one for empty strings, or what is derived for
an optional literal, whose helper only writes. `MissingRead` says that a field which is left out has a default or
is an Option that no function reads. For values, `EnumRead` says that the conversion finds the variant
that was made of the text, also if values of a name are merged, and the unknown one only for other texts.
`VariantsSorted` says that the sort of an untagged union is a permutation in the order of the ranks; the rank of a
variant counts those before it, so that the order needs no sort of a library. By `AcceptsDescribed` the derived code accepts exactly
the values that a variant describes, and by `OrderFits` no later variant describes fewer of them, so the first that accepts
is a narrowest one (`ValueRead`). `ModelRead` and `BaseRead` put the fields together, with attributes and
without, and `UnionRead` finds the member by its tag, or the base. `AnswerRight` is the invariant
of what is on its way, `ReadRight` of what has been read.
`ReadingSupported` asks, besides the three other conditions, for what the hazards of reading leave: an optional field has a
default or no function, properties have places of their own, the variants of an untagged union are told apart by their kinds,
values of enums have names and are different on the wire or merged under one name, a base is read without attributes,
an empty string is none only for plain fields, and a member has the tag of its union.
TLC evaluates all four conditions for all crates of the run.

The proofs rest on the assumptions `SchemasAssumption`, `BuildAssumption`,
`EmitterAssumption`, `LroAssumption`, `PagerAssumption`, `LayoutAssumption`,
`MethodAssumption`, `ClientTreeAssumption`, `MarksAssumption` and `SerdeAssumption` of the modules, which TLC evaluates in the runs.
`LayoutAssumption` only types the packages, whose root may be empty, and `EmitterAssumption` does not keep handwritten directories apart from sub-modules. `MCTypeAdapter` also has TLC evaluate
`Stratified` and `Listed` for its layered type graphs, `MCMethodCall`, `MCClientTree` and `MCModelSerde`
the conditions of their theorems.

Only model-checked: the liveness properties (`Terminates`, `EveryBuildEnds`, `PollEnds`, `PagerEnds`),
which need fairness and `ENABLED`. Every invariant and action property of the passing runs has a theorem.

## 6. Plan

Sections 2 to 5 describe what is done. What is left, most important first:

1. The traits of response headers and literals that are values of an enum, which
   complete what a method sends and reads.
2. Pageable and long-running methods on top of `MethodCall`, which share its request builder.
3. `Naming`: pure algorithms against reference definitions.

