# Model-checking the CCM / CCDL sources

This directory holds TLA+ models of the repository's code and the TLC configurations that check them.
`PROJECT.json` lists:

- every component;
- every run with the properties it checks;
- the line map from each TLA+ definition to the source it translates;
- the findings;
- the hazards.

## The system

The repository has three parts:

1. **The CCDL compiler front end** (`src/src/Parser.cpp`, `src/src/ccdl`, `src/src/cdlc`, `src/src/codegen`).
   - A recursive-descent parser reads a token stream from the Tokenizer, which is not under `src/`.
   - It builds a Component: interfaces, methods, parameters, enumerations, and interned Array/Pointer types.
   - It records every problem in a diagnostic list.
   - A code generator prints C++ from the component.
2. **The runtime** (`src/src/runtime`).
   - Reflection objects are built lazily over a component's metadata, in CMetaComponent and CMetaCoclass.
   - Also here: the RPC factory entry points and a mutex.
3. **libcore** (`src/src/libcore`), a Java-like class library. It includes:
   - a concurrent two-level Charset cache;
   - Arrays (binary search and range checks);
   - InputStream;
   - collections, formatting and locale data.

The parts interact only through data. The parser's Component feeds the code generator, and the generated code runs on the runtime and libcore. Inside libcore, `Charset` calls `CheckName` and the InputStream bulk reads call the one-byte `Read` of a subclass. Each component is therefore its own module, and a module instantiates another only where the code calls it:
- `Charset` extends `CharsetName`;
- `Charset` instantiates the abstract `CharsetRegistry` for the refinement check;
- `CharsetProviders` instantiates the abstract `ProviderLookup` the same way;
- `CharsetAvailable` instantiates `CharsetProviders` for its look-ahead iterator, which `AvailableCharsets` walks as `LookupViaProviders` does;
- `FormatterObject` extends `FormatterPrint`, which extends `Formatter`: the object's `Format` calls the same `Parse` and `Print`.

| Module | Models | Kind |
|---|---|---|
| `Parser`, `MC_Parser`, `MC_ParserProfiles` | `src/src/Parser.cpp` | state machine, one process |
| `Charset`, `MC_Charset` | the lookup cache of `Charset.cpp` | state machine, concurrent threads |
| `CharsetRegistry` | what the cache promises | abstract specification |
| `CharsetProviders`, `MC_CharsetProviders` | `LookupViaProviders`'s `_Iterator` and `Run` | state machine, one lookup |
| `ProviderLookup` | what a provider lookup promises | abstract specification |
| `CharsetAvailable` | `Charset::AvailableCharsets` and `Charset::Put` | state machine, one call |
| `CharsetAliases` | `Charset::GetAliases` and its reference counts | state machine, concurrent threads |
| `CharsetName` | `Charset::CheckName` | recursive operator |
| `MetaComponent` (instanced by `MC_Library`) | `CMetaComponent.cpp`, `CMetaCoclass.cpp` | state machine, one caller |
| `Arrays` | `src/src/libcore/src/ccm/util/Arrays.cpp` | operators over W-bit integers |
| `Formatter` | the parse, flags and argument selection of `Formatter.cpp` | recursive operators |
| `FormatterPrint` | `FormatSpecifier::Print*`, `ToString`, `AddZeros`/`AddDot`/`TrailingZeros` | recursive operators |
| `FormatterObject` | the `Formatter` object: constructors, `Format`, `Flush`, `Close`, getters | state machine, one caller |
| `InputStream` | the default `Read` and `Skip` of `InputStream.cpp` | recursive operators |
| `CodeGenerator` | the namespace blocks of `CodeGenerator.cpp`'s header | recursive operators |
| `MC_Operators`, `MC_Library` | reference definitions for every operator module; `MC_Library` adds a `FormatterObject` and a `MetaComponent` | one input per initial state |

## What is modelled

### `Parser.tla`: `src/src/Parser.cpp`

**The token source.**
- The Tokenizer is the environment. Each `GetToken()` returns any token kind of the constant `Alphabet`.
- At most `MaxTokens` tokens are read before `END_OF_FILE`, and after that `END_OF_FILE` comes forever.
- `pushed` is the one-token push-back of `UngetToken`.
- `GetUuidNumberToken`, `GetVersionNumberToken` and `GetStringLiteralToken` are the only readers that can return a uuid or version literal (`ParseAttributeValue`).

**Control.**
- Each `Parse*` function is a procedure. It has one control location (`pc`) per token it reads, so one step of the model is the code between two reads.
- A call pushes a frame `[ret, into]`. `into` names the caller whose local `parseResult` the callee's boolean result is and-ed into, exactly as in `parseResult = ParseX() && parseResult`. It is `"none"` where the caller drops the result: `ParseFile` on a bare `interface`, and `ParseParameter` calling `ParseType`.
- `res` holds each procedure's `parseResult`.
- `ParseType` and `ParseArrayType` return a `Type*` in `rtype`.

**Skip loops.**
- A loop such as `while (token != X && token != END_OF_FILE) token = GetToken();` reads tokens that no later code looks at. `SkipTo` takes it in one step.
- When `END_OF_FILE` is not among its stop tokens, one outcome is `pc = "Hang"`: the loop reads `END_OF_FILE` forever. This happens at lines 163, 190, 217, 612 and 632.

**Data.** Data is abstracted to what the properties tell apart:
- `errors` is the length of the diagnostic list. The message, line and column are left out.
- `decl` is the interface or enumeration being built. Its ghost fields record `named`, `opened` (`{` read), `closed` (`}` read) and its methods.
- `meth` holds the parameters of the method being built. A parameter is its direction bits, its type, and whether a `*` was read.
- `decls` records every finished declaration, with whether it was attached (`AddInterface` / `AddEnumeration`) and how many diagnostics it produced.
- `nodes` is the bag of PointerType / ArrayType nodes ever created (`AddTemporaryType`).
- Types are records: Integer (standing for every primitive keyword), a user type, `Array<e>`, `Pointer(base, depth)`, and `nullptr`.
- `Component::FindType` on an identifier is not under `src/`. It is a nondeterministic found/not-found choice. Primitive keywords are always found. Pointer and Array shapes are found when they are in `nodes`.

**Actions.** Every branch of every `Parse*` function is an action or a disjunct of one, named after the function (`ParseMethodOpen`, `ParseParameterSeparator`, …). Unreachable code is left out: `ParseMethod`'s "Method name is expected." branch is dead, because the only caller pushes back an identifier.

The stubs are modelled as the code has them:
- `ParseCoclass` returns false;
- `ParseExpression` returns false and reads nothing;
- `ParseModule` returns true;
- `ParseInclude` and `ParseNamespace` do nothing;
- `ParseConstDataMember` returns true and reads nothing.

**Terminal states.** `Finished` (Parse returned) and `SpinAtEndOfFile` (a hang) are stuttering steps, so the check for deadlock stays on.

**Fairness.** The parser is one sequential thread that always takes its next step, so `Spec` assumes `WF_vars(Next)`.

### Properties that hold

| Property | What it states |
|---|---|
| `TypeOK` | Every variable has its kind, and the types built are well formed. |
| `AttachedIffClean` | A declaration is attached only if no diagnostic was logged while parsing it. An interface is deleted only with a diagnostic. Every failure path of body, method, parameter and type parsing must both log and propagate false, through up to five nested procedures. |
| `ParseReturnsOrHangs` | Every parse returns from Parse unless it is in one of the EOF-blind skip loops. No other loop runs forever. This is a liveness property. |

### Properties the code violates

Each of these is a violation run; `PROJECT.json` has the findings.

| Property | What the code does |
|---|---|
| `ParseResultMatchesDiagnostics` | Success is not "zero diagnostics". Unexpected top-level tokens are logged while the result stays true. |
| `ParseTerminates` | The EOF-blind recovery loops hang on files like `enum E { 1`. |
| `WellFormedInterfaceDeclared` | One malformed method discards the whole interface, against the spec's "error non-abort". |
| `StarredParameterIsPointer` | `ParseType` returns the base type of `T*`. |
| `ArrayTypeResolvesOrDiagnoses` (action property) | The first use of `Array<T>` returns nullptr, because an inner variable shadows the one returned. |

`Parser.tla` also states `CalleeOnlyOnOut` (`[callee]` is accepted without `out`) and `AttachedBodiesClosed` (a body that runs to the end of the file is attached). TLC found both violated in the first sitting. No run checks them now, because the project keeps a run only for the most significant questions.

### Runs and bounds (`MC_Parser.tla`, `MC_ParserProfiles.tla`)

`MC_ParserProfiles` checks three token profiles in one run (`parser_profiles`). The profile is chosen in the initial state, together with the file, and never changes:

| Profile | Alphabet | MaxTokens | Why |
|---|---|---|---|
| `all` | all 33 token kinds | 10 | Every production is entered and every error path taken. |
| `methods` | 13 interface/method tokens | 14 | `[ ] interface I { m ( [ ] Integer x ) ; }` is 14 tokens, so a clean attributed interface with a method is reached. |
| `types` | 12 type tokens | 15 | Two parameters of the same pointer type (15 tokens) and repeated `Array<T>`. |

The violation runs use `MC_Parser` with one of these alphabets. Files shorter than `MaxTokens` are included, because `END_OF_FILE` is in every alphabet.

Each passing property is also checked against a plausible fault in the code it depends on (`PROJECT.json`, `mutants`), and TLC reports a violation for each:
- `SetAttributeAnyToken`: every token in brackets is taken as a direction;
- `CallMethodIgnoringResult`: `ParseMethod`'s result is dropped;
- `BodyEndsAtBraceOnly`: the body loop has no EOF check;
- `AddPointerUnchecked`: a PointerType is created without the `FindType` lookup.

### `Charset.tla`: the lookup cache of `Charset.cpp`

**State.** `cache1` is the volatile one-entry `sCache1`. `cache2` is the locked map `sCache2`, from name to object. `gate` is the thread-local recursion gate of `LookupViaProviders`. Each thread has a `pc`, a frame of its call's locals, and a stack of frames suspended while a provider re-enters `ForName`.

**Steps.** One step of a thread is the code between two accesses to shared state:
- a synchronized block on `sCache2` is one step (`Lookup2`, `CacheLocked`);
- the volatile read and write of `sCache1` are steps of their own (`Lookup`, `Publish`);
- `NativeConverter::CharsetForName` and each provider create a fresh object on every call (`Native`, `ProviderAnswer`).

Not under `src/`: ICU and the providers. They are the constants `IcuCharset` and `ProviderCharset`. A provider may look up a name of `ReentryNames` through `ForName` while it runs (`ProviderReenter`).

**Fairness.** There is none. `Charset` has no liveness property: a thread may stop between any two steps, and no property depends on its progress.

**Refinement.** `CharsetRegistry` is the promise of the cache: each charset is bound once, to one object, and the binding never moves. `Charset` maps `registry` to the object filed under each charset's canonical name. `CacheImplementsRegistry` checks `Registry!Spec` as a temporal property.

### `CharsetProviders.tla` and `ProviderLookup.tla`: one lookup through the providers

`LookupViaProviders` runs a `_PrivilegedAction` whose `Run` walks the iterator `GetProviders` returns and asks each provider for the name.
- **State.** `broken` is the set of providers whose loading fails, chosen in `Init`. `loadPos` and `mNext` are `_Iterator`'s position in the ServiceLoader and its one provider of look-ahead. `cp`, `runPc` and `found` are `Run`'s locals.
- **Actions.** `HasNext`, `TakeNext` (`Next`, which clears `mNext`), `CallProvider` and `Ended`. `GetNext` is the shared look-ahead of `_Iterator::HasNext`/`Next`. The ServiceLoader is not in the repository: it yields the providers in order, and a broken one fails to load and is passed over.
- **`Run` ignores the ECodes** of `HasNext` and `Next`. When the last provider is broken, or two broken providers are adjacent, `Next` hands `Run` a null provider, and `CallProvider` dereferences it (`runPc = "Crashed"`).
- **Refinement.** `ProviderLookup` is the promise: the answer is the first provider's non-null answer, or nullptr, or a crash when `mayCrash` holds. `CharsetProviders` maps `answers` to the loaded providers' answers and `mayCrash` to `UnrecoverableLoad`. `RunImplementsLookup` checks `Lookup!Spec` as a property, so the crash is allowed exactly where the loading pattern makes it possible.
- **Fairness.** `WF` on the lookup's steps: `Run` is one sequential call that keeps running. `RunEnds` states that it returns or crashes.

### `CharsetAvailable.tla`: `Charset::AvailableCharsets`

`AvailableCharsets` runs a `_PrivilegedAction` whose `Run` fills a `TreeMap` ordered by `ASCIICaseInsensitiveComparator`, so canonical names that differ only in case are one key.
- **State.** `m` maps each case-folded key to a charset. `broken`, `loadPos`, `mNext` and `cp` are the provider iterator's state, as in `CharsetProviders`, and `it` is what the current provider's `Charsets()` iterator has still to yield.
- **Actions.** `PutIcu` is the loop over ICU's names, one step because it is a local loop with no call that fails or blocks; later names replace earlier ones. `HasNext` and `TakeNext` reuse `CharsetProviders`' `GetNext`. `GetCharsets` calls `cp->Charsets`, and crashes when `cp` is null. `PutStep` is one round of `Charset::Put`, which adds a charset only when its key is absent. `AvailableEnded` is the return.
- **Properties.** `AvailableMapsFirstCharset`: when `Run` returns, each key holds ICU's charset if ICU has one, else the first loading provider's; `Run` crashes only under the same `UnrecoverableLoad` as the lookup. `AvailableEnds`: `Run` returns or crashes, under `WF` on its steps (one sequential call).

### `CodeGenerator.tla`: the header's namespace blocks

`GenerateTypeDeclarations` writes, for each metadata namespace with an enumeration or an interface, `GenerateNamespaceBegin`'s `namespace x {` lines, one declaration per interface, and `GenerateNamespaceEnd`'s `} // namespace x` lines.
- The text is abstracted to events `<<"open", x>>`, `<<"decl", i>>` and `<<"close", x>>`. The namespace name stays a sequence of characters, because the index arithmetic is the point.
- `NamespaceBegin` walks forward with `IndexOf("::", from)`. `NamespaceEnd` walks back from `LastIndexOf("::") - 1` with `LastIndexOf("::", end)` and closes the leading name after its loop.
- The ccdl `String` class is not in the repository. The module states the semantics the generator is written against: positions from 0, `LastIndexOf(s, from)` finds the last match at or before `from`, and `Substring(begin, end)` includes `end` and is empty outside the string.
- `HeaderNamespacesNested` (in `MC_Operators`) states that the header is well nested: every closing brace closes the innermost open namespace and names it, each interface is declared inside exactly its own namespace, and nothing is left open. It is checked for every list of at most two namespaces whose names are the empty name or up to two identifiers each followed by `::`. That is the form the metadata uses, since `GenerateInterfaceDeclaration` prints namespace and name with `"%s%s"`. For a name without the trailing `::` the model shows the imbalance: `NamespaceEnd("a::b")` closes `b` and `a` after `NamespaceBegin` opened only `a`. See the hazard at `CodeGenerator.cpp:238`.

### `CharsetAliases.tla`: `Charset::GetAliases`

Threads call `GetAliases` on one charset. The first call builds the unmodifiable set and assigns it to the `AutoPtr` `mAliasSet` without a lock. `refs` counts each set's references (the `AutoPtr` assignment adds one to the new set and releases the old, the temporary releases its set, `REFCOUNT_ADD` adds the caller's). `ReturnedSetAlive` states that no thread holds, or is about to take a reference to, a freed set. The run `charset_aliases` finds it violated: see the finding.

### `MetaComponent.tla`: `CMetaComponent.cpp` and `CMetaCoclass.cpp`

**State.** The metadata is chosen in the initial state: per kind, the external flag of each entry, and for each coclass the indexes of the interfaces it implements. The rest of the state:
- `slots[kind]`: the arrays `mMetaCoclasses`, `mMetaEnumerations` and `mMetaInterfaces`, one slot per entry that is not external;
- `map[kind]`: the full-name maps;
- `kintfs[k]`: the interface array of coclass `k`, copied from the component's map;
- `answer`: what the last `CMetaComponent` getter returned.

**Actions.** Each public call is one action: `Get<Kind>Number`, `GetAll<Kind>`, `Get<Kind>(name)` (name 0 is the empty name, `Count + 1` a name of no entry), `Build(kind, index)` as called by other reflection classes, `CoclassGetAllInterfaces` and `CoclassGetInterface`. Objects are numbers and Null is 0. The class has no locks, and one call is one step. `GetName`, `GetComponentID` and the `CMetaCoclass` getters return constants and are left out.

**Fairness.** There is none, and no liveness property.

### `FormatterObject.tla`: the `Formatter` object

- **State.** `mA` is the destination: `"builder"` (a `CStringBuilder`, whose `Append` never fails), `"writer"` (a buffered writer or a caller's stream, which may fail any `Append`, `Flush` or `Close`), `"null"` once closed, `"none"` before a constructor succeeded. `out` is what reached the destination, `mLastException` the stored I/O failure, `op`/`ret` the last call and its ECode.
- **Actions.** `Construct` (all 14 constructors, with file, stream and charset-name failures), `FormatCall` (parse, then print each piece, `FixedString::Print` included, over a destination that may refuse chosen appends), `Flush`, `Close`, `Query` (the getters) and `GetIoException`.
- `FormatCall` reuses `Formatter`'s `Parse` and argument choice, so the object and the operators agree by construction.

### `Arrays.tla`, `Formatter.tla`, `FormatterPrint.tla`, `InputStream.tla`, `CharsetName.tla`: operators

These modules have no state. Each function is an operator; loops are `RECURSIVE` operators, and an error is an ECode field of the result.

- **`Arrays`** works over W-bit two's-complement Integers, so that `low + high` and `offset + count` wrap as the builds do.
- **`Formatter`** has:
  - `Parse` with `FormatSpecifierParser`, whose cursor arithmetic includes `Back` over a leading `0`;
  - `Flags::Parse` over the flag bits, which fails on a repeated flag;
  - the constructor of `FormatSpecifier`, which keeps the null `mF` of a repeated flag;
  - every `Check*`;
  - `Format`'s choice of argument through `last`/`lasto`.

  A `CheckSpecifier` that falls off its end is undefined behaviour. It is the input `fallOff`: the ECode returned is either NOERROR or an arbitrary failure.
- **`FormatterPrint`** has what each conversion appends (`Print*`, `Justify`, the sign helpers), `FormatSpecifier::ToString`, and the digit-array helpers `AddZeros`, `AddDot` and `TrailingZeros`. The floating `Print(sb, Double, ...)` that would call the helpers is empty in this port, so they are checked on their own.
- **`InputStream`** takes the subclass to be a sequence of `Read(&c)` outcomes: a byte, `-1`, or a failing ECode. Past its end every outcome is `-1`. `MAX_SKIP_BUFFER_SIZE` is not defined in the repository, so it is the constant `MaxSkip`.

`MC_Operators` has one variable, `input`, chosen in `Init` from every bounded input of every operator, and checks each operator against a reference definition written independently of the code:
- the greedy grammar of a format specifier;
- the argument each specifier names;
- the leading bytes of a stream;
- the digits after a dot;
- the nesting of namespace blocks, read with a stack;
- plain set arithmetic for ranges.

## Runs

Several runs check more than one model. Their MC module has a `profile` variable, chosen in `Init`. Each profile's steps leave the other profiles' variables unchanged, so the run is the union of the separate models.
- `MC_Library`: profile `operators` (the `MC_Operators` inputs) and profile `object` (a `FormatterObject` with `MaxCalls = 3`) and profile `meta` (a `MetaComponent` with `MaxCalls = 3`; the other profiles hold an idle one-coclass component).
- `MC_CharsetProviders`: profile `threads` (the `Charset` threads), profile `providers` (one `CharsetProviders` lookup) and profile `available` (one `AvailableCharsets`). Fairness is on the providers' and the `AvailableCharsets` steps only, so the threads keep no fairness.
- `MC_ParserProfiles`: the three parser profiles above.

`PROJECT.json` lists every run. The passing runs:

| Run | cfg | Checks | States |
|---|---|---|---|
| `parser_profiles` | `MC_ParserProfiles.cfg` | `ProfileTypeOK`, `AttachedIffClean`, `ParseReturnsOrHangs` | see PROJECT.json |
| `operators` | `MC_Library.cfg` | the 12 operator properties, the 3 `FormatterObject` properties and the 4 `MetaComponent` properties below | 179k, 2.5 to 3.5 min |
| `charset_threads` | `MC_CharsetProviders.cfg` | `TypeOK`, `OneObjectPerCharset`, `Cache1AgreesWithCache2`, `LookupAnswersName`, `SupportedNamesFound`, `AvailableMapsFirstCharset`, `CacheImplementsRegistry`, `RunImplementsLookup`, `RunEnds`, `AvailableEnds` | 769k, under 2 min |

The operator properties:

| Property | What it states |
|---|---|
| `CheckNameIsLegalName` | `CheckName` accepts exactly the legal charset names. |
| `BinarySearchFindsKey` | Every key of every sorted array is found, also where `low + high` exceeds MaxInt. |
| `CheckOffsetAndCountIsBounds` | Exactly the ranges inside the array are accepted, also where `offset + count` wraps. |
| `FillAndCopyOfStayInBounds` | `Fill` and `CopyOf` write and read only inside the arrays. |
| `ParseMatchesGrammar` | `Formatter::Parse` splits every string of up to 5 characters as the greedy grammar does, with no character lost or re-read. |
| `AcceptedSpecifiersWellFormed` | Every accepted specifier obeys the flag, width and precision rules, and its `mF` is not null. |
| `FormatPrintsReferencedArguments` | `Format` prints, for each specifier, the argument it names (explicit, relative `<`, or ordinary), and stops at the first missing one. |
| `ReadFillsFromStream` | `Read(buffer, offset, size)` fails exactly on bad ranges. Otherwise it stores `(Byte)` of each byte before the first `-1` or failure, returns their number, and consumes exactly one more outcome. |
| `SkipReportsBytesConsumed` | A successful `Skip` reports exactly the bytes it consumed, never more than `byteCount`, and fewer only at end of stream. |
| `RadixPrintsUnsignedValue` | `%o` and `%x` print the unsigned digits of every integral type, padded to the width. |
| `ZeroPaddingReachesPrecision` | `AddZeros` aborts only when the array has more digits after its dot than asked, and otherwise keeps it as a prefix and adds a dot (only when needed) and zeros up to exactly the precision; `AddDot` then `TrailingZeros(n)` leaves n digits. |
| `HeaderNamespacesNested` | The namespace blocks of the header `GenerateTypeDeclarations` writes are well nested, and each interface is declared inside its own namespace. |

The `FormatterObject` properties (action properties):

| Property | What it states |
|---|---|
| `ClosedFormatterInert` | After `Close`, nothing reaches the destination and every call that needs it fails with `E_FORMATTER_CLOSED_EXCEPTION`. |
| `IoFailuresReported` | `mLastException` only records failures: once set it stays set, and a specifier whose `Append` the destination refused leaves a failure to report although `Format` returns NOERROR. |
| `ParseErrorWritesNothing` | A `Format` that fails with a format error writes nothing. |

The Charset and MetaComponent properties:

| Property | What it states |
|---|---|
| `OneObjectPerCharset` | `sCache2` never holds two objects for one charset under different names. |
| `Cache1AgreesWithCache2` | `sCache1`, written outside the lock, never disagrees with `sCache2`. |
| `LookupAnswersName` | A call returns an object of the charset its name stands for. |
| `SupportedNamesFound` | Only a lookup nested inside a provider is refused by the gate. |
| `CacheImplementsRegistry` | `sCache2` refines the write-once registry. |
| `RunImplementsLookup` | A provider lookup refines `ProviderLookup`: the first non-null answer, and a crash only when loading leaves `Next` a null provider. |
| `RunEnds` | A provider lookup returns or crashes. |
| `AvailableMapsFirstCharset` | `AvailableCharsets` maps each canonical name, up to case, to ICU's charset or else the first loading provider's, and crashes only where a provider lookup may. |
| `AvailableEnds` | `AvailableCharsets` returns or crashes. |
| `MetaTypeOK` | `MetaComponent`'s type invariant: slots and maps hold created objects of own entries. |
| `SlotsMatchMaps` | For any mix of `GetAll` and `Build(index)`, each object sits at its entry's `realIndex`, and every filled slot is in the map. |
| `CoclassSlotsCurrent` | A coclass's copied interface array holds the component's current objects. |
| `AnswersComplete` | Whatever `Build(index)` calls came before, `GetAll<Kind>` hands out `Get<Kind>Number` non-null objects and `Get<Kind>(name)` returns an object exactly for the component's own entries. |

The violation runs each check one property that the code breaks. `PROJECT.json` has a finding for each:
- the five Parser runs above;
- `charset_cached_object`: `LookupReturnsCachedObject`. `Lookup2` returns the fresh object it just created, not the one `Cache` filed, so two lookups of one charset can return different objects.
- `print_width`: `PrintedPaddedToWidth`. `"%3%"` prints one character: `Print` appends `%` without `Justify`.
- `specifier_tostring` (`MC_SpecifierToString.cfg` on `MC_Operators`): `SpecifierToStringReparses`, that `FormatSpecifier::ToString` of an accepted specifier parses back to it. `ToString` appends the flags before `index$` (`Formatter.cpp:1005-1009`), so `%1$-3s` is written `%-1$3s`, which `Parse` rejects with `$` as its conversion. The print inputs include two specifiers with an explicit index and a flag for this.
- `charset_aliases`: `ReturnedSetAlive`. Two first calls of `GetAliases` race: the second assignment to `mAliasSet` frees the set the first thread is about to return.

Every property of a passing run has a mutant in `PROJECT.json`: a plausible fault in the code it depends on, which TLC must then report. Examples:
- the unsigned midpoint replaced by a signed one;
- the external check dropped from `Build<Kind>`;
- `BuildAll<Kind>` stopping at the first entry already built;
- `Back()` moving one character too far;
- `Skip` asking for a whole buffer on its last chunk;
- `GenerateNamespaceEnd` starting at the `::` instead of the character before it;
- `Charset::Put` without its `ContainsKey` test;
- `Close` returning before it clears `mA` when the destination's close fails.

### Bounds, and why they are enough

- **Parser.** Up to 10, 14 and 15 tokens. These reach every production and error path, a clean attributed interface with a method, and repeated pointer and Array types.
- **Charset.** Two threads: `t1` makes two calls and `t2` one, over six names. The names cover:
  - a canonical name;
  - an alias;
  - a name only ICU knows;
  - a provider's name;
  - an unknown name;
  - an illegal name.

  Two threads suffice for every race on `sCache1` and `sCache2`, because each shared access is a single step. The third call lets one thread hit the cache that the other filled.
- **AvailableCharsets.** ICU makes one charset, and three providers list `X1`, nothing, and `X2` then `U2`. `X1` and `X2` share a key up to case, and `U2` shares ICU's key. Every set of broken providers is tried, so both first-wins rules and every crash pattern are reached.
- **Code generator.** Every list of at most two namespaces, each named by zero to two identifiers of one or two characters, with zero to two interfaces and zero or one enumeration. This covers a skipped namespace, the empty name, one and two levels, and two namespaces in a row.
- **Providers.** Three providers (one answering nothing, one answering `x`, one answering both names), two names, and every set of broken providers: a broken last provider, two adjacent broken ones, and a broken one followed by a good one.
- **Aliases.** Two threads, one call each: the race needs two first calls.
- **MetaComponent.** Every component with one or two coclasses, up to one enumeration and two interfaces, any of them external (a coclass implements only the component's own interfaces). Two interfaces already put an external entry before an own one, so `realIndex` differs from the index. There are 3 calls, enough to interleave `Build(index)`, `GetAll` or a named lookup, and a coclass's build.
- **Formatter object.** Three calls over six format strings (a fixed prefix, `<`, an explicit index, `%n`, `%%`, an unknown conversion), three argument lists, every choice of refused appends, and charset names null, supported and unsupported.
- **Arrays.** `W = 4`: Integers from -8 to 7. Arrays up to length 3 wrap `low + high` and `offset + count`, which 32 bits reach only with arrays of 2^30 elements.
- **Formatter.** Every string of up to 5 characters over `% 0 1 $ - . s d T`. That covers an index, flags, width, precision, `<`, a repeated flag, and a leading `0`. Format strings are built from 3 pieces, with -1 to 2 arguments.
- **Digit arrays.** Every array of up to 3 characters over `1` and `.` with at most one dot, and precisions 0 to 3: no dot, a trailing dot, and a precision below, at and above the array's.
- **InputStream.**
  - Read uses streams of up to 3 outcomes, including a byte above 127, buffers of up to 3 bytes, and offsets and sizes from -1 to 3.
  - Skip uses streams of up to 4 outcomes, counts from -1 to 4 and `MaxSkip = 2`. Skipping therefore takes several chunks, and the last chunk is shorter than the buffer.

## Hazards

`PROJECT.json` lists each hazard at its line, with the properties that cover it. The main ones:

- **Parser.**
  - Loops hang at the end of the file.
  - The parse result drifts from the diagnostic list.
  - One failure deep in the call chain must both log and propagate.
  - Returned values are stale: the base type, and the shadowed array type.
- **Charset.**
  - Threads race on `sCache1` and on filing one charset under two names.
  - A provider re-enters through the thread-local gate.
  - Lookup returns a stale, uncached object.
  - `GetAliases` races on `mAliasSet` and frees a set a caller is returning.
  - `Run` ignores the provider iterator's ECodes and can call a null provider. `AvailableCharsets` does the same.
- **MetaComponent.**
  - `realIndex` interacts with external entries.
  - `BuildAll<Kind>` after partial `Build(index)` calls must still fill every slot.
  - A coclass copies the map before it is built.
  - `GetInterface` calls `GetName` on a null slot. This happens when a coclass implements an external interface, which the metadata builder (not under `src/`) decides. The model does not let a coclass list one, and with that restriction the property would hold by construction, so no property checks it.
  - `BuildAllCoclasses` races when two threads share a component. This is a data race, and it is not modelled.
- **Formatter.**
  - A repeated flag leaves `mF` null, and the specifier crashes.
  - `CheckSpecifier` falls off its end.
  - `<` with no previous argument.
  - `ParseInt` overflow aborts.
  - `Close` clears `mA` even when the destination's close failed; `FixedString::Print` drops an `Append` failure.
- **InputStream.**
  - A failing `Read` in `Skip` loses the count of bytes already skipped.
  - A failing read inside `Read`'s loop is swallowed.
  - The `(Byte)` cast.
  - `Close` has no return statement.
- **Arrays.** Integer wrap-around in the midpoint and in `offset + count`.
- **Code generator.** `GenerateNamespaceEnd`'s backward index walk must close exactly what `GenerateNamespaceBegin` opened. A namespace name without a trailing `::` does not balance.

## Not modelled yet, and the plan

Not modelled, and why:
- **Type table and specializer.** They are named by the spec but not implemented under `src/`.
- **Code generator.** Only the namespace blocks are modelled. The declarations' text (`GenerateDefineMacro`, `GenerateType`, `GenerateValue`, `GenerateParameter`) is formatting. `ResolveDirectory` and the file write are I/O.
- **Runtime mutex.** `Lock`, `Unlock` and `Condition` have no bodies under `src/`, so only the RAII `AutoLock` wrapper is there. `NativeLockWord` decodes bits with `kStateShift`, `kStateMask` and `kMonitorIdShift`, which are declared in `NativeLockWord.h`, and that header is not in the repository either.
- **RPC entry points.** They dispatch to channels that are not under `src/`.
- **Locale data.** Conversions of ICU data.
- **Collections wrappers.** They are delegation only.
- **Tests.**
- **Formatter.** `HexDouble` and the Calendar printers, which are stubs.
- **Charset.**
  - `GetDefaultCharset`'s double-checked locking. This is a data race, and every one of its outcomes is the same object.
  - the `Encode`/`Decode` wrappers, which delegate to coders not under `src/`.
- **CMetaComponent.** `GetName`, `GetComponentID` and `CreateObject`, whose `CoCreateObjectInstance` is not under `src/`.

`PROJECT.json` gives each component's status.

Planned next:
1. **A spec-modelled `TypeTable` module.** `Parser` would refine its `Intern`/`Register`.
2. **Parser.**
   - The unknown-attribute-key rule.
   - Enumeration `=` values.
   - Declarations after a malformed parameter.
3. **Violation runs, as soon as a run slot is free.**
   - `GetInterface` on a coclass that implements an external interface (`CMetaCoclass.cpp:146`).
   - The Formatter duplicate-flag crash.
   - An unterminated interface body that is attached (`Parser.cpp:303`).
   - A namespace name without a trailing `::` (`CodeGenerator.cpp:238`).
