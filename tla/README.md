# A TLA+ model of RBS

This directory models [RBS](https://github.com/ruby/rbs), the signature language of Ruby:
the C library that parses it (`src/`, `include/`), the Ruby library on top (`lib/rbs/`), its
extension and its command line. Every definition of a module is a translation of the
source lines that `PROJECT.json` names for it under `map`.

    tlc -workers 2 -config ConstantPool.cfg MCConstantPool    # a run of PROJECT.json
    tlapm ConstantPoolProofs.tla                              # the proofs of a module

## 1. The system

### Parts, their state and their operations

| part | source | state | operations |
|---|---|---|---|
| constant pool | `src/util/rbs_constant_pool.c` | a hash table with open addressing and an array of constants | insert shared, owned, constant; find; resize; free |
| arena allocator | `src/util/rbs_allocator.c` | a list of pages, the head has an offset | malloc, malloc_many, realloc, free |
| encodings | `src/util/rbs_encoding.c` | none (tables) | find by name; width and class of a character |
| lexer | `src/lexer.re` (`lexer.c`), `src/lexstate.c` | a cursor in the source, a saved copy of it | start at a position, next token, skip, back |
| parser, tokens | `src/parser.c` | a window of four tokens, a list of comments | advance, get comment |
| parser, scopes | `src/parser.c` | a stack of type variable tables | push, pop, insert, member |
| parser, grammar | `src/parser.c` | the first error | recursive descent over signatures, types, annotations |
| strings | `src/util/rbs_unescape.c`, `src/string.c` | none | unquote, unescape, strip |
| trees, serialization | `src/ast.c`, `src/serialize.c` | a hash of the fields of a record | constructors, a visitor that writes bytes |
| Ruby extension | `ext/rbs_extension/` | one keyword hash for all nodes; children of a location | entry points; trees to Ruby objects; locations |
| WebAssembly runtime | `wasm/`, `lib/rbs/wasm/` | one instance, one result buffer, a position in it | call, read the result, deserialize |
| names | `lib/rbs/namespace.rb`, `type_name.rb` | two process-wide caches with a mutex each | `[]` |
| type name resolver | `lib/rbs/resolver/type_name_resolver.rb` | names, aliases, a cache | resolve, resolve_namespace |
| environment | `lib/rbs/environment.rb`, `environment/` | sources, tables of declarations, a cache of normalized names | add_source, resolve_type_names, unload, dup, normalize |
| constant resolver | `lib/rbs/resolver/constant_resolver.rb` | two caches of constant tables | resolve, constants, children |
| ancestor builder | `lib/rbs/definition_builder/ancestor_builder.rb` | caches of ancestors | instance, singleton and interface ancestors |
| definition and method builder | `lib/rbs/definition_builder.rb`, `.../method_builder.rb` | caches of definitions | build instance, singleton, interface; expand alias; update |
| types, substitution, variance | `lib/rbs/types.rb`, `substitution.rb`, `variance_calculator.rb` | none | sub, free variables, variance |
| aliases, validation | `type_alias_dependency.rb`, `type_alias_regularity.rb`, `validator.rb` | graphs of aliases | circular definition, regularity, validation |
| loader, repository | `environment_loader.rb`, `repository.rb` | libraries and directories | add, resolve dependencies, load |
| collection | `lib/rbs/collection/` | a lockfile, directories of gems, a clone shared by all projects | lock, install, clean, check |
| inline signatures | `inline_parser.rb`, `inline_parser/` | comments and nodes | associate comments with nodes |
| runtime tests | `lib/rbs/test/` | hooks in live classes | install, observe calls, check types |
| tools | `prototype/`, `annotate/`, `subtractor.rb`, `sorter.rb`, `diff.rb`, `writer.rb`, `cli.rb` | none | translate trees and files |
| Rust crates | `rust/` | interners, an environment | binding of the C library |

### How they interact

The extension (or the WebAssembly runtime) calls an entry point of the parser with a
buffer, a range in it and, perhaps, the type variables of the caller. The *lexer* cuts the range into
tokens, character by character of the buffer's *encoding*; the *parser* builds a tree whose nodes carry
ranges, counted in characters from the start of the buffer. The extension turns the tree into Ruby
objects directly; the WebAssembly build *serializes* it, and Ruby code *deserializes* the bytes into what should
be the same objects. Either inserts the variables of the caller into the
parser's *constant pool* as blocks the pool owns, and puts their ids into a *table* of the
parser. The parser allocates everything from an *arena*, which is freed as a whole after
the tree was translated; names in the tree are ids of the parser's pool or of the global
one. The Ruby side makes *names* out of them, which are interned once per process and
compared by identity. Declarations are added to an *environment* source by source; then
the *type name resolver*, built from a snapshot of the environment's tables, makes every name
absolute and a new environment is built. Ancestors, definitions, constants and validation
are computed from that environment on demand and cached. The *loader* fills it from the core,
from repositories, and from the directories a *collection* installed.

### What is hard about it

* Ownership. Three kinds of constants may meet in one bucket, and a failed resize leaves
  the function early (`rbs_constant_pool.c:157`, `:183`).
* Lookahead. Comments are collected three tokens before the declaration they belong to is
  parsed (`parser.c:3291`, `:3475`); scopes are pushed and popped on every error path; a range is
  put together from tokens that were current at different times.
* Positions. Byte, character, line and column are counted by hand, through backtracking, invalid bytes,
  characters of several bytes and ranges that start in the middle (`lexstate.c:122`, `lexer.re:75`).
* Everything twice. Two implementations answer the same call: generated C that translates nodes, and
  generated C and Ruby that agree on bytes without lengths (`deserializer.rb:84`, `rbs_wasm.c:252`).
* Threads. The two name caches are read before their mutex is taken (`namespace.rb:29`,
  `type_name.rb:39`), and threads may be interrupted inside.
* Processes. Installing is a sequence of file operations on directories that other
  processes use and that a killed process leaves behind.
* Caches that outlive what they were computed from: resolver, environment, constants.
* Recursion through aliases, mixins and type parameters that may be cyclic.

### What makes each part correct

* constant pool: it is an interner, never loses or frees a block twice, always returns.
* arena: blocks are disjoint, aligned, inside their page; every page is freed once.
* lexer: tokens are the longest matches of the rules; their positions are those a scan of the whole buffer
  gives.
* encodings: the width and the classes of a character agree with each other.
* tokens: a declaration's comment is the block of lines right above it, none is lost.
* grammar: ranges lie in the locations of their nodes, and those in their parents'.
* scopes: what is in scope is what the language's nesting says, on every path.
* extension, WebAssembly: both give the same objects, or the same error at the same token.
* names: equal requests get the same object whatever the threads do.
* resolver: a name means what rewriting aliases where they were declared gives.
* environment: it raises exactly for conflicting declarations, in any order of sources;
  its caches agree with its tables.
* constants: a constant is what Ruby's own lookup finds, whatever was asked before.
* ancestors: the linearization of Ruby; cycles are errors and nothing else is.
* definitions: the methods of a class are those that Ruby's lookup finds along its ancestors, with the types of
  where they are written; `new` takes what `initialize` takes; caches survive an update only where they may.
* collection: a lockfile that passes the check has its files on disk, also when it goes back; install is
  idempotent and can be run again.

`PROJECT.json` lists the hazards line by line with the properties that cover them.

## 2. Plan

The order is the order of how much the rest of the system stands on a part.

1. **The C core and the concurrent Ruby core** (done): `ConstantPool` against `Interner`,
   `Allocator`, `TypeNameIntern` against `Flyweight`.
2. **The collection on disk and name resolution** (done): `CollectionInstall`,
   `TypeNameResolver`.
3. **The environment** (done): insertion of declarations, conflicts, normalization and its cache,
   copies, unloading and resolution into a new environment, composed with the resolver. Left:
   `UseMap`, the names inside declarations, and resolving only some of them.
4. **The front end** (done): lexer, grammar, trees, and the two ways from bytes to Ruby objects,
   composed in `FrontEnd`. Left: the association of comments with Ruby nodes.
5. **What is computed from the environment**: `AncestorBuilder`, `ConstantResolver` and `TypeAliases`,
   composed in `Hierarchy` (done); `DefinitionBuilder`, with the method builder and the ancestor graph, over the same
   ancestors, with its properties in `Definitions`, and both together in `MCBuilders` (done). Left: the validator and variance, as operators checked against
   reference definitions.
6. **Loading**: `EnvironmentLoader` and `Repository`, `LockfileGenerator` over the state of
   `CollectionInstall`.
7. **The runtimes**: several threads over the one WebAssembly instance and its result buffer;
   runtime test hooks; Rust interners, which should refine `Interner` once more.
8. **Proofs**: `Allocator`, `ConstantPool` with its refinement of `Interner`, and `TypeNameIntern` with its
   refinement of `Flyweight`, availability in `CollectionInstall`, and the conflicts, tables and caches of
   `Environment`, and in `Hierarchy` that cycles and faults are found, ancestors ordered and constants found (done). Left:
   normalizing against the resolver.

Runs keep to two or three of each kind of thing: two threads, two projects, three
texts, three module names. Each hazard needs no more actors than that. The front end has no actors but many
inputs: its run is over texts, chosen so that every production, every error and every encoding occurs.

## 3. The modules

| module | role | models |
|---|---|---|
| `Interner` | abstract | a partial function from texts to ids |
| `ConstantPool` | detailed, one step per bucket | `rbs_constant_pool.c` |
| `MCConstantPool` | instance | colliding hashes |
| `ConstantPoolProofs` | theorems, and that `ConstantPool` implements `Interner` | |
| `Allocator` | detailed, one step per call | `rbs_allocator.c` |
| `AllocatorProofs` | theorems | |
| `Flyweight` | abstract | one table of canonical objects |
| `TypeNameIntern` | detailed, one step per Hash operation | `namespace.rb`, `type_name.rb` |
| `MCTypeNameIntern` | instance | |
| `TypeNameInternProofs` | theorems, and that `TypeNameIntern` implements `Flyweight` | |
| `CollectionInstall`, `MCCollectionInstall` | one step per file operation | `lib/rbs/collection/` |
| `CollectionInstallProofs` | theorems | |
| `TypeNameResolver` | recursive operators, one step per call | `type_name_resolver.rb` |
| `Environment` | one step per declaration inserted | `environment.rb` |
| `MCEnvironment` | instance, composes `Environment` with a `TypeNameResolver` built from it | |
| `Subsequences` | selecting from sequences and joining them, as functions of the length | |
| `SubsequencesProofs` | lemmas about those, and about sequences | |
| `EnvironmentProofs` | theorems | |
| `Encodings` | operators on bytes and characters | `rbs_encoding.c`, `rbs_string.c` |
| `Lexer` | the automaton and its cursor | `lexer.c`, `lexstate.c` |
| `LexerRules` | abstract: longest match of regular expressions | `lexer.re` |
| `ParserState` | operators on the state of one parser | `parser.c`, `location.c` |
| `ParserTypes`, `ParserDecls`, `ParserInline` | one operator per parse function | `parser.c` |
| `Unescape` | operators | `rbs_unescape.c`, `string.c` |
| `SyntaxTree` | the structs, what is well formed, node equality | `ast.h`, `ast.c` |
| `TreeTranslation` | trees to Ruby objects, in C | `ast_translation.c`, `legacy_location.c`, `class_constants.c` |
| `TreeSerializer`, `TreeDeserializer` | trees to bytes; bytes to Ruby objects, in Ruby | `serialize.c`, `deserializer.rb`, `serialization_schema.rb` |
| `Locations`, `RubyValues` | locations with children; Ruby values | `legacy_location.c`, `wasm/location.rb` |
| `FrontEnd` | one step per token, per parse and per answer; composes the modules above | `main.c`, `rbs_wasm.c`, `parser.rb` |
| `FrontEndProperties`, `MCFrontEnd` | properties; inputs | |
| `AncestorBuilder` | one step per call, per part of an answer and per return | `ancestor_builder.rb`, `errors.rb`, `type_param.rb` |
| `ConstantResolver` | one step per question and per answer; uses `AncestorBuilder` | `constant_resolver.rb` |
| `TypeAliases` | recursive operators, for the parameters of `Hierarchy`, and their property | `type_alias_dependency.rb`, `type_alias_regularity.rb` |
| `Hierarchy`, `MCHierarchy` | composes the two before, and what `TypeAliases` answers; properties; inputs | |
| `HierarchyProofs` | theorems | |
| `DefinitionBuilder` | one step per call, per task of a definition and per return; uses `AncestorBuilder` | `definition_builder.rb`, `method_builder.rb`, `ancestor_graph.rb` |
| `Definitions`, `MCDefinitions` | properties; inputs | |
| `MCBuilders` | composes `Hierarchy` and `Definitions` over one ancestor builder; inputs of both | |

**ConstantPool.** `buckets`, `constants` and `capacity` are the fields of the pool; what the pool did
with the blocks given to `insert_owned` is followed block by block. A call is in
`call`, and `pc` says where it is: in the resize loop (`next` is `next_buckets`, `scan` the loop's
index), probing at `index`, or idle. Texts are model values with a
constant `Hash`, so that a collision is chosen and not stumbled upon. Allocation may fail at
each resize when the constants say so.

**Allocator.** Addresses are integers and the operating system returns any address of
`Address` for a page; a page is its base, size and next page; a block is a page, offset, size.
Alignments are powers of two as the C macro uses `alignof`.

**TypeNameIntern.** The trie of `Namespace` is a set of nodes and a function from nodes to objects;
`got` is a history of returned objects. Each Hash read or write is a step, because
that is the finest grain another Ruby thread can see. A `||=` is a read (`KeepNode`, `MissNode`) and, when
that finds nothing, a write (`NewNode`), and the write does not look again: a node that came to be in between
would be lost with all that is below it. It is the mutex, and nothing else, that keeps this from happening,
as the mutant `EnterTypeName` shows. A thread may be interrupted at every step.

**CollectionInstall.** `disk` has, per project, what is at every `<gem>/<version>`; `worktree` is the
revision checked out in the shared clone. Removing a directory is a step per file, in any order,
with the metadata among them, as `remove_entry_secure` promises none. Two variables are history, and no action reads them: `disturbed` has the places that a project
copied to while another reset the clone to a different revision, until it copies there again; `torn` has the places where
a process was killed that removed what was there, until something removes the rest.

**TypeNameResolver.** The methods are recursive operators with the code's `visited` set; the
specification calls them one after the other on one resolver, with its cache. The reference,
`Meaning`, rewrites a goal (a name reached and a rest of the path) one step at a time with no
`visited` set; a name is cyclic when rewriting does not end.

**Environment.** `envs` are the environment objects with their six tables; class and module entries are
objects of their own in `entries`, because a copy shares them, and so are the Hashes of normalized names in
`caches`. Adding a source is one step per declaration (`Inserting` and `Duplicated` are the branches of
`insert_rbs_decl` and `insert_ruby_decl`, which accept and refuse the same): a duplicate raises in the middle
and leaves what was inserted. `unload` and `resolve_type_names` fill a new
environment with the same steps. What the resolver answers is a parameter, which `MCEnvironment`
defines as the operators of `TypeNameResolver` for a snapshot of the tables: the module itself stays free of
recursion. `meant` is a history: what the resolver said of every alias when the environment was resolved.

**FrontEnd.** `request` is one call of `RBS::Parser`: the entry point, the bytes of the buffer, the name of its encoding, a
range and the options. The C extension answers it first and the WebAssembly build then (`runner`), each from the
beginning: the range may be refused (`RejectRange`, `RejectStart`), the encoding not be found (`LoseEncoding`), then
`NewLexer` makes `scanner`, the fields of `rbs_lexer_t`, and `NextToken` runs the automaton once. The parser asks for
tokens one at a time, and the lexer does not depend on the parser: all of `lexed` is read before `Parse` runs one
entry point to its error or its value. `AnswerNative` translates the tree; `Reply` writes bytes and `AnswerWasm` reads
them. What the caller of each implementation gets is in `outcomes`.

**Lexer** has a row for every group of states of `lexer.c` that do the same, with the code's marker and its fallback; a character
is a code, the end of the input, a character of several bytes or an invalid byte. **LexerRules** is the other
side: the rules of `lexer.re` as regular expressions and the longest match of a text.

**ParserState** has the record `p` that every parse function takes and returns: the window of four tokens, the
comments, the tables of type variables, the error. A parse function is an operator whose result has `p`, the value
and, where the code returns a Boolean, `ok`; `Then` goes on with it unless it failed, as `CHECK_PARSE` does. The parse
functions call each other without end, and TLC unfolds a call wherever it is written: what closes a cycle goes
through one recursive operator a module, `TypeCall`, `DeclCall` and `InlineCall`, which is given the function's name.
A range that the C code leaves uninitialized is `uninitialized`, one of `Garbage`.

**SyntaxTree** has `Struct`, the fields of every node and what they are, from which well-formedness, equality and the children of a
node follow; the translation, the serializer and the deserializer have tables of their own, each taken from
its source, so that a field that one of them forgets or moves shows.

**AncestorBuilder** works on an environment whose names are resolved (`program`). `stack` is the stack of the running
calls of `instance_ancestors`, `singleton_ancestors` and `interface_ancestors`; each has what is still to do of its
answer, part by part: the super class or the self types, what is included, itself, what is prepended. `building` has
the lists that are passed along as `building_ancestors`: the code appends to one shared Array and pops it, and hands an
Array of its own to the singleton of a super class (`ancestor_builder.rb:605`), so the last list is the one in use.
What the direct ancestors raise is in the order in which the code looks. **ConstantResolver** has the
table of constants, which the code changes while it reads it (`constant_resolver.rb:193`), and the two caches; it asks the
builder and waits for it. **Hierarchy** puts them together with the judgements on type aliases, which are
parameters of it that the run gives the operators of `TypeAliases` (so the module is free of recursive operators), and
serves `requests` one after the other, so that caches and what a raised call left behind are in the next one's way.
Its references do not follow the code: an ancestor is a path up the hierarchy, and ancestors are paths in
the order of their places; a constant is in the first of a sequence of sets of names (those around from the inside out, those of the
ancestors of the innermost module, the top level, Object); an alias is unfolded.

**DefinitionBuilder** extends `AncestorBuilder`: a declaration has members too. `frames` is the stack of the running
calls of `build_instance`, `build_singleton0`, `build_singleton` and `build_interface`. What such a call does one after
the other is a list of tasks: to have another definition built, to inherit from it, to define the methods of a mixin,
which puts more tasks in front (`DefineInstance` is `define_instance`, the recursion of which thereby is a list), to import the
methods of a level, to insert variables, to type `new`. An import is one step, because nothing it calls builds
definitions; it asks the ancestor builder first and waits. `definitions` and `methods` are the caches of the two
builders; a call that raises leaves in them what the code leaves. `Update` is what a user of the library does when files
change: the names for `except:` are what has changed and its descendants in `AncestorGraph`, which the `CHANGELOG` (2206)
names next to `update` for updating without building everything again, and the new builder gets a new ancestor builder. **Definitions** makes calls one after the other. Its
reference does not build: a definition is a list of levels along which a method is looked up, the one asked first
in front, and `super` goes on behind; its variables are the declarations met on the way down, and its faults
are those of the levels and of what they need. A variable is a duplicate if the members of one module write it more than once,
which `FaultsAreRaised` asks for where the variable is declared in one place of the hierarchy only: elsewhere `validate_variable` misses
duplicates, which a run of its own finds (`DuplicatesAreEliminated`), and takes for one what is none (section 4).

**MCBuilders** has one ancestor builder for a constant resolver and a definition builder of the same environment, as
`RBS::DefinitionBuilder` has: the questions come first, then the calls, and a call of the one finds what the
other has left in the caches and in `building`, also after something was raised. The theorems are about `Hierarchy` by itself.

## 4. The runs

| run | expects | properties | shows |
|---|---|---|---|
| `ConstantPool` | pass | `TypeOK`, `OneIdPerText`, `OwnedBlocksAreLive`, `OnlyRefusalsLeak`, `ImplementsInterner`, `CallsReturn` | Three texts that collide at every capacity, two heap blocks, two doublings that may fail: the pool is an interner, frees every owned block once unless a failed resize refused it, and every call returns. |
| `TypeNameIntern` | pass | `TypeOK`, `Canonical`, `ReturnsWhatWasAskedFor`, `ImplementsFlyweight`, `RequestsReturn` | Two threads ask for names that share trie nodes, one of them may be interrupted anywhere: equal requests get the same object, the caches refine one table of canonical objects, and every request returns. |
| `Allocator` | pass | `BlocksStayInTheirPage`, `BlocksAreDisjoint`, `BlocksAreAligned`, `EveryPageIsListedOnce` | An arena of tiny pages and every sequence of up to five requests around the page size: blocks are disjoint, aligned, inside their page, and every page is freed. |
| `CollectionInstall` | pass | `AvailableIsInstalled`, `InstallMakesAvailable` | Two projects that share one clone, four lockfiles with git and local gems, the last of which goes back to a revision, installs and cleans of which one may be killed between any two file operations: a lockfile that passes check_rbs_availability! has exactly the locked revision's files on disk, but where the other project reset the clone in the middle of copying or a removal was killed, and whoever finishes an install passes the check. |
| `CollectionInstallRetry` | violation | `InstallCanBeRun` | A process killed between making a gem's directory and writing its metadata leaves a directory on which every later install raises. |
| `CollectionInstallKilled` | violation | `AvailableIsInstalledAfterKills` | A process killed while it removes a gem's directory leaves the metadata with some of the files; when the lockfile goes back to that revision, the check passes and an install skips the gem. |
| `TypeNameResolverAbsolute` | violation | `AbsoluteNamesAreNotSearched` | The absolute name of a type alias that is not at the top level is looked for in the modules around. |
| `Environment` | pass | `RaisesIffConflict`, `TablesAreSources`, `CacheIsCurrent`, `NormalizingIsResolving`, `ResolveIsRewriting` | Six sources in RBS and Ruby, added in every order to an environment that is copied, unloaded from and resolved into another, with module names normalized in between: it raises exactly for conflicting declarations, its tables are what its sources declare, the cache is never stale, and normalizing agrees with the resolver. Two calls of a resolver built from it, or from one of over a thousand whole programs of module names and aliases, answer what step-by-step rewriting gives, with and without the cache. |
| `Builders` | pass | `TypeOK`, `AncestorsAreOrdered`, `CyclesAreRefused`, `ConstantsAreFound`, `AliasesAreJudged`, `MethodsFollowAncestors`, `VariablesFollowAncestors`, `NewFollowsInitialize`, `FaultsAreRaised`, `BuildsAreNotNested` | Some six thousand small environments (mixins, super classes, self types and aliases of every kind, wrong ones and cycles among them; nested names; recursive type aliases; members that override, alias, overload and prepend; `new` and `initialize`; faults of every kind) and, for each, questions of one constant resolver and calls of one definition builder over one ancestor builder, with updates between them: ancestors are Ruby's linearization, cycles and faults are raised and nothing else is (of duplicate variables, those of a variable that is written at one place), constants are where Ruby finds them, irregular type aliases are told from the others, methods are those a lookup along the ancestors finds, variables are those of the declaration met last, `new` is what `initialize` gives, and no definition is built inside itself. |
| `FrontEnd` | pass | `TypeOK`, `PositionsAreAFullScan`, `LexerIsLongestMatch`, `CommentIsTheBlockAbove`, `RangesNest`, `VariablesAreLexical`, `WasmAgreesWithNative`, `CharacterClassesAgree` | Programs that use every production of the grammar, each cut at every token, with a token lost, in ranges, in every encoding: tokens are the longest match at the right place, comments and type variables belong where they stand, ranges nest, and the C extension and the WebAssembly build answer alike. |
| `FrontEndWildcard` | violation | `AnswersAgree` | `use *` is a clause without a location: the C extension raises TypeError for it, the WebAssembly build returns it. |
| `DefinitionsMissed` | violation | `DuplicatesAreEliminated` | A class that declares `@a` twice below a super class that declares `@a` gets a definition. |

Bounds. `ConstantPool`: three texts and two doublings pass through every capacity at which they
collide or stop colliding. `Allocator`: five blocks on pages of 16 bytes fill a head, open two pages and
splice a big page in front of, between and after them. `TypeNameIntern`: two threads are
enough for a race on every entry; an interrupt adds the third point of view. `CollectionInstall`: two projects (with
symmetry), two gems, versions and revisions and four lockfiles one after the other, so
that one gem leaves git for a directory, comes back at another revision and goes back to its first one, and the other is
dropped, comes back from another directory and moves to git, at a revision whose tree alone has it; one process is killed. The run for `AvailableIsInstalledAfterKills` is cut to what it needs: one project, one gem, a
revision that comes back and one kill. `Environment`: two environments of up to two sources, of six that contain each kind of
conflict, two languages, an alias of an alias and a cycle (the same properties hold with three sources, in
some minutes); a third environment would only be rebuilt once more. A resolver is built from what one environment has, before the
other is changed, and is called twice, which is what its cache needs to matter; so that no arrangement of aliases is left out, resolvers
are also built from environments with every program of three module names, each undeclared, a module or an alias. 24 rewritings are
more than a terminating rewriting of three names with targets of length two takes: were it
not so, `ResolveIsRewriting` would fail for the answer the code gives. `FrontEnd`: signatures that between them use
every production; two of them cut off at every position on either side and with every character left out, which
reaches the error paths; all arrangements of six kinds of lines on four lines, more than the window of four tokens, for the
comments; some fifty types and a dozen or two of method types, type parameters and annotations each, with and without
type variables of the caller; all pairs of 24 characters through the lexer; every name of every encoding on
every byte and on sequences of several bytes, and ranges from -1 to past the end. A state is one step
of one call, so larger texts add length and not interleavings. `Builders`, for the questions (`MCHierarchy`): two classes, two modules, an alias of each and an interface
above, below and beside each other in every way that is right or wrong, in RBS and in Ruby; two declarations of a
generic class with their parameters swapped; constants of one name in five places. Each environment is
asked three to six questions in several orders. A stack of 24 calls (`StackLimit`) has room for a call of each method for each name these
environments declare (`CasesAssumption`), so that only a cycle meets its end; the proofs assume no more of it. For the calls (`MCDefinitions`): two classes, two modules and an interface or
two, whose members are chosen so that each thing that may be overridden, aliased, overloaded, mixed in twice or prepended
is, at every level it can be; eight kinds of faults, each with a cause above, below and beside the class that is
asked for; every environment is asked for its definitions in several orders, and changed between two calls so that a
definition goes stale that does not name what has changed. Where something is wrong or changes, a question of each kind is asked of the
resolver and the ancestor builder before the first call, too.

`CHECK_DEADLOCK FALSE` is said where a bound or the end of the program stops the model. The runs of the front end
and of the builders check for deadlock: a call that no action answers would be one.

Fairness. `CallsReturn` of `ConstantPool` assumes weak fairness of `Working`: a C
function that was called runs on. `RequestsReturn` of `TypeNameIntern` assumes weak fairness of every
thread's next step: Ruby schedules a thread that can run. Strong fairness is not assumed, and not
needed: a thread waits for a mutex only while one other holds it.

`AvailableIsInstalled` says for every gem of a lockfile that passes the check what it has on disk, whatever lockfiles came
before, but for gems whose place is in `disturbed` or `torn`. That these are the only two ways to fail is what it
shows; that a killed removal does is what a run of its own finds, without that excuse, and no order is promised of a removal
that would prevent it. That a clone which another project resets does follows from `Reset` and `CopyFile` in the same
way: the files are of two revisions, and the metadata name the first (`git.rb:90`). In `TypeNameResolver` `resolve` and `resolve_namespace` share a cache, so the `false` of a cyclic alias
becomes `nil` once `resolve` was asked (`type_name_resolver.rb:34`, `:44`); `ResolveIsRewriting` asks
`resolve_namespace` for names and for their absence only.

Seen while modelling, and not the subject of a run: a block given to `rbs_constant_pool_insert_owned` is freed by
nobody when the resize fails (`rbs_constant_pool.c:157`), which is the one exception `OnlyRefusalsLeak` makes;
a copied environment answers names that were normalized in the
original (`environment.rb:59`), which is why `CacheIsCurrent` asks for a cache of one's own.

In the front end: the location of a function type starts with the token before it, that of an inline overload is its last
token, and the range of the kind of a method called `self` ends before it starts, which `RangesNest` names one by
one; `parse_method_name` leaves the range of a quoted name unwritten (`parser.c:1889`); an encoding that
`rbs_encoding_find` does not know is followed as a null pointer (`main.c:208`), and is UTF-8 in the WebAssembly
build; `_lex` of `parser.rb` does not look at the status of its call; the second of three bytes of EUC-JP is
checked with the third byte's bound (`rbs_encoding.c:20816`). What the C code leaves undefined is left out of
`WasmAgreesWithNative`, and nothing else is but the negative end of `_lex` and `use *`, the subject of a run.

In the environment and what is computed from it: a module alias in a cycle that was written with an absolute name
normalizes to nil and not to false (`environment.rb:264`), which `NormalizingIsResolving` excuses; a cycle of super classes that is met
through singletons ends in a SystemStackError, because each of them gets an empty list of its own
(`ancestor_builder.rb:605`), although `RecursiveAncestorError.check!` has a branch for singletons; a class alias that is
included in RBS passes both checks and ends in `or raise`, as does an interface that is prepended (`ancestor_builder.rb:370`, `:389`); the children of
Object have the top level constants in them or not, depending on what was asked before, and so do the constants
of a module that is written in Object, and of what is written around or in Object in a context that ends in a class that does
not inherit from it (`constant_resolver.rb:193`); a context whose last module is named by a path through an alias
raises, as only modules are in the table (`:210`); an ancestor that Ruby code includes has no constants
for the resolver (`:189`); the arguments an alias was first met with may be `untyped`, with which
everything is compatible (`type_alias_regularity.rb:72`). `ConstantsAreFound` and `AliasesAreJudged` say where they leave
these open.

In the definitions: a module that writes a variable once and that a class and its super class both include makes the class raise
InstanceVariableDuplicationError, as the two entries have the same module (`definition_builder.rb:629`); substitutions are added and not composed where mixins are nested, which agrees only as long as a module
passes its parameters on under their own names or passes none: where `A[T, U]` prepends `M[U]` and `M[T]` includes `N[Int]`, whose
parameter is a `T` of its own, the sum gives `Int` for `T`, and `U` by the comment "(s1 + s2)[t] == s2[s1[t]]" of `substitution.rbs:44`.
`NamesAreKept` is what `MethodsFollowAncestors`, `VariablesFollowAncestors` and `NewFollowsInitialize` assume, so generic
mixins are in them with such arguments; what an interface
that is included by an interface is applied to is never substituted (`definition_builder.rb:111`), so that methods have
types with variables nobody declares; a method of an interface that is
reached over two others is a duplicate of itself if the arguments differ; overloads that a class adds to an alias of `new` it has
inherited are dropped when `new` is typed (`:441`).

### Disagreements found

* `CollectionInstallRetry` / `InstallCanBeRun` (code, `lib/rbs/collection/sources/git.rb:232`): Git#load_metadata reads `.rbs_meta.yaml` of any directory that exists, but _install makes the directory (git.rb:93) before it writes that file (git.rb:97): a process killed in between leaves a directory on which every later `rbs collection install` raises Errno::ENOENT. CollectionNotAvailable's message says "Run `rbs collection install` to install RBSs from collection." (lib/rbs/collection/config.rb:12); the run finds that running it raises.
* `CollectionInstallKilled` / `AvailableIsInstalledAfterKills` (code, `lib/rbs/collection/sources/git.rb:63`): FileUtils.remove_entry_secure removes the tree of an installation file by file (git.rb:63, local.rb:47, cleaner.rb:22) and may reach `.rbs_meta.yaml` last: a process killed in between leaves the metadata with a part of the files. When the lockfile goes back to the revision the metadata name, as when a branch is left, check_rbs_availability! (lockfile.rb:79-84) and Git#install (git.rb:56-59) compare only the metadata and take the rest for an installation. The signature of the check says "Ensures if `git` sources are set up correctly" (sig/collection/config/lockfile.rbs:64); the run finds a lockfile that passes while files are missing.
* `TypeNameResolverAbsolute` / `AbsoluteNamesAreNotSearched` (documentation, `lib/rbs/resolver/type_name_resolver.rb:48`): The namespace of `::t` is empty (Namespace#empty? asks for the path only, namespace.rb:90), so `resolve` passes the bare name to resolve_type_name with the context and answers `::A::t` inside `module A` when only A has a t. sig/resolver/type_name_resolver.rbs:15 says of resolve: "Returns `nil` if cannot find associated type name."
* `FrontEndWildcard` / `AnswersAgree` (code, `ext/rbs_extension/ast_translation.c:605`): `use *` is in the grammar: parse_namespace accepts an empty namespace (src/parser.c:3101-3103, docs/syntax.md:34 "(Empty namespace)") and parse_use_clauses a `*` after it (src/parser.c:3145 "{} namespace <tSTAR>"). The clause then starts at -1 (src/parser.c:3197), its location is nil, and rbs_check_location raises TypeError, while lib/rbs/wasm/deserializer.rb:144 builds the clause with a nil location. lib/rbs/wasm/location.rb:8 says "so RBS::Location behaves identically without the native extension"; the run finds an input for which one implementation raises and the other returns.
* `DefinitionsMissed` / `DuplicatesAreEliminated` (code, `lib/rbs/definition_builder.rb:622`): validate_variable collects the declarations of a variable up to the top of the hierarchy and goes on only if there are exactly two, by the comment "Duplicates should be eliminated, so there can't be more than 3." (lib/rbs/definition_builder.rb:621). Where a super class declares `@a` too, the second `@a` of a class is the third, and nothing is raised, although test_duplicated_variable asks for it, "assert_raises(RBS::InstanceVariableDuplicationError) do" (test/rbs/definition_builder_test.rb:3007), where no super class has one. The run finds a definition of a class that declares `@a` twice. (The same two lines also refuse what is no duplicate: the variable of a module that a class and its super class both include.)

## 5. The proofs

`AllocatorProofs` proves, for all page sizes, alignments, addresses and requests that satisfy the
module's assumptions, `TypeCorrect`, `InTheirPage`, `Disjoint`, `Aligned` and `ListedOnce`. The inductive invariant
adds to the four properties that no block of the head page reaches above its `used`
(`HeadIsUsed`) and that the list holds pages that were made
(`ListHoldsPages`). Disjointness alone is not inductive: a new block is disjoint from the
others only because nothing above `used` was ever given out, and a big page spliced in behind the head
must leave that true.

`ConstantPoolProofs` proves `TypeCorrect`, `TextHasOneId`, `BlocksAreLive` and `OnlyRefusalsLeakBlocks` for all hashes, capacities
and calls, failing allocations included. The invariant is a conjunction of seven: types;
`TableInv` and `ConstantInv`, which relate buckets and constants one to one; `CallInv`, the state of the
running call; `ProbeInv`, every bucket from a text's home slot to the probe is taken by another
text; `ResizeInv` and `PlaceInv`, the same for the half-filled new table. The heart is that a text in the
table is never behind a hole on its probe sequence, so that a probe which meets an
empty bucket has proved that the text is new. `RestInv` (no block hangs on the call that has returned) is an
invariant of its own that `OnlyRefusalsLeakBlocks` adds to it.

It also proves `PoolImplementsInterner`. A call maps to one step of the interner, the one in which it
returns, and everything before it to a stutter; what has to be shown of the others is that none changes the text behind
an id (`TextsStay`), although two of them free a block and one moves a constant to other memory.

`TypeNameInternProofs` proves `TypesStay`, `ObjectsAreCanonical`, `RequestsAreAnsweredRight` and
`CachesImplementFlyweight`, for any set of threads and requests. Its invariant says what each thread knows where it is
(`ThreadInv`): between a read under the mutex and the write, that what was missing still is. Others keep
that true because they do not have the mutex (`MutexInv`), and a lock-free reader's knowledge stays true
because a write only adds (`OnlyAdds`). That a new trie node loses nothing needs that the trie is a tree whose leaves are on
nodes that exist (`TrieInv`). Leaves and namespaces are in bijection (`LeafInv`), a type name is cached under what it was
made of (`CacheInv`), and what was returned is cached (`GotInv`): together, an object tells its request.

`CollectionInstallProofs` proves `InstallMakesAvailableAlways` and `AvailableIsInstalledAlways` for any projects, gems, lockfiles
and kills. The first rests on what a command still has to do: while an install runs, every gem of its lockfile is to be looked
at, on hand, or up to date (`InstallInv`), and a clean only has directories to look at that no entry of the lockfile has
(`CommandInv`). The second relates metadata to files: metadata are on disk only with all files of the
revision they name, or at a place that is in `torn` or `disturbed`, or is being removed right now (`MetaInv`), because the metadata
are written last, and whatever removes a part of a tree either removes the rest or was killed; and what was copied is of the revision
that the clone was reset to, unless another project reset it to a different one (`CopyInv`). Nothing is assumed of the
lockfiles: they may go back to any revision.

`EnvironmentProofs` proves `RaisesIffConflictAlways`, `TablesAreSourcesAlways` and `CacheIsCurrentAlways`, for any sources that
are sequences of declarations (`SourceAssumption`), any bounds, and any operators in the place of the resolver. What has
been inserted into an environment (`Inserted`) is its declarations but for those left to add (`RestInv`). If it has not
raised, its tables have exactly the names inserted, and no two of those declarations conflict
(`TableInv`); so the next one is refused exactly if it conflicts with one that is there (`AcceptsIffNoConflict`), which is where
`constant_entry`, the check of kinds and the separate tables come together. If it has raised, two declarations of its
sources conflict, and more sources never take a conflict away (`RaisedInv`, `ConflictStays`). An environment
that is being built has entries and a cache that no other one has (`BuildInv`), so that it can be lost without a trace; and its
sources and those still to be added are sources of the other one at different places, RBS before Ruby and with
other old names of aliases (`OriginInv`), so it raises only for a conflict which the other one has. An entry
that no other environment has keeps the order of the sources (`OrderInv`), which needs that no environment has
one entry under two names (`LinkInv`). For the cache, whatever is kept is a name (`CacheInv`); that it stays what would be found
needs that no declaration can change what a name means without being a duplicate. All of them make
`EnvironmentInvariance` and `CachesInvariance`.

`HierarchyProofs` proves `TypeOKAlways`, `CyclesAreRefusedAlways`, `AncestorsAreOrderedAlways` and `ConstantsAreFoundAlways`, for any environments (`Cases`), any calls of them and
any questions in between, of constants and type aliases too. A node is a method and a name; above it are the nodes it is made
of (`Above`, which goes up as many times as the stack is high). The invariant `IInv` is about the past, the present and what
was said of it. The past: what has an answer has no fault, is not above itself, and all above it has an answer (`AnswersOK`),
which is what makes a cached answer as good as a new one. The present: each running call has parts that are still to do or whose answers are there and fit (`FramesOK`), waits for
the call after it (`ChainOK`), and the calls are what the lists of `building` have, one list after the other, where only the first of
a list is a singleton and all lists but the last are a singleton alone (`BuildingOK`). And what is raised or answered is what
`CyclesAreRefused` says (`FailureOK`, `AnswerOK`). The steps that need an argument are three. RecursiveAncestorError: the node that
is called is in the list in use, so the running calls from there are a way up from it to itself, and as singletons are found at the
start of a list only, it is no singleton (`RecursionKeeps`). The end of the stack: there are fewer nodes than the stack has room for
(`DeclaredIsSmall`, by counting), so one runs twice; no list has a node twice, so it is in two lists, hence
a singleton (`FullStackRepeats`, `OverflowKeeps`). A return: all parents have an answer and none is above itself, so the node could be
above itself only through one of them, above which is nothing but what has an answer, as the node has not (`DoneIsSettled`). That
`Above` finds the way that the running calls are, although it stops, is `PathsGoUp`.

For the order there is a second invariant beside it, `Orderly`. The reference has the ancestors of a node as its paths, each a sequence of
places in the lists of `OneAncestors`, sorted by those places; the code has only lists that it puts together. What has an answer
has the ancestors of its paths in their order (`CachesOrdered`), and a running call has those of the parts it has
taken (`FramesOrdered`). Parts are taken from the one with the last place in front to the first (`PlacesDescend`), so that what a part
adds always goes in front (`FrontGrows`). Behind a part are the paths of its callee in the order they have there, as they have one more place each, the same
(`BlockInOrder`), and each has the ancestor of the callee with the arguments put in (`ThroughApplied`). Only the path that ends at
once has no source in the callee's answer, which is why `fill_ancestor_source` may take the ancestor with the name of the callee (`EndsRight`). The reference makes paths longer as
many times as there are nodes; that this is enough is because what has an answer is ranked above what it is made
of (`RanksOK`, `PathsBegin`). And a set of paths has one sequence that is in order, which is the sorted one (`SortedIsOrder`). The steps
are `PartIsOrdered`, `ReturnOrders` and `EnterOrders`; the others leave the order alone.

For the constants the third invariant is `Finding`. The code merges hashes from behind, into one that it fills and, for Object,
into one that it keeps; the reference has a sequence of sets, in the first of which that has the name it is found. That a layer in front
is a merge on top is `FoundInFront`, and for any number of layers `LayersAreFound`, by induction on it. Which ancestors count the code tells by the source
that each of the cached ones has, the reference by the paths: that they are the same (`CountedIsInherited`) needs that what
makes an ancestor of a class or module is a super class, an `include` or a `prepend` of a module in one of the two languages, all the way up
(`PathsHaveOrigins`, by induction on the ranks of `Orderly`). The table has the constants of every module, and Object those
of the top level too or not, which is all that any sequence of calls can do to it (`ChildrenOK`): where Object is an ancestor of the class
that is asked for, the code has just put them there; elsewhere the reference leaves it open (`IsWithinObject`, `FoundUnder`). What is in the
two caches is what is found (`ContextsFound`, `ChildrenFound`), and what the builder works for is what the request needs (`GoalFor`).

What is assumed is `CasesAssumption`: environments are what the parser and the environment make (sequences of declarations,
self types on modules only, finitely many names), and the Ruby stack has room for a call of every method for every name. For the constants it
is `NamesAssumption` too: names are paths that are not empty, Object is a class, no name is that of an alias and of a module, and no two constants of one simple
name are in one module, which `Environment` refuses for equal names (`DuplicatedDeclarationError`) and which leaves out two that are
written in one module under its own name and under an alias of it.

`SubsequencesProofs` has the lemmas about `Subsequence` and `Concat`, which are recursive functions of the length: that they
exist, what they give for one more element, and where the elements of the result come from. The induction is over a set of
lengths (`SetInduction`: it has 0 and, with n, n + 1), which is a set and not an operator and so within the provers' reach.

Assumptions are those of the modules: paths are sequences of symbols with all their prefixes, `None` is no thread; `Hash` maps texts to naturals, the initial capacity is
positive (`hash & mask` is modelled as the remainder, which it is for the powers of two the code
uses), texts and blocks are different things; page sizes exceed the header, alignments are positive and
the operating system returns pages at addresses every alignment divides; lockfiles are sets of entries with one entry per
gem, there is a first one, revisions and paths are different things and neither is `None`; sources have a path, a language, a flag and a sequence of
declarations of the kinds there are; and `CasesAssumption` and `NamesAssumption`, above.

### Only model-checked

* `CallsReturn`, `RequestsReturn`: liveness is out of the prover's reach.
* The front end: texts, tokens and trees are recursive data, its operators are recursive, and no module with a
  theorem may reach one.
* `NormalizingIsResolving` of `Environment`: the theorems leave the resolver a parameter, and this property
  is about what it answers, which is a recursion in `TypeNameResolver`.
* `AliasesAreJudged` of `Hierarchy`: the judgements are recursive operators on types, which the module has as parameters.
* `Definitions`: its reference is made of recursive operators over levels and types.
* `TypeNameResolver` is made of recursive operators, which no module with a theorem may reach.

## 6. Not modelled

Each component that is left out is in `PROJECT.json` with its reason: data (signatures), layout and printing
(writer, command line), stateless tools, and the parts the plan has not reached yet. Within the modelled parts:

* the messages of errors, and the wording of anything else;
* in the ancestors and constants: two constants of one name in a module, one of them written under an alias of it (the table has the later one); declarations of one class whose parameters do not agree
  (`GenericParameterMismatchError` is raised for them first), optional parameters before required ones, aliases of
  what does not exist, types with arguments as type arguments, and the validator;
* in the definitions: annotations, comments and members other than their types, the check of variance, types with
  arguments as those of methods, blocks and further parameters of methods, and `expand_alias` (its core is in
  `TypeAliases`); the direct ancestors are the same whoever asks, so that the caches of `one_..._ancestors` are no state;
* the lists of Unicode letters and capitals, which are constants of `Encodings`; the runs give the first ranges of each;
* the option for forwarded parameters is modelled and off, as in every public entry point;
* the entry points that return bytes to Ruby from the C extension (`_parse_type_to_bytes` and its like);
* garbage collection, copying and comparing of `RBS::Location`, and the packing of its children into bits;
* the memory and the creation of the WebAssembly instance, and threads that share it;
* the growing of byte buffers, lists and hashes in the arena: they are sequences;
* the content of metadata and of signature files in a collection, cloning and fetching of git repositories, and what a crash
  of the machine, not of the process, leaves of a file system.
