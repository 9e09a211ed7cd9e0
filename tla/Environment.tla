----------------------------- MODULE Environment -----------------------------
(***************************************************************************)
(* The tables of declarations of an environment, lib/rbs/environment.rb.   *)
(* Sources are added one by one, and so are their declarations: the step   *)
(* is insert_rbs_decl or insert_ruby_decl of one declaration, because one  *)
(* that is a duplicate raises and leaves the others of its source out.     *)
(* A source's declarations are listed in the order in which they are       *)
(* inserted, an outer one before those in it, with their full names.       *)
(*                                                                         *)
(* Environments are objects that may share others: a copy shares the       *)
(* entries of classes and modules, and the cache of normalized names.      *)
(***************************************************************************)
EXTENDS Naturals, Sequences, Subsequences

CONSTANTS
  Source,               \* what can be added: a path, a language and declarations
  Queried,              \* the module names that are normalized
  Resolved(_, _, _), \* TypeNameResolver#resolve of a program, a name, a context
  ResolvedNamespace(_, _, _), \* TypeNameResolver#resolve_namespace of the same
  MaxEnvironments,      \* bound: the environments made
  MaxSources            \* bound: the sources of one environment

VARIABLES
  envs,     \* the environments: their sources, tables, and which cache they have
  entries,  \* the ClassEntry and ModuleEntry objects
  caches,   \* the Hashes from module names to their normalized names
  adding,   \* the environment that sources are being added to, what it is made from,
            \* how many entries there were before it, and what is left to add
  raised,   \* the environments to which a source was added that raised
  failed    \* history: the environments that could not be rebuilt into another

vars == <<envs, entries, caches, adding, raised, failed>>

Table == {"class_decls", "class_alias_decls", "constant_decls",
          "interface_decls", "type_alias_decls", "global_decls"}

ModuleKind == {"class", "module"}
AliasKind == {"class alias", "module alias"}
SingleKind == AliasKind \cup {"constant", "interface", "type alias", "global"}
Kind == ModuleKind \cup SingleKind

TableOf(kind) ==
  CASE kind \in ModuleKind -> "class_decls"
    [] kind \in AliasKind -> "class_alias_decls"
    [] kind = "constant" -> "constant_decls"
    [] kind = "interface" -> "interface_decls"
    [] kind = "type alias" -> "type_alias_decls"
    [] OTHER -> "global_decls"

Set(f, x, y) == [z \in DOMAIN f \cup {x} |-> IF z = x THEN y ELSE f[z]]

\* Records of the program: sequences of declarations, and of sources.
IsDecls(decls) ==
  /\ IsSeq(decls)
  /\ \A i \in DOMAIN decls :
       /\ decls[i] = [kind |-> decls[i].kind, name |-> decls[i].name,
                      context |-> decls[i].context, old |-> decls[i].old]
       /\ decls[i].kind \in Kind

IsSource(source) ==
  /\ source = [path |-> source.path, language |-> source.language,
               resolve |-> source.resolve, decls |-> source.decls]
  /\ source.language \in {"rbs", "ruby"}
  /\ IsDecls(source.decls)

ASSUME SourceAssumption == \A source \in Source : IsSource(source)

-----------------------------------------------------------------------------

NoTables == [t \in Table |-> <<>>]

\* Nothing is being added.
Nothing == [env |-> 0, from |-> 0, made |-> 0, decls |-> <<>>, sources |-> <<>>]

Idle == adding = Nothing

NewEnvironment(cache) ==
  [sources |-> <<>>, tables |-> NoTables, cache |-> cache, meant |-> <<>>]

Init ==
  /\ envs = <<NewEnvironment(1)>>
  /\ entries = <<>>
  /\ caches = << <<>> >>
  /\ adding = Nothing
  /\ raised = {}
  /\ failed = {}

\* Environment#constant_entry: a class, a module, an alias of one, or a constant.
ConstantNames(tables) ==
  DOMAIN tables["class_decls"] \cup DOMAIN tables["class_alias_decls"]
    \cup DOMAIN tables["constant_decls"]

\* A mutant of Accepts: a class is not kept from the name of a constant or an alias.
AcceptsOverConstants(tables, decl) ==
  IF decl.kind \in ModuleKind
  THEN decl.name \in DOMAIN tables["class_decls"] =>
         entries[tables["class_decls"][decl.name]].kind = decl.kind
  ELSE decl.name \notin ConstantNames(tables) \cup DOMAIN tables[TableOf(decl.kind)]

\* The environment can take the declaration.  An interface, type alias or global
\* only meets its own kind, and a class or module may be opened again.
Accepts(tables, decl) ==
  CASE decl.kind \in ModuleKind ->
         decl.name \in ConstantNames(tables) =>
           /\ decl.name \in DOMAIN tables["class_decls"]
           /\ entries[tables["class_decls"][decl.name]].kind = decl.kind
    [] decl.kind \in AliasKind \cup {"constant"} -> decl.name \notin ConstantNames(tables)
    [] OTHER -> decl.name \notin DOMAIN tables[TableOf(decl.kind)]

-----------------------------------------------------------------------------
(* Adding sources, one declaration at a time.                              *)

\* add_source, on an environment that is in use or that is being built.
AddSource(e, source) ==
  /\ Idle
  /\ Len(envs[e].sources) < MaxSources
  /\ envs' = [envs EXCEPT ![e] = [envs[e] EXCEPT !.sources = Append(@, source), !.meant = <<>>]]
  /\ adding' = [env |-> e, from |-> 0, made |-> 0, decls |-> source.decls, sources |-> <<>>]
  /\ UNCHANGED <<entries, caches, raised, failed>>

AddNextSource ==
  /\ ~Idle /\ adding.decls = <<>> /\ adding.sources # <<>>
  /\ LET source == Head(adding.sources)
     IN  /\ envs' = [envs EXCEPT ![adding.env].sources = Append(@, source)]
         /\ adding' = [adding EXCEPT !.decls = source.decls, !.sources = Tail(@)]
  /\ UNCHANGED <<entries, caches, raised, failed>>

FinishAdding ==
  /\ ~Idle /\ adding.decls = <<>> /\ adding.sources = <<>>
  /\ adding' = Nothing
  /\ UNCHANGED <<envs, entries, caches, raised, failed>>

\* The declaration that is inserted, and the tables it is inserted into.
Decl == Head(adding.decls)
Tables == envs[adding.env].tables

Inserting(kinds) ==
  /\ ~Idle /\ adding.decls # <<>>
  /\ Decl.kind \in kinds
  /\ Accepts(Tables, Decl)
  /\ adding' = [adding EXCEPT !.decls = Tail(@)]

\* The first declaration of a class or module makes its entry.
InsertModule ==
  /\ Inserting(ModuleKind)
  /\ Decl.name \notin DOMAIN Tables["class_decls"]
  /\ entries' = Append(entries, [kind |-> Decl.kind, decls |-> <<Decl>>])
  /\ envs' = [envs EXCEPT ![adding.env].tables["class_decls"] =
                Set(@, Decl.name, Len(entries) + 1)]
  /\ UNCHANGED <<caches, raised, failed>>

\* A mutant of OpenModule: the last declaration replaces the others.
OpenModuleAfresh ==
  /\ Inserting(ModuleKind)
  /\ Decl.name \in DOMAIN Tables["class_decls"]
  /\ LET entry == Tables["class_decls"][Decl.name]
     IN  entries' = [entries EXCEPT ![entry].decls = <<Decl>>]
  /\ UNCHANGED <<envs, caches, raised, failed>>

\* Another one is appended to it, whoever has the entry.
OpenModule ==
  /\ Inserting(ModuleKind)
  /\ Decl.name \in DOMAIN Tables["class_decls"]
  /\ LET entry == Tables["class_decls"][Decl.name]
     IN  entries' = [entries EXCEPT ![entry].decls = Append(@, Decl)]
  /\ UNCHANGED <<envs, caches, raised, failed>>

\* Everything else has an entry with one declaration.
InsertSingle ==
  /\ Inserting(SingleKind)
  /\ envs' = [envs EXCEPT ![adding.env].tables[TableOf(Decl.kind)] = Set(@, Decl.name, Decl)]
  /\ UNCHANGED <<entries, caches, raised, failed>>

\* DuplicatedDeclarationError.  The environment keeps the source and the declarations
\* before this one; one that was being built is lost, with its entries and its cache.
Duplicated ==
  /\ ~Idle /\ adding.decls # <<>>
  /\ ~Accepts(Tables, Decl)
  /\ adding' = Nothing
  /\ IF adding.from = 0
       THEN raised' = raised \cup {adding.env} /\ UNCHANGED <<envs, entries, caches, failed>>
       ELSE /\ envs' = SubSeq(envs, 1, Len(envs) - 1)
            /\ entries' = SubSeq(entries, 1, adding.made)
            /\ caches' = SubSeq(caches, 1, Len(caches) - 1)
            /\ failed' = failed \cup {adding.from}
            /\ UNCHANGED raised

-----------------------------------------------------------------------------
(* Environments made of others.                                            *)

\* The sources in the order in which an environment is rebuilt: RBS before Ruby.
RbsFirst(sources) ==
  LET Of(language) == Subsequence(sources, {i \in DOMAIN sources : sources[i].language = language})
  IN  Of("rbs") \o Of("ruby")

Rebuild(e, meant, sources) ==
  /\ Idle
  /\ Len(envs) < MaxEnvironments
  /\ envs' = Append(envs, [NewEnvironment(Len(caches) + 1) EXCEPT !.meant = meant])
  /\ caches' = Append(caches, <<>>)
  /\ adding' = [env |-> Len(envs) + 1, from |-> e, made |-> Len(entries),
                 decls |-> <<>>, sources |-> sources]
  /\ UNCHANGED <<entries, raised, failed>>

\* Environment#unload
Unload(e, path) ==
  LET sources == envs[e].sources
  IN  Rebuild(e, <<>>, RbsFirst(Subsequence(sources, {i \in DOMAIN sources : sources[i].path # path})))

\* TypeNameResolver.build
ProgramOf(e) ==
  LET tables == envs[e].tables
  IN  [names |-> DOMAIN tables["class_decls"] \cup DOMAIN tables["interface_decls"]
                   \cup DOMAIN tables["type_alias_decls"],
       aliases |-> [n \in DOMAIN tables["class_alias_decls"] |->
                      [old |-> tables["class_alias_decls"][n].old,
                       context |-> tables["class_alias_decls"][n].context]]]

IsName(answer) == answer.is = "name"
Found(path) == [is |-> "name", path |-> path]
Nil == [is |-> "nil", path |-> <<>>]
Cyclic == [is |-> "false", path |-> <<>>]

Absolute(path) == [absolute |-> TRUE, path |-> path]

\* A mutant of ResolveDecl: the old name of an alias is looked for at the top level.
ResolveDeclAtTop(program, decl) ==
  LET answer == Resolved(program, decl.old, <<>>)
  IN  IF decl.kind \in AliasKind /\ IsName(answer)
      THEN [decl EXCEPT !.old = Absolute(answer.path)] ELSE decl

\* resolve_declaration and resolve_ruby_decl: the names in a declaration become
\* absolute, or stay as they are.  Only aliases have one that matters here.
ResolveDecl(program, decl) ==
  LET answer == Resolved(program, decl.old, decl.context)
  IN  IF decl.kind \in AliasKind /\ IsName(answer)
      THEN [decl EXCEPT !.old = Absolute(answer.path)] ELSE decl

\* A source with `# resolve-type-names: false` is taken as it is.
ResolveSource(program, source) ==
  IF source.resolve
  THEN [source EXCEPT !.decls =
          [i \in DOMAIN source.decls |-> ResolveDecl(program, source.decls[i])]]
  ELSE source

\* Environment#resolve_type_names, of all declarations.  `meant` is what the aliases
\* mean in the environment that gets resolved, if all of it gets resolved.
ResolveTypeNames(e) ==
  LET program == ProgramOf(e)
      sources == envs[e].sources
      meant == IF \A i \in DOMAIN sources : sources[i].resolve
               THEN [n \in DOMAIN program.aliases |->
                       ResolvedNamespace(program, Absolute(n), <<>>)]
               ELSE <<>>
  IN  Rebuild(e, meant,
        RbsFirst([i \in DOMAIN sources |-> ResolveSource(program, sources[i])]))

\* initialize_copy: the tables are copied; their entries and the cache are not.
Dup(e) ==
  /\ Idle
  /\ Len(envs) < MaxEnvironments
  /\ envs' = Append(envs, envs[e])
  /\ raised' = IF e \in raised THEN raised \cup {Len(envs) + 1} ELSE raised
  /\ UNCHANGED <<entries, caches, adding, failed>>

-----------------------------------------------------------------------------
(* Normalization of module names.                                          *)

\* normalize_module_name?, when the cache has no answer.
Normalized(e, name) ==
  LET tables == envs[e].tables
      aliases == tables["class_alias_decls"]
      original == IF name \in DOMAIN aliases THEN aliases[name].old.path ELSE name
  IN  IF name \in DOMAIN aliases /\ ~aliases[name].old.absolute
      THEN ResolvedNamespace(ProgramOf(e), Absolute(name), <<>>)
      ELSE IF original \in DOMAIN tables["class_decls"] THEN Found(original) ELSE Nil

\* An alias whose old name could not be made absolute.
IsUnresolved(e, name) ==
  LET aliases == envs[e].tables["class_alias_decls"]
  IN  name \in DOMAIN aliases /\ ~aliases[name].old.absolute

\* A mutant of IsKept: a name that is not found is not looked for again.
IsAlwaysKept(e, name) == TRUE

\* What is kept: names, and whatever became of an unresolved alias.
IsKept(e, name) == IsUnresolved(e, name) \/ IsName(Normalized(e, name))

NormalizeModuleName(e, name) ==
  LET cache == envs[e].cache
  IN  /\ Idle
      /\ name \notin DOMAIN caches[cache]
      /\ IsKept(e, name)
      /\ caches' = [caches EXCEPT ![cache] = Set(@, name, Normalized(e, name))]
      /\ UNCHANGED <<envs, entries, adding, raised, failed>>

\* What a call of normalize_module_name? answers.
NormalizeAnswer(e, name) ==
  LET cache == caches[envs[e].cache]
  IN  IF name \in DOMAIN cache THEN cache[name] ELSE Normalized(e, name)

-----------------------------------------------------------------------------

Next ==
  \/ AddNextSource \/ FinishAdding
  \/ InsertModule \/ OpenModule \/ InsertSingle \/ Duplicated
  \/ \E e \in DOMAIN envs :
       \/ \E source \in Source : AddSource(e, source)
       \/ \E source \in Source : Unload(e, source.path)
       \/ ResolveTypeNames(e)
       \/ Dup(e)
       \/ \E name \in Queried : NormalizeModuleName(e, name)

Spec == Init /\ [][Next]_vars

-----------------------------------------------------------------------------

AllDecls(e) ==
  LET sources == envs[e].sources
  IN  Concat([i \in DOMAIN sources |-> sources[i].decls])

\* What the language allows: two declarations of one name, as long as they open the
\* same class or module.
Conflict(c, d) ==
  /\ c.name = d.name
  /\ IF {TableOf(c.kind), TableOf(d.kind)}
          \subseteq {"class_decls", "class_alias_decls", "constant_decls"}
     THEN c.kind # d.kind \/ c.kind \notin ModuleKind
     ELSE TableOf(c.kind) = TableOf(d.kind)

HasConflict(decls) == \E i, j \in DOMAIN decls : i # j /\ Conflict(decls[i], decls[j])

\* The declarations that open a class or module.
Openings(decls, n) ==
  Subsequence(decls, {i \in DOMAIN decls : decls[i].name = n /\ decls[i].kind \in ModuleKind})

\* The environments nothing is being added to.
Settled == {e \in DOMAIN envs : e # adding.env}

\* Nobody else has the entry, or the cache, of e.
HasAlone(e, entry) ==
  \A f \in DOMAIN envs \ {e} : \A n \in DOMAIN envs[f].tables["class_decls"] :
    envs[f].tables["class_decls"][n] # entry
CachesAlone(e) == \A f \in DOMAIN envs \ {e} : envs[f].cache # envs[e].cache

\* Adding sources raised exactly if two declarations of them conflict, whatever the
\* order of the sources, their languages and what raised before
\* (insert_rbs_decl, insert_ruby_decl).  unload and resolve_type_names add them in
\* another order, and still raise only for an environment that raised itself.
RaisesIffConflict ==
  /\ \A e \in Settled : e \in raised <=> HasConflict(AllDecls(e))
  /\ failed \subseteq raised

\* Unless that raised, the tables are what the sources declare: nothing is lost, a name
\* is in one table, and a class that is in one environment only has its declarations in
\* the order of the sources.  That is so for what unload and resolve_type_names build.
TablesAreSources ==
  \A e \in Settled \ raised :
    LET decls == AllDecls(e)
        classes == envs[e].tables["class_decls"]
    IN  /\ \A t \in Table : DOMAIN envs[e].tables[t] =
             {decls[i].name : i \in {j \in DOMAIN decls : TableOf(decls[j].kind) = t}}
        /\ \A n \in DOMAIN classes : HasAlone(e, classes[n]) =>
             entries[classes[n]].decls = Openings(decls, n)

\* A normalized name from the cache is the one that would be found now, whatever was
\* added since (normalize_module_name?).  Names of unresolved aliases are not covered:
\* "this method assumes the declarations have resolved type names"
\* (sig/environment.rbs:207).  Neither is a cache that a copy shares.
CacheIsCurrent ==
  \A e \in Settled : CachesAlone(e) =>
    \A n \in DOMAIN caches[envs[e].cache] :
      IsUnresolved(e, n) \/ caches[envs[e].cache][n] = Normalized(e, n)

\* After resolve_type_names, normalizing an alias gives what the resolver found it to
\* mean in the environment that was resolved, and no name if it means none.  (It is
\* nil, not false, for an alias in a cycle that was written with an absolute name:
\* environment.rb:264 looks that up in class_decls, while sig/environment.rbs:205 says
\* "Returns `false` if the name is cyclic".)
NormalizingIsResolving ==
  \A e \in Settled \ raised : \A n \in DOMAIN envs[e].meant :
    CachesAlone(e) =>
      IF IsName(envs[e].meant[n]) THEN NormalizeAnswer(e, n) = envs[e].meant[n]
                                  ELSE ~IsName(NormalizeAnswer(e, n))
=============================================================================
