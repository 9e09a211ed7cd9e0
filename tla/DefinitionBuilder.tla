--------------------------- MODULE DefinitionBuilder ---------------------------
(***************************************************************************)
(* The methods and variables of classes, modules, singletons and           *)
(* interfaces, lib/rbs/definition_builder.rb, from the members that        *)
(* lib/rbs/definition_builder/method_builder.rb collects, along the        *)
(* ancestors that AncestorBuilder finds.                                   *)
(*                                                                         *)
(* Definitions are built by calls that call each other.  `frames` is the   *)
(* stack of the running ones; each has the definition it is filling in and *)
(* the tasks that are still to do.  What is finished is kept in the caches *)
(* of the two builders, by the side it is about and the name.              *)
(*                                                                         *)
(* A declaration has `members` besides what AncestorBuilder reads of it.   *)
(* A type is the name of a type variable, of a type without arguments, or  *)
(* "self"; that of the instances of a class, with its own parameters, is   *)
(* the last component of its name.  A method type has one parameter.       *)
(* Annotations and comments are left out, and so is the check of variance: *)
(* type parameters are not annotated.                                      *)
(***************************************************************************)
EXTENDS AncestorBuilder, TLC

LOCAL INSTANCE SequencesExt
LOCAL INSTANCE FiniteSetsExt

CONSTANT Absent   \* types that are written, but not declared

VARIABLES definitions,   \* instance_cache, singleton0_cache, singleton_cache, interface_cache
          methods,       \* instance_methods, singleton_methods, interface_methods
          frames,        \* the running calls, the innermost last
          calls,         \* what is still to be called from outside
          answer         \* the last of those calls, and what has come of it

definitionVars == <<definitions, methods, frames, calls, answer>>

Builds == {"instance", "singleton0", "singleton", "interface"}
Sides == {"instance", "singleton", "interface"}

None == <<>>
Some(x) == <<x>>
At(table, name) == IF name \in DOMAIN table THEN Some(table[name]) ELSE None

-----------------------------------------------------------------------------
(* Substitutions: functions of names of variables.                         *)

NoSubst == <<>>
Sub(type, s) == IF type \in DOMAIN s THEN s[type] ELSE type
SubMethodType(method_type, s) ==
    LET free == [v \in DOMAIN s \ Values(method_type.params) |-> s[v]]
    IN  [method_type EXCEPT !.arg = Sub(@, free), !.return = Sub(@, free)]

Build(variables, types) ==
    [v \in Values(variables) |-> types[CHOOSE i \in DOMAIN variables : variables[i] = v]]

\* Substitution#+
Plus(s, other) ==
    IF DOMAIN other = {} THEN s
    ELSE [v \in DOMAIN s \cup DOMAIN other |->
             IF v \notin DOMAIN other THEN s[v] ELSE IF v \in DOMAIN s THEN Sub(other[v], s) ELSE other[v]]

\* TypeParam.application: defaults, where the variables of required parameters have their
\* arguments and those of others are untyped.
Application(params, args) ==
    LET required == Required(params)
        Arg(i) == IF i \in DOMAIN args THEN args[i] ELSE Untyped
        param_subst == Build(NamesOf(params), [i \in DOMAIN params |-> IF i <= required THEN Arg(i) ELSE Untyped])
    IN  Build(NamesOf(params),
              [i \in DOMAIN params |-> IF i \in DOMAIN args \/ i <= required THEN Arg(i)
                                       ELSE Sub(params[i].default[1], param_subst)])

\* tapp_subst
Applying(name, args) == Application(ParamsOf(name), args)

-----------------------------------------------------------------------------
(* The method builder.  A definition has the members that define a method, *)
(* and those that add to it by `| ...`.  Members are, by `is`:             *)
(*   "def"       [language, kind, name, overloads, overloading, visibility,*)
(*               annotated]                                                *)
(*   "attr_..."  [language, kind, names, type, ivar_name, visibility]      *)
(*   "alias"     [kind, new_name, old_name]                                *)
(*   "ivar", "civar", "cvar"   [language, name, type]                      *)
(*   "public", "private"                                                   *)

Nil == "nil"
Marks == {"public", "private"}
Readers == {"attr_reader", "attr_accessor"}
Writers == {"attr_writer", "attr_accessor"}
Attributes == Readers \cup Writers
Setter(name) == name \o "="

\* methods.methods[name] ||= Definition.empty, with more in it
Extended(defns, name, originals, overloads, accessibilities) ==
    LET empty == [name |-> name, originals |-> <<>>, overloads |-> <<>>, accessibilities |-> <<>>]
        known == IF \E i \in DOMAIN defns : defns[i].name = name THEN defns ELSE Append(defns, empty)
        More(d) == [d EXCEPT !.originals = @ \o originals, !.overloads = @ \o overloads,
                             !.accessibilities = @ \o accessibilities]
    IN  [i \in DOMAIN known |-> IF known[i].name = name THEN More(known[i]) ELSE known[i]]

build_alias(defns, member) == Extended(defns, member.new_name, <<member>>, <<>>, <<>>)
build_method(defns, member, accessibility) ==
    IF member.overloading THEN Extended(defns, member.name, <<>>, <<member>>, <<>>)
    ELSE Extended(defns, member.name, <<member>>, <<>>, <<accessibility>>)
build_attribute(defns, member, accessibility) ==
    LET Read(ds, name) == IF member.is \in Readers THEN Extended(ds, name, <<member>>, <<>>, <<accessibility>>) ELSE ds
        Write(ds, name) ==
            IF member.is \in Writers THEN Extended(ds, Setter(name), <<member>>, <<>>, <<accessibility>>) ELSE ds
    IN  FoldLeft(LAMBDA ds, name : Write(Read(ds, name), name), defns, member.names)

\* The members of a side, with their accessibility (each_rbs_member_with_accessibility).
IsMethod(member, side) ==
    /\ member.is \in {"def", "alias"} \cup Attributes
    /\ member.kind = side \/ member.kind = "singleton_instance"
AccessibilityOf(members, i, side) ==
    LET marks == {j \in 1..(i - 1) : members[j].is \in Marks}
        member == members[i]
    IN  CASE side = "instance" /\ member.kind = "singleton_instance" -> "private"
          [] member.visibility # Nil -> member.visibility
          [] member.visibility = Nil /\ side = "instance" /\ marks # {} -> members[Max(marks)].is
          [] OTHER -> "public"

\* The declarations of one class may have names of their own for the type parameters.
AlignedMember(member, align) ==
    CASE member.is = "def" -> [member EXCEPT !.overloads = [i \in DOMAIN @ |-> SubMethodType(@[i], align)]]
      [] member.is \in Attributes -> [member EXCEPT !.type = Sub(@, align)]
      [] OTHER -> member
Alignment(decl, entry) == Build(NamesOf(decl.params), NamesOf(PrimaryDecl(entry).params))

\* build_instance, build_singleton
MethodsOfDecl(defns, decl, side, align) ==
    LET Add(ds, i) ==
            LET member == AlignedMember(decl.members[i], align)
            IN  CASE ~IsMethod(member, side) -> ds
                  [] IsMethod(member, side) /\ member.is = "alias" -> build_alias(ds, member)
                  [] OTHER ->
                       LET accessibility == AccessibilityOf(decl.members, i, side)
                       IN  IF member.is = "def" THEN build_method(ds, member, accessibility)
                           ELSE build_attribute(ds, member, accessibility)
    IN  FoldLeft(Add, defns, [i \in DOMAIN decl.members |-> i])
BuiltMethods(side, name) ==
    IF side = "interface" THEN MethodsOfDecl(<<>>, program.interface_decls[name], "instance", NoSubst)
    ELSE LET entry == program.class_decls[name]
             Align(decl) == IF side = "instance" /\ decl.language = "rbs" THEN Alignment(decl, entry) ELSE NoSubst
         IN  FoldLeft(LAMBDA ds, decl : MethodsOfDecl(ds, decl, side, Align(decl)), <<>>, entry.decls)

\* Methods#validate!
IsValid(defns) == \A i \in DOMAIN defns : Len(defns[i].originals) <= 1

MethodsOf(side, name) == IF name \in DOMAIN methods[side] THEN methods[side][name] ELSE BuiltMethods(side, name)
Remembered(side, names) ==
    [methods EXCEPT ![side] = [n \in DOMAIN @ \cup names |-> MethodsOf(side, n)]]

Original(defn) == IF defn.originals = <<>> THEN [is |-> "none"] ELSE defn.originals[1]

\* Methods#each yields what an alias is of before the alias, and raises when that comes back
\* to it: the positions of what is yielded, and 0 where it raises.
Cycle == 0
OldOf(defns, i) ==
    IF Original(defns[i]).is # "alias" THEN {}
    ELSE {j \in DOMAIN defns \ {i} : defns[j].name = Original(defns[i]).old_name}
RECURSIVE each_alias_first(_, _, _, _)
each_alias_first(defns, i, done, visiting) ==
    CASE i \in done -> <<>>
      [] i \notin done /\ i \in visiting -> <<Cycle>>
      [] i \notin done \cup visiting /\ OldOf(defns, i) = {} -> <<i>>
      [] OTHER ->
           LET old == CHOOSE j \in OldOf(defns, i) : TRUE
           IN  Append(each_alias_first(defns, old, done, visiting \cup {i}), i)
Each(defns) ==
    LET all == FoldLeft(LAMBDA order, i : order \o each_alias_first(defns, i, Values(order), {}), <<>>,
                        [i \in DOMAIN defns |-> i])
        raising == {k \in DOMAIN all : all[k] = Cycle}
    IN  IF raising = {} THEN all ELSE SubSeq(all, 1, Min(raising))
HasAliasCycle(defns) == Cycle \in Values(Each(defns))

-----------------------------------------------------------------------------
(* Methods and variables of a definition.                                  *)

EmptyDefinition == [methods |-> <<>>, instance_variables |-> <<>>, class_variables |-> <<>>]

TypeDef(type, defined_in, implemented_in) ==
    [type |-> type, defined_in |-> defined_in, implemented_in |-> implemented_in]
Method(super_method, defs, accessibility, alias_of) ==
    [super_method |-> super_method, defs |-> defs, accessibility |-> accessibility, alias_of |-> alias_of]

\* Method#sub, Variable#sub and Definition#sub: not of what a method is an alias of.
RECURSIVE SubMethod(_, _)
SubMethod(method, s) ==
    [method EXCEPT !.super_method = IF @ = None THEN None ELSE Some(SubMethod(@[1], s)),
                   !.defs = [i \in DOMAIN @ |-> [@[i] EXCEPT !.type = SubMethodType(@, s)]]]
SubVariables(variables, s) == [v \in DOMAIN variables |-> [variables[v] EXCEPT !.type = Sub(@, s)]]
SubDefinition(definition, s) ==
    [methods |-> [m \in DOMAIN definition.methods |-> SubMethod(definition.methods[m], s)],
     instance_variables |-> SubVariables(definition.instance_variables, s),
     class_variables |-> SubVariables(definition.class_variables, s)]

SpecialMethods == {"initialize", "initialize_copy", "initialize_clone", "initialize_dup", "respond_to_missing?"}
IsOfInstance(member) == member.kind \in {"instance", "singleton_instance"}

\* What is said in the member, and special_accessibility, go first.
AccessibilityIn(original, name, otherwise) ==
    CASE original.is # "alias" /\ original.visibility # Nil -> original.visibility
      [] (original.is = "alias" \/ original.visibility = Nil) /\ IsOfInstance(original) /\ name \in SpecialMethods -> "private"
      [] OTHER -> otherwise

\* The method type of an attribute.
NoArg == "none"
AttributeType(member, name, s) ==
    LET type == Sub(member.type, s)
        isSetter == \E n \in Values(member.names) : name = Setter(n)
    IN  [params |-> <<>>, arg |-> IF isSetter THEN type ELSE NoArg, return |-> type]

\* A level is what define_method is told of where it is.  What is new on the level is kept
\* apart from the definition until all of the level is there.
Level(table, selfs, subst, defined_in, implemented_in) ==
    [methods |-> table, selfs |-> selfs, subst |-> subst, defined_in |-> defined_in, implemented_in |-> implemented_in]

Existing(new, level, name) == IF name \in DOMAIN new THEN Some(new[name]) ELSE At(level.methods, name)
AliasTarget(new, level, original) ==
    LET found == Existing(new, level, original.old_name)
    IN  IF found = None THEN At(level.selfs, original.old_name) ELSE found

DefineError(new, level, defn) ==
    LET is == Original(defn).is
    IN  CASE is = "alias" /\ AliasTarget(new, level, Original(defn)) = None -> "UnknownMethodAliasError"
          [] is \notin {"alias", "none"} /\ defn.name \in DOMAIN new -> "DuplicatedMethodDefinitionError"
          [] is = "none" /\ Existing(new, level, defn.name) = None -> "InvalidOverloadMethodError"
          [] OTHER -> "none"

Defs(types, level) ==
    [i \in DOMAIN types |-> TypeDef(SubMethodType(types[i], level.subst), level.defined_in, level.implemented_in)]

\* The method without the types that are added to it.
BaseMethod(new, level, defn) ==
    LET original == Original(defn)
        existing == Existing(new, level, defn.name)
        super_method == IF level.implemented_in = None THEN None ELSE existing
        accessibility == defn.accessibilities[1]
        Implemented(defs) == [i \in DOMAIN defs |-> [defs[i] EXCEPT !.implemented_in = level.implemented_in]]
        target == AliasTarget(new, level, original)[1]
    IN  CASE original.is = "alias" ->
                 Method(existing,
                        [i \in DOMAIN target.defs |-> TypeDef(target.defs[i].type, level.defined_in, level.implemented_in)],
                        AccessibilityIn(original, original.new_name, target.accessibility), Some(target))
          [] original.is = "def" /\ original.language = "rbs" ->
                 Method(super_method, Defs(original.overloads, level), AccessibilityIn(original, defn.name, accessibility), None)
          [] original.is = "def" /\ original.language = "ruby" /\ (original.annotated \/ existing = None) ->
                 Method(existing, Defs(original.overloads, level), "public", None)
          [] original.is = "def" /\ original.language = "ruby" /\ ~original.annotated /\ existing # None ->
                 Method(existing, Implemented(existing[1].defs), "public", existing[1].alias_of)
          [] original.is \in Attributes ->
                 Method(super_method,
                        <<TypeDef(AttributeType(original, defn.name, IF original.language = "ruby" THEN NoSubst ELSE level.subst),
                           level.defined_in, level.implemented_in)>>,
                        IF original.language = "ruby" THEN accessibility ELSE AccessibilityIn(original, defn.name, accessibility),
                        None)
          [] OTHER ->
                 Method(IF defn.name \in DOMAIN new THEN new[defn.name].super_method ELSE existing,
                        Implemented(existing[1].defs), existing[1].accessibility, existing[1].alias_of)

\* The types of `| ...` members go in front, those of the last one first (define_method).
define_method(new, level, defn) ==
    LET Adding(method, member) == [method EXCEPT !.defs = Defs(member.overloads, level) \o @]
    IN  (defn.name :> FoldLeft(Adding, BaseMethod(new, level, defn), defn.overloads)) @@ new

\* What is made of a sequence of steps, each of which may raise.
Progress(value) == [value |-> value, error |-> "none"]
After(p, error, value) == IF error # "none" THEN [p EXCEPT !.error = error] ELSE [p EXCEPT !.value = value]
Steps(first, steps, ErrorIn(_, _), Next(_, _)) ==
    FoldLeft(LAMBDA p, step :
                 IF p.error # "none" THEN p ELSE After(p, ErrorIn(p.value, step), Next(p.value, step)),
             Progress(first), steps)

\* import_methods: those of interfaces, then those of the module.  A step defines one
\* method, or raises.
Defining(level, defns) ==
    LET order == Each(defns)
    IN  [k \in DOMAIN order |->
            IF order[k] = Cycle THEN [error |-> "RecursiveAliasDefinitionError"]
            ELSE [error |-> "none", level |-> level, defn |-> defns[order[k]]]]

\* A method of an interface, which no other one has that is mixed in here.
Once(steps, interfaces, i) ==
    LET IsTaken(name) == \E j \in 1..(i - 1) : \E d \in Values(MethodsOf("interface", interfaces[j].name)) : d.name = name
    IN  [k \in DOMAIN steps |->
            IF steps[k].error = "none" /\ IsTaken(steps[k].defn.name)
            THEN [error |-> "DuplicatedInterfaceMethodDefinitionError"] ELSE steps[k]]

\* validate_type_presence
IsPresent(args) == Values(args) \cap Absent = {}

OfInterface(table, module_name, interfaces, i, subst) ==
    LET interface == interfaces[i]
        level == Level(table, <<>>,
                       IF interface.args = <<>> THEN subst ELSE Plus(subst, Applying(interface.name, interface.args)),
                       Some(interface.name), Some(module_name))
    IN  IF ~IsPresent(interface.args) THEN <<[error |-> "NoTypeFoundError"]>>
        ELSE Once(Defining(level, MethodsOf("interface", interface.name)), interfaces, i)

import_methods(table, side, module_name, interfaces, subst, selfs) ==
    LET implemented_in == IF side = "interface" THEN None ELSE Some(module_name)
        level == Level(table, selfs, subst, Some(module_name), implemented_in)
        steps == Concat([i \in DOMAIN interfaces |-> OfInterface(table, module_name, interfaces, i, subst)])
                     \o Defining(level, MethodsOf(side, module_name))
        ErrorIn(new, step) == IF step.error # "none" THEN step.error ELSE DefineError(new, step.level, step.defn)
    IN  Steps(<<>>, steps, ErrorIn, LAMBDA new, step : define_method(new, step.level, step.defn))

\* The variables with this name, of which the last one declared is the first.
RECURSIVE Chain(_)
Chain(variable) == IF variable = None THEN <<>> ELSE <<variable[1]>> \o Chain(variable[1].parent_variable)

\* A mutant of VariableError: attributes count.
VariableErrorOfAttributes(variable) ==
    LET declared == Chain(Some(variable))
        isTwice == Len(declared) = 2 /\ declared[1].declared_in = declared[2].declared_in
    IN  CASE isTwice /\ declared[1].source \in {"ivar", "ruby ivar"} -> "InstanceVariableDuplicationError"
          [] isTwice /\ declared[1].source = "civar" -> "ClassInstanceVariableDuplicationError"
          [] OTHER -> "none"

\* validate_variable, which looks at a variable that has one above it, attributes aside.
VariableError(variable) ==
    LET IsVariable(v) == v.source \notin Attributes
        declared == SelectSeq(Chain(Some(variable)), IsVariable)
        isTwice == Len(declared) = 2 /\ declared[1].declared_in = declared[2].declared_in
    IN  CASE isTwice /\ declared[1].source = "ivar" /\ declared[2].source = "ivar" -> "InstanceVariableDuplicationError"
          [] isTwice /\ declared[1].source = "ruby ivar" -> "InstanceVariableDuplicationError"
          [] isTwice /\ declared[1].source = "civar" /\ declared[2].source = "civar" -> "ClassInstanceVariableDuplicationError"
          [] OTHER -> "none"

\* insert_variable, of each of these
Inserted(variables, name, entry) ==
    [parent_variable |-> At(variables, name), type |-> entry.type, declared_in |-> entry.declared_in, source |-> entry.source]
insert_variables(variables, entries) ==
    Steps(variables, entries,
          LAMBDA vs, e : VariableError(Inserted(vs, e.name, e)),
          LAMBDA vs, e : (e.name :> Inserted(vs, e.name, e)) @@ vs)

\* The variables of a declaration.  `ivar_name: false` is an attribute without one.
NoVariable == "false"
VariableEntries(name, member, side, subst) ==
    LET Entry(n, type, source) == [name |-> n, type |-> type, source |-> source, declared_in |-> name]
        type == IF member.language = "ruby" THEN member.type ELSE Sub(member.type, subst)
        Named(n) == IF member.ivar_name = Nil THEN "@" \o n ELSE member.ivar_name
    IN  CASE member.is \in Attributes /\ member.kind = side /\ member.ivar_name # NoVariable ->
                 [i \in DOMAIN member.names |-> Entry(Named(member.names[i]), type, member.is)]
          [] member.is = "ivar" /\ side = "instance" ->
                 <<Entry(member.name, type, IF member.language = "ruby" THEN "ruby ivar" ELSE "ivar")>>
          [] member.is = "civar" /\ side = "singleton" -> <<Entry(member.name, member.type, "civar")>>
          [] OTHER -> <<>>
ClassVariableEntries(name, member) ==
    IF member.is = "cvar" THEN <<[name |-> member.name, type |-> member.type, source |-> "cvar", declared_in |-> name]>>
    ELSE <<>>

Members(name) == LET decls == program.class_decls[name].decls IN Concat([i \in DOMAIN decls |-> decls[i].members])
\* A mutant of VariablesOf: all declarations have the same names for the parameters.
VariablesOfUnaligned(name, side, subst) ==
    LET entry == program.class_decls[name]
        s == IF side = "instance" THEN subst ELSE NoSubst
        OfDecl(decl) == Concat([j \in DOMAIN decl.members |-> VariableEntries(name, decl.members[j], side, s)])
    IN  Concat([i \in DOMAIN entry.decls |-> OfDecl(entry.decls[i])])

VariablesOf(name, side, subst) ==
    LET entry == program.class_decls[name]
        OfDecl(decl) ==
            LET s == IF side = "instance" THEN Plus(subst, Alignment(decl, entry)) ELSE NoSubst
            IN  Concat([j \in DOMAIN decl.members |-> VariableEntries(name, decl.members[j], side, s)])
    IN  Concat([i \in DOMAIN entry.decls |-> OfDecl(entry.decls[i])])
ClassVariablesOf(name) ==
    Concat([j \in DOMAIN Members(name) |-> ClassVariableEntries(name, Members(name)[j])])

-----------------------------------------------------------------------------
(* What a definition is put together from: tasks.                          *)

Goal(side, name) == [side |-> side, name |-> name]

BuildTask(side, name) == [do |-> "build", goal |-> Goal(side, name)]
CheckTask(args) == [do |-> "check", args |-> args]
InheritTask(side, name, args) == [do |-> "inherit", goal |-> Goal(side, name), args |-> args]
\* define_instance and define_interface, with the substitution so far and what is applied.
DefineTask(side, name, outer, application) ==
    [do |-> "define", goal |-> Goal(side, name), outer |-> outer, application |-> application]
ImportTask(side, name, subst) == [do |-> "import", goal |-> Goal(side, name), subst |-> subst]
VariablesTask(side, name, subst) == [do |-> "variables", goal |-> Goal(side, name), subst |-> subst]
Task(do) == [do |-> do]

\* The self types of a module, Object if none is written.
SelfTypesOf(name) ==
    LET entry == program.class_decls[name]
        Mapped(s) == [name |-> Normalized(s.name), args |-> NormalizeArgs(ParamsOf(Normalized(s.name)), s.args)]
        written == SelfTypes(entry)
    IN  CASE entry.kind = "class" -> <<>>
          [] entry.kind = "module" /\ written = <<>> -> <<[name |-> Object, args |-> <<>>]>>
          [] OTHER -> [i \in DOMAIN written |-> Mapped(written[i])]

\* included_interfaces, extended_interfaces
Interfaces(mixins, kind) ==
    LET IsMixed(m) == m.kind = kind /\ IsInterface(m.name)
        mixed == SelectSeq(mixins, IsMixed)
    IN  [i \in DOMAIN mixed |-> [name |-> mixed[i].name, args |-> NormalizeArgs(ParamsOf(mixed[i].name), mixed[i].args)]]
InterfacesOf(side, name) ==
    CASE side = "interface" -> Interfaces(program.interface_decls[name].mixins, "include")
      [] side = "instance" -> Interfaces(Mixins(program.class_decls[name], {"include"}), "include")
      [] OTHER -> Interfaces(Mixins(program.class_decls[name], {"extend"}), "extend")

InterfaceNode(name) == Node("interface_ancestors", name)
\* Interfaces, each with those it includes, once each (interface_methods).
Sourced(name) ==
    LET IsSourced(a) == a.source # NoSource
        ancestors == SelectSeq(Cached(InterfaceNode(name)), IsSourced)
    IN  [i \in DOMAIN ancestors |-> [name |-> ancestors[i].node.name, args |-> ancestors[i].args]]
AllInterfaces(side, name) ==
    LET mixed == InterfacesOf(side, name)
    IN  Uniq(IF side = "interface" THEN Sourced(name)
             ELSE Concat([i \in DOMAIN mixed |-> <<mixed[i]>> \o Sourced(mixed[i].name)]))

\* The ancestors of interfaces that the import needs.
InterfaceNodes(side, name) ==
    IF side = "interface" THEN {InterfaceNode(name)}
    ELSE {InterfaceNode(i.name) : i \in Values(InterfacesOf(side, name))}

SideOf(name) == IF IsInterface(name) THEN "interface" ELSE "instance"
DefineMixin(part, subst) ==
    <<CheckTask(part.args), DefineTask("instance", part.name, subst, Applying(part.name, part.args))>>
DefineMixins(name, kind, subst) ==
    LET parts == MixedIn(program.class_decls[name], kind)
    IN  Concat([i \in DOMAIN parts |-> DefineMixin(parts[i], subst)])

\* define_instance: what is included is below the methods of the module itself, and what is
\* prepended above.  The definitions of self types are for its aliases.
DefineInstance(name, subst) ==
    LET self_types == SelfTypesOf(name)
    IN  Concat([i \in DOMAIN self_types |->
                   <<CheckTask(self_types[i].args), BuildTask(SideOf(self_types[i].name), self_types[i].name)>>])
        \o DefineMixins(name, "include", subst)
        \o <<ImportTask("instance", name, subst)>>
        \o DefineMixins(name, "prepend", subst)
        \o <<VariablesTask("instance", name, subst)>>

SuperPart(parts) == LET IsSuper(p) == p.kind = "super" IN SelectSeq(parts, IsSuper)
\* A mutant of SuperSide: what the super class inherits is what it has.
SuperSideWithNew(part) == IF part.method = "instance_ancestors" THEN "instance" ELSE "singleton"

SuperSide(part) == IF part.method = "instance_ancestors" THEN "instance" ELSE "singleton0"
Inheriting(parts) ==
    LET super == SuperPart(parts)
    IN  Concat([i \in DOMAIN super |->
                   <<BuildTask(SuperSide(super[i]), super[i].name), CheckTask(super[i].args),
                     InheritTask(SuperSide(super[i]), super[i].name, super[i].args)>>])

OfSelfTypes(name) ==
    LET self_types == SelfTypesOf(name)
    IN  Concat([i \in DOMAIN self_types |->
                   <<CheckTask(self_types[i].args),
                     DefineTask(SideOf(self_types[i].name), self_types[i].name, NoSubst,
                                Applying(self_types[i].name, self_types[i].args))>>])

\* build_instance, build_singleton0, build_singleton and build_interface
TasksOf(goal0) ==
    LET name == goal0.name
    IN  CASE goal0.side = "instance" ->
                 Inheriting(OneInstanceAncestors(name)) \o OfSelfTypes(name)
                     \o <<DefineTask("instance", name, NoSubst, NoSubst)>>
          [] goal0.side = "singleton0" ->
                 Inheriting(OneSingletonAncestors(name)) \o DefineMixins(name, "extend", NoSubst)
                     \o <<ImportTask("singleton", name, NoSubst), VariablesTask("singleton", name, NoSubst),
                          BuildTask("instance", name), Task("class variables")>>
          [] goal0.side = "singleton" ->
                 <<BuildTask("singleton0", name), InheritTask("singleton0", name, <<>>)>>
                     \o (IF IsClass(name) THEN <<Task("find new")>> ELSE <<>>)
          [] OTHER -> <<DefineTask("interface", name, NoSubst, NoSubst)>>

-----------------------------------------------------------------------------
(* `new`, typed by `initialize`.                                           *)

New == "new"
Initialize == "initialize"

\* The _untyped new_: all of it is from Class.
IsUntypedNew(table) == New \in DOMAIN table /\ \A d \in Values(table[New].defs) : d.defined_in = Some(Class)

RECURSIVE IsAliasOf(_, _)
IsAliasOf(method, other) ==
    method.alias_of # None /\ (method.alias_of[1] = other \/ IsAliasOf(method.alias_of[1], other))

SelfType == "self"
InstanceType(name) == name[Len(name)]
Fresh(param) == param \o "'"

\* The type of `new` takes the parameters of the class too; those of the method that have a
\* name of these get a fresh one.
TypedBy(method_type, name) ==
    LET class_params == NamesOf(ParamsOf(name))
        Renamed(p) == IF p \in Values(class_params) THEN Fresh(p) ELSE p
        params == [i \in DOMAIN method_type.params |-> Renamed(method_type.params[i])]
        arg == Sub(method_type.arg, Build(method_type.params, params))
    IN  [params |-> class_params \o params, arg |-> IF arg = SelfType THEN InstanceType(name) ELSE arg,
         return |-> InstanceType(name)]

WithTypedNew(table, name, initialize) ==
    LET new == table[New]
        typed_new == Method(Some(new), [i \in DOMAIN initialize.defs |-> [initialize.defs[i] EXCEPT !.type = TypedBy(@, name)]],
                            "public", None)
        Typed(m) == IF m = New THEN typed_new
                    ELSE IF IsAliasOf(table[m], new)
                    THEN [table[m] EXCEPT !.alias_of = Some(typed_new), !.defs = typed_new.defs]
                    ELSE table[m]
    IN  [m \in DOMAIN table |-> Typed(m)]

-----------------------------------------------------------------------------
(* The steps.                                                              *)

Call == Head(calls)
Running == calls # <<>> /\ Call.op # "update"
Frame == frames[Len(frames)]
TopTask == Head(Frame.todo)
Doing(do) == frames # <<>> /\ goal = NoGoal /\ Frame.todo # <<>> /\ TopTask.do = do

IsBuilt(g) == g.name \in DOMAIN definitions[g.side]
Built(g) == definitions[g.side][g.name]

\* The definition that is wanted now: by the call from outside, or by a running one.
\* build_singleton0 is called with names that are normalized.
Called == IF Call.op = "interface" THEN Goal(Call.op, Call.name) ELSE Goal(Call.op, Normalized(Call.name))
Wanted ==
    IF frames = <<>> THEN {Called} ELSE IF Frame.todo # <<>> /\ TopTask.do = "build" THEN {TopTask.goal} ELSE {}

Finish(result) ==
    /\ answer' = [call |-> Call, result |-> result]
    /\ calls' = Tail(calls)
    /\ frames' = <<>> /\ goal' = NoGoal /\ failure' = "none"
    /\ UNCHANGED <<program, caches, stack, building, definitions>>
Answer(value) == [is |-> "value", value |-> value]
\* A call raises; the method builder keeps what it has.
FailWith(error, built_methods) == Finish([is |-> "raised", value |-> error]) /\ methods' = built_methods
Fail(error) == FailWith(error, methods)

AskFor(node) ==
    /\ goal' = node
    /\ UNCHANGED <<program, caches, stack, building, failure, definitionVars>>

AncestorsNode(g) ==
    Node(CASE g.side = "instance" -> "instance_ancestors" [] g.side = "interface" -> "interface_ancestors"
           [] OTHER -> "singleton_ancestors", g.name)

\* The ancestor builder has returned, or has raised.
Hear ==
    /\ Running /\ HasReturned
    /\ goal' = NoGoal
    /\ UNCHANGED <<program, caches, stack, building, failure, definitionVars>>
Reraise == Running /\ HasRaised /\ Fail(failure)

\* ensure_namespace!
HasNamespace(name) == \A i \in 1..(Len(name) - 1) : IsModuleName(SubSeq(name, 1, i))

\* What a call raises before it does anything; validate_type_params goes through the methods.
SideOfMethods(side) == IF side = "singleton0" THEN "singleton" ELSE side
ErrorOfMethods(defns, checks) ==
    CASE ~IsValid(defns) -> "DuplicatedMethodDefinitionError"
      [] IsValid(defns) /\ checks /\ HasAliasCycle(defns) -> "RecursiveAliasDefinitionError"
      [] OTHER -> "none"
EarlyError(g) ==
    LET checks == g.side \in {"instance", "interface"} /\ ParamsOf(g.name) # <<>>
    IN  IF g.side = "singleton" THEN "none" ELSE ErrorOfMethods(MethodsOf(SideOfMethods(g.side), g.name), checks)

WithMethodsOf(g) ==
    IF g.side = "singleton" \/ ~IsValid(MethodsOf(SideOfMethods(g.side), g.name)) THEN methods
    ELSE Remembered(SideOfMethods(g.side), {g.name})

Begin ==
    /\ Running /\ goal = NoGoal
    /\ \E g \in Wanted :
        /\ ~IsBuilt(g)
        /\ CASE ~IsDeclared(AncestorsNode(g)) -> Fail("RuntimeError")
             [] IsDeclared(AncestorsNode(g)) /\ ~HasNamespace(g.name) -> Fail("NoTypeFoundError")
             [] IsDeclared(AncestorsNode(g)) /\ HasNamespace(g.name) /\ ~IsCached(AncestorsNode(g)) -> AskFor(AncestorsNode(g))
             [] OTHER ->
                  IF EarlyError(g) # "none" THEN FailWith(EarlyError(g), WithMethodsOf(g))
                  ELSE /\ frames' = Append(frames, [goal |-> g, definition |-> EmptyDefinition, todo |-> TasksOf(g)])
                       /\ methods' = WithMethodsOf(g)
                       /\ UNCHANGED <<program, builderVars, definitions, calls, answer>>

\* The task is done: more to do goes first, and there is more in the definition.
Done(definition, more) ==
    /\ frames' = [frames EXCEPT ![Len(frames)] = [@ EXCEPT !.definition = definition, !.todo = more \o Tail(@)]]
    /\ UNCHANGED <<program, builderVars, definitions, calls, answer>>
DoneOr(progress, definition) ==
    IF progress.error # "none" THEN Fail(progress.error) ELSE Done(definition, <<>>) /\ UNCHANGED methods

TakeBuilt == Doing("build") /\ IsBuilt(TopTask.goal) /\ Done(Frame.definition, <<>>) /\ UNCHANGED methods

Check ==
    /\ Doing("check")
    /\ IF IsPresent(TopTask.args) THEN Done(Frame.definition, <<>>) /\ UNCHANGED methods ELSE Fail("NoTypeFoundError")

\* merge!, of the class variables only where instances have them
Inherit ==
    /\ Doing("inherit")
    /\ LET built == Built(TopTask.goal)
           super == IF TopTask.args = <<>> THEN built ELSE SubDefinition(built, Applying(TopTask.goal.name, TopTask.args))
           own == Frame.definition
           class_variables == IF Frame.goal.side = "singleton0" THEN <<>> ELSE super.class_variables
       IN  Done([methods |-> super.methods @@ own.methods,
                 instance_variables |-> super.instance_variables @@ own.instance_variables,
                 class_variables |-> class_variables @@ own.class_variables], <<>>)
    /\ UNCHANGED methods

MoreOf(side, name, subst) ==
    IF side = "interface" THEN <<ImportTask("interface", name, subst)>> ELSE DefineInstance(name, subst)
Define ==
    /\ Doing("define")
    /\ LET side == TopTask.goal.side
           name == TopTask.goal.name
       IN  IF ~IsValid(MethodsOf(side, name)) THEN Fail("DuplicatedMethodDefinitionError")
           ELSE /\ Done(Frame.definition, MoreOf(side, name, Plus(TopTask.outer, TopTask.application)))
                /\ methods' = Remembered(side, {name})

\* The methods of the self types, the last one first.
SelfTypeMethods(name, subst) ==
    LET self_types == SelfTypesOf(name)
        OfOne(s) == SubDefinition(Built(Goal(SideOf(s.name), s.name)), Plus(subst, Applying(s.name, s.args))).methods
    IN  FoldLeft(LAMBDA table, s : OfOne(s) @@ table, <<>>, self_types)

Imported(progress, built_methods) ==
    IF progress.error # "none" THEN FailWith(progress.error, built_methods)
    ELSE /\ Done([Frame.definition EXCEPT !.methods = progress.value @@ @], <<>>)
         /\ methods' = built_methods
ImportWith(side, name, interfaces) ==
    LET selfs == IF side = "instance" THEN SelfTypeMethods(name, TopTask.subst) ELSE <<>>
        valid == {i \in DOMAIN interfaces : \A j \in 1..i : IsValid(MethodsOf("interface", interfaces[j].name))}
        built_methods == Remembered("interface", {interfaces[i].name : i \in valid})
    IN  IF valid # DOMAIN interfaces THEN FailWith("DuplicatedMethodDefinitionError", built_methods)
        ELSE Imported(import_methods(Frame.definition.methods, side, name, interfaces, TopTask.subst, selfs), built_methods)
Import ==
    /\ Doing("import")
    /\ LET side == TopTask.goal.side
           name == TopTask.goal.name
           asked == {n \in InterfaceNodes(side, name) : ~IsCached(n)}
       IN  IF asked # {} THEN AskFor(CHOOSE n \in asked : TRUE) ELSE ImportWith(side, name, AllInterfaces(side, name))

\* Class variables are those of the instances; define_class_vars is false where a singleton
\* is extended.
InsertVariables ==
    /\ Doing("variables")
    /\ LET side == TopTask.goal.side
           name == TopTask.goal.name
           inserted == insert_variables(Frame.definition.instance_variables, VariablesOf(name, side, TopTask.subst))
           class_variables ==
               IF Frame.goal.side = "instance"
               THEN insert_variables(Frame.definition.class_variables, ClassVariablesOf(name)).value ELSE <<>>
       IN  DoneOr(inserted, [Frame.definition EXCEPT !.instance_variables = inserted.value,
                                                     !.class_variables = class_variables])
ReplaceClassVariables ==
    /\ Doing("class variables")
    /\ Done([Frame.definition EXCEPT !.class_variables = Built(Goal("instance", Frame.goal.name)).class_variables], <<>>)
    /\ UNCHANGED methods

FindNew ==
    /\ Doing("find new")
    /\ Done(Frame.definition,
            IF IsUntypedNew(Frame.definition.methods)
            THEN <<BuildTask("instance", Frame.goal.name), Task("type new")>> ELSE <<>>)
    /\ UNCHANGED methods
TypeNew ==
    /\ Doing("type new")
    /\ LET instance == Built(Goal("instance", Frame.goal.name)).methods
       IN  Done(IF Initialize \notin DOMAIN instance THEN Frame.definition
                ELSE [Frame.definition EXCEPT !.methods = WithTypedNew(@, Frame.goal.name, instance[Initialize])], <<>>)
    /\ UNCHANGED methods

\* try_cache
Keep ==
    /\ frames # <<>> /\ Frame.todo = <<>> /\ goal = NoGoal
    /\ definitions' = [definitions EXCEPT ![Frame.goal.side] = (Frame.goal.name :> Frame.definition) @@ @]
    /\ frames' = SubSeq(frames, 1, Len(frames) - 1)
    /\ UNCHANGED <<program, builderVars, methods, calls, answer>>

AnswerCall == Running /\ frames = <<>> /\ goal = NoGoal /\ IsBuilt(Called) /\ Finish(Answer(Built(Called)))
              /\ UNCHANGED methods

-----------------------------------------------------------------------------
(* AncestorGraph, and DefinitionBuilder#update.                            *)

GraphNode(side, name) == [side |-> side, name |-> name]
GraphNodes ==
    {GraphNode(side, n) : side \in {"instance", "singleton"}, n \in ModuleNames}
      \cup {GraphNode("instance", n) : n \in InterfaceNames}

\* A mutant of GraphParents: interfaces are forgotten.
GraphParentsThatAreModules(node) ==
    LET OfPart(p) == GraphNode(IF p.method = "singleton_ancestors" THEN "singleton" ELSE "instance", p.name)
        parts == CASE IsInterface(node.name) -> <<>>
                   [] node.side = "instance" -> OneInstanceAncestors(node.name)
                   [] OTHER -> OneSingletonAncestors(node.name)
    IN  {OfPart(p) : p \in {q \in Values(parts) : q.kind # "itself"}}

\* build_ancestors: self types too, and interfaces that are mixed in
GraphParents(node) ==
    LET name == node.name
        OfPart(p) == GraphNode(IF p.method = "singleton_ancestors" THEN "singleton" ELSE "instance", p.name)
        OfMixin(m) == GraphNode("instance", m.name)
    IN  IF IsInterface(name) THEN {OfMixin(i) : i \in Values(InterfacesOf("interface", name))}
        ELSE LET parts == IF node.side = "instance" THEN OneInstanceAncestors(name) ELSE OneSingletonAncestors(name)
             IN  {OfPart(p) : p \in {q \in Values(parts) : q.kind \notin {"itself", "self type"}}}
                 \cup {OfMixin(i) : i \in Values(InterfacesOf(node.side, name))}
                 \cup (IF node.side = "instance" THEN {OfMixin(s) : s \in Values(SelfTypesOf(name))} ELSE {})
RECURSIVE Descendants(_)
\* each_descendant, of all of them, and they themselves
Descendants(nodes) ==
    LET children == {c \in GraphNodes : GraphParents(c) \cap nodes # {}}
    IN  IF children \subseteq nodes THEN nodes ELSE Descendants(nodes \cup children)

\* The names for `except:`, when the declarations of one name have changed.
Outdated(name) == {d.name : d \in Descendants({GraphNode("instance", name), GraphNode("singleton", name)})}

KeepExcept(names) ==
    LET Kept(cache) == [n \in DOMAIN cache \ names |-> cache[n]]
    IN  /\ definitions' = [side \in Builds |-> Kept(definitions[side])]
        /\ methods' = [side \in Sides |-> Kept(methods[side])]

\* There is another builder, with an ancestor builder of its own, that has what the old one
\* has but for these names.
Update ==
    /\ calls # <<>> /\ Call.op = "update" /\ goal = NoGoal
    /\ KeepExcept(Outdated(Call.name))
    /\ program' = Call.program
    /\ caches' = [m \in Methods |-> <<>>]
    /\ answer' = None /\ calls' = Tail(calls)
    /\ UNCHANGED <<stack, building, goal, failure, frames>>

DefinitionInit ==
    /\ BuilderInit
    /\ definitions = [side \in Builds |-> <<>>] /\ methods = [side \in Sides |-> <<>>]
    /\ frames = <<>> /\ answer = None

DefinitionNext ==
    \/ BuilderNext /\ UNCHANGED definitionVars
    \/ Hear \/ Reraise \/ Begin
    \/ TakeBuilt \/ Check \/ Inherit \/ Define \/ Import \/ InsertVariables
    \/ ReplaceClassVariables \/ FindNew \/ TypeNew
    \/ Keep \/ AnswerCall \/ Update
=============================================================================
