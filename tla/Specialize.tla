------------------------------ MODULE Specialize ------------------------------
(***************************************************************************)
(* From a registered function and a context to code: the module is loaded, *)
(* easy::InlineParameters wraps the function and links what the arguments  *)
(* name, easy::DevirtualizeConstant links virtual functions of known       *)
(* objects, and easy::Function::CompileAndWrap() resolves what is left.    *)
(*                                                                         *)
(* Of a module under construction only its references matter.  A reference *)
(* <<u, r>> is that of code from unit u to its object r.  It is open while *)
(* it is a declaration, to be resolved by name, and bound to <<w, g>> when *)
(* a module linked in defined the name as a copy of object g of unit w, or *)
(* to <<"version", n>> when the function of version n has the name.        *)
(***************************************************************************)
EXTENDS BitcodeTracker, Contexts

CONSTANT hosts \* objects of classes in memory: addresses to the unit and table of virtual functions

\* The bitcode of an entry: its references, and the names it defines for other modules.
Bitcode(u, entry) ==
  [open |-> {u} \X Declared(u, entry), bound |-> {},
   visible |-> {<<Name(u, g), <<u, g>>>> : g \in Exposed(u, entry)}]

\* getModule(): the bitcode of the target.
GetModule(a) ==
  LET B == Bitcode(functions[a].unit, functions[a].entry)
  IN  [target |-> a, name |-> functions[a].name, mapping |-> functions[a].unit, inlined |-> <<>>,
       open |-> B.open, bound |-> B.bound, visible |-> B.visible, erased |-> FALSE, throws |-> FALSE]

\* What a reference meets among definitions, which are pairs of a name and what it is of.
Met(r, definitions) == {d[2] : d \in {e \in definitions : e[1] = Name(r[1], r[2])}}

\* What is linked: the bitcode, and the name that it defines its entry as.
OfAddress(a) ==
  LET f == functions[a]
  IN  [bitcode |-> Bitcode(f.unit, f.entry), entry |-> <<f.name, <<f.unit, f.entry>>>>]

\* AK_Module: the module of a version comes with all that it refers to, and the function
\* in it has the name of the target that it was made from.
OfVersion(n, V) == [bitcode |-> V, entry |-> <<V.name, <<"version", n>>>>]

\* Linker::linkModules() with B, then the entry is privatized.  OverrideFromSrc: B's
\* definitions take the place of those of M, and if one has the name of the target, the
\* pass goes on with a function that was erased.
Links(M, B, entry) ==
  LET names == {d[1] : d \in B.visible}
      all == B.visible \cup {d \in M.visible : d[1] \notin names}
      open == M.open \cup B.open
  IN  [M EXCEPT !.open = {r \in open : Met(r, all) = {}},
                !.bound = @ \cup B.bound \cup UNION {{r} \X Met(r, all) : r \in open},
                !.visible = all \ {entry},
                !.erased = @ \/ M.name \in names]

\* One after the other: each of linked is the set of what is linked then, of one or none.
LinksOne(M, what) == IF what = {} THEN M ELSE LET m == CHOOSE m \in what : TRUE IN Links(M, m.bitcode, m.entry)

LinksAll(M, linked) ==
  LET upTo[n \in 0..Len(linked)] == IF n = 0 THEN M ELSE LinksOne(upTo[n - 1], linked[n])
  IN  upTo[Len(linked)]

\* ConstantInt::get(): the low bits.
Truncated(type, v) == IF type = "bool" THEN v % 2 ELSE Wrap(v, Half[type])

\* The operand that GetInlineArgs() puts in for an argument.
InlineArg(type, arg) ==
  CASE arg.kind = "Int" -> Argument("constant", Truncated(type, arg.data))
    [] arg.kind = "IntRange" -> Argument("constant", Truncated(type, arg.data.cur))
    [] arg.kind \in {"Float", "Struct"} -> Argument("constant", arg.data)
    [] arg.kind = "Ptr" /\ HasGlobalMapping(arg.data) -> Argument("copy", arg.data)
    [] arg.kind = "Ptr" /\ ~HasGlobalMapping(arg.data) -> Argument("constant", arg.data)
    [] OTHER -> arg

\* What is linked for an argument; versions are the functions compiled before.
LinkedFor(arg, versions) ==
  CASE arg.kind = "Ptr" /\ HasGlobalMapping(arg.data) -> {OfAddress(arg.data)}
    [] arg.kind = "Module" -> {OfVersion(arg.data, versions[arg.data])}
    [] OTHER -> {}

\* InlineParameters::runOnModule(): the arguments in order; then the wrapper, which is
\* version n, steals the name of the target.
InlineParameters(M, types, C, versions, n) ==
  LET N == LinksAll(M, [i \in 1..Len(C.args) |-> LinkedFor(C.args[i], versions)])
  IN  [N EXCEPT !.inlined = [i \in DOMAIN types |-> InlineArg(types[i], C.args[i])],
                !.visible = {d \in @ : d[1] # M.name} \cup {<<M.name, <<"version", n>>>>}]

\* The virtual calls of the target on a parameter whose pointer is a known address.
HostCalls(M, C, calls) ==
  {c \in calls : C.args[c.param].kind = "Ptr" /\ ~HasGlobalMapping(C.args[c.param].data)}

FirstMethod(h) == Address(h.unit, Head(Object(h.unit, h.table).slots))

\* DevirtualizeConstant::runOnFunction(): whichever function is called, the first one of
\* the table is looked up, which throws, and linked.  It is not among the passes of level 0.
DevirtualizeConstant(M, C, calls, level) ==
  IF level = 0 THEN M
  ELSE LET methods == {FirstMethod(hosts[C.args[c.param].data]) : c \in HostCalls(M, C, calls)}
       IN  IF \E a \in methods : ~HasGlobalMapping(a) THEN [M EXCEPT !.throws = TRUE]
           ELSE LinksAll(M, [i \in 1..Cardinality(methods) |-> {OfAddress(SetToSeq(methods)[i])}])

\* The variable of a unit that MapGlobals() puts behind a name.
Mapped(mapping, name) == {<<mapping, g>> : g \in {h \in CollectLocalGlobals(mapping) : Name(mapping, h) = name}}

\* What the process exports under a name.
Exported(name) ==
  UNION {{<<u, g>> : g \in {h \in Objects(u) : Object(u, h).def /\ ~Object(u, h).local /\ Name(u, h) = name}} : u \in DOMAIN units}

\* CompileAndWrap(): what a reference means, as a set of at most one address.
Resolved(M, r) ==
  LET name == Name(r[1], r[2])
  IN  {Address(o[1], o[2]) : o \in IF Mapped(M.mapping, name) # {} THEN Mapped(M.mapping, name) ELSE Exported(name)}

\* Version n of a function, from the bitcode to the code, at an optimization level.
Compile(call, C, level, versions, n) ==
  DevirtualizeConstant(InlineParameters(GetModule(call.fun), call.types, C, versions, n), C, call.virtual, level)
==============================================================================
