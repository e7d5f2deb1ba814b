--------------------------- MODULE RegisterBitcode ---------------------------
(***************************************************************************)
(* easy::RegisterBitcode, the pass that clang runs at the end of each      *)
(* unit: which functions and variables get their bitcode embedded, what    *)
(* the bitcode holds, and which variables of the unit it can be tied to.   *)
(*                                                                         *)
(* unit.objs maps each function and global variable to                     *)
(*   fun, def, local, const, named : BOOLEAN,                              *)
(*   refs   : what its instructions or its initializer refer to,           *)
(*   type   : its receiver and the rest of its type, if it is a function,  *)
(*   slots  : its functions, if it is a table of virtual functions of one  *)
(*            base,                                                        *)
(*   vloads : the types of the virtual functions that it calls.            *)
(* unit.ir is the graph of values, unit.jit the values passed to jit() and *)
(* its kin, unit.export what -easy-export matches.                         *)
(***************************************************************************)
EXTENDS MayAliasTracer, Sequences, SequencesExt

CONSTANT units \* the program: unit names to units

Objects(u) == DOMAIN units[u].objs
Object(u, g) == units[u].objs[g]
Function(u, g) == Object(u, g).fun

IsConstant(u, g) == Function(u, g) \/ Object(u, g).const

DeduceObjectsToJIT(u) ==
  {g \in Objects(u) : IsConstant(u, g) /\ \E v \in units[u].jit : g \in Traced(units[u].ir, v)}

\* regexFunctionsToJIT(): constant or not.
RegexFunctionsToJIT(u) == units[u].export

\* The type of each virtual function that a function marked so far loads from a table.
VirtualMethodTys(u, marked) == UNION {Object(u, f).vloads : f \in {g \in marked : Function(u, g)}}

\* mayBeOverload(): the same type but for the receiver.  That f is in a table is given.
MayBeOverload(u, overload, f) ==
  /\ overload # f /\ Function(u, overload)
  /\ Object(u, overload).type[1] # "none"
  /\ Object(u, overload).type[2] = Object(u, f).type[2]

\* Seeded fault in DeduceVirtualMethodsToJIT: overloads are not looked for.
DeduceExactMethods(u, marked) ==
  LET tables == {g \in Objects(u) : Object(u, g).slots # <<>> /\ Object(u, g).def}
  IN  {f \in UNION {ToSet(Object(u, t).slots) : t \in tables} : Object(u, f).type \in VirtualMethodTys(u, marked)}

DeduceVirtualMethodsToJIT(u, marked) ==
  LET tables == {g \in Objects(u) : Object(u, g).slots # <<>> /\ Object(u, g).def}
      methods == {f \in UNION {ToSet(Object(u, t).slots) : t \in tables} :
                    Object(u, f).type \in VirtualMethodTys(u, marked)}
  IN  methods \cup {g \in Objects(u) : \E f \in methods : MayBeOverload(u, g, f)}

\* collectObjectsToJIT(): the mark, a section, is dropped; declarations are left out.
CollectObjectsToJIT(u) ==
  LET marked == DeduceObjectsToJIT(u) \cup RegexFunctionsToJIT(u)
  IN  {g \in marked \cup DeduceVirtualMethodsToJIT(u, marked) : Object(u, g).def}

\* nameGlobals(): the name in every unit of a local variable that has none.
Name(u, g) == IF Object(u, g).named THEN g ELSE "unnamed_local_global"

\* Seeded fault in CollectLocalGlobals: what needs a name first is forgotten.
CollectNamedGlobals(u) == {g \in Objects(u) : ~Function(u, g) /\ Object(u, g).local /\ Object(u, g).named}

\* collectLocalGlobals(): the entries of getGlobalMapping(), names to addresses.
CollectLocalGlobals(u) == {g \in Objects(u) : ~Function(u, g) /\ Object(u, g).local}

\* getReferencedFromEntry(): the functions among all that the entry refers to, directly
\* or through other functions and initializers.
GetReferencedFromEntry(u, entry) ==
  LET visited[n \in 0..Cardinality(Objects(u))] ==
        IF n = 0 THEN {entry}
        ELSE LET before == visited[n - 1]
             IN  before \cup UNION {Object(u, g).refs : g \in {h \in before : Object(u, h).def}}
  IN  {g \in visited[Cardinality(Objects(u))] : Function(u, g)}

\* embedBitcode(), cleanModule(), fixLinkages(): the module keeps the entry and the
\* functions it needs, private but for the entry; every variable but the entry becomes an
\* external declaration, even if it was local.  These are the names left to resolve.
Kept(u, entry) == {g \in GetReferencedFromEntry(u, entry) \cup {entry} : Object(u, g).def}

Declared(u, entry) == (UNION {Object(u, g).refs : g \in Kept(u, entry)}) \ Kept(u, entry)

\* What other modules can see of a module: its entry, and the functions of a variable's
\* module, whose linkage stays as the extraction leaves it.
Exposed(u, entry) == IF Function(u, entry) THEN {entry} ELSE Kept(u, entry)

\* What the process knows an object by.
Address(u, g) == IF Object(u, g).local THEN <<u, g>> ELSE <<"exported", g>>

\* A program that compiles and links: what is local to a unit is defined in it, what is
\* not is defined somewhere, tables hold functions, and code refers to what its unit declares;
\* the graph of values is finite.
ASSUME ProgramAssumption ==
  /\ IsFiniteSet(DOMAIN units) /\ "version" \notin DOMAIN units
  /\ \A u \in DOMAIN units :
       /\ IsFiniteSet(Objects(u)) /\ units[u].export \subseteq Objects(u)
       /\ IsFiniteSet(DOMAIN units[u].ir) /\ units[u].jit \subseteq DOMAIN units[u].ir
       /\ \A v \in DOMAIN units[u].ir : units[u].ir[v].from \subseteq DOMAIN units[u].ir
       /\ \A g \in Objects(u) :
            /\ Object(u, g).refs \subseteq Objects(u)
            /\ Object(u, g).slots \in Seq({f \in Objects(u) : Function(u, f)})
            /\ IF Object(u, g).local THEN Object(u, g).def
               ELSE \E w \in DOMAIN units : \E h \in Objects(w) :
                      Object(w, h).def /\ ~Object(w, h).local /\ Name(w, h) = Name(u, g)
==============================================================================
