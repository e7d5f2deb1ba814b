--------------------------------- MODULE Jit ---------------------------------
(***************************************************************************)
(* A program that uses atJIT, from the compiler plugin to the code: its    *)
(* units register bitcode, and calls of reoptimize() find or make entries  *)
(* for what they ask, whose versions are compiled, tuned, stored and read  *)
(* back.  When a version is compiled, and by which thread, is left to      *)
(* Driver: here an entry is served at once.                                *)
(***************************************************************************)
EXTENDS Specialize

CONSTANTS
  calls,      \* the calls that the program may make, numbered
  MaxEntries, \* bounds of the model: entries made,
  MaxVersions \* and versions tuned or read back

Values(type) == -Half[type]..(Half[type] - 1)

\* What the overloads of set_param() take for a parameter.
Legal(type, arg) ==
  \/ arg.is = "placeholder" /\ arg.n \in Nat \ {0}
  \/ arg.is = "wrapper"
  \/ arg.is = "knob" /\ type = "int" /\ arg.dflt \in arg.lo..arg.hi /\ arg.lo..arg.hi \subseteq Values("int")
  \/ arg.is = "value" /\ type \in Types /\ (Integral(type) => arg.value \in Int)

ASSUME CallsAssumption ==
  \A k \in DOMAIN calls :
    /\ calls[k].types \in Seq(Types) /\ DOMAIN calls[k].args = DOMAIN calls[k].types
    /\ \A i \in DOMAIN calls[k].types : Legal(calls[k].types[i], calls[k].args[i])

\* The function is declared in the unit that calls for it; each virtual call that is
\* described is one of the function's, and the table of the object that a call passes has,
\* in that slot, a function of that type but for the receiver.
ASSUME VirtualAssumption ==
  \A k \in DOMAIN calls :
    LET c == calls[k]
    IN  /\ c.unit \in DOMAIN units /\ c.fun[2] \in Objects(c.unit) /\ Function(c.unit, c.fun[2])
        /\ c.fun = Address(c.unit, c.fun[2])
        /\ c.flow \in Seq({"loaded", "stored"} \X DOMAIN units[c.unit].ir)
        /\ \A v \in c.virtual :
             /\ Object(c.unit, c.fun[2]).def => v.type \in Object(c.unit, c.fun[2]).vloads
             /\ c.args[v.param].is = "value" =>
                  LET h == hosts[c.args[v.param].value]
                      type == Object(h.unit, Object(h.unit, h.table).slots[v.slot]).type
                  IN  /\ c.args[v.param].value \in DOMAIN hosts /\ h.unit \in DOMAIN units
                      /\ h.table \in Objects(h.unit) /\ v.slot \in DOMAIN Object(h.unit, h.table).slots
                      /\ type[1] # "none" /\ type[2] = v.type[2]

VARIABLES
  entries,  \* DriverState_: the call that made the entry, its context, its version
  versions, \* the functions that exist
  last,     \* the entry that served the last call, and the call
  ended     \* the process was terminated, or its behaviour is undefined

jitVars == <<entries, versions, last, ended>>
vars == <<tracker, jitVars>>

Nobody == [entry |-> 0]

Init == TrackerInit /\ entries = <<>> /\ versions = <<>> /\ last = Nobody /\ ended = FALSE

\* A static constructor, before main().
Construct(u) == Register(u) /\ UNCHANGED jitVars

InMain == starting = {} /\ ~ended

Context(c) == GetContextFor(c.types, c.args, c.options)

\* A call can be written: the bind is accepted, and the wrappers it passes exist.
Callable(c) ==
  /\ Accepted(c.types, c.args)
  /\ \A i \in DOMAIN c.args :
       c.args[i].is = "wrapper" => c.args[i].fun \in DOMAIN versions /\ versions[c.args[i].fun].target = c.args[i].of

\* A job that throws, a name that cannot be resolved.
Fatal(M) == M.throws \/ M.erased \/ \E r \in M.open : Resolved(M, r) = {}

\* The entries that the map finds for a key.
Found(c, C) ==
  {e \in DOMAIN entries : /\ entries[e].call.fun = c.fun
                          /\ ContextHash(entries[e].cxt) = ContextHash(C)
                          /\ ContextEquals(entries[e].cxt, C)}

\* The key is emplaced before the function is looked up, which may throw.
NewEntry(c, C) ==
  IF HasGlobalMapping(c.fun)
  THEN LET M == Compile(c, C, C.opt_level[1], versions, Len(versions) + 1)
       IN  /\ versions' = Append(versions, M)
           /\ entries' = Append(entries, [call |-> c, cxt |-> C, version |-> Len(versions) + 1])
           /\ ended' = Fatal(M)
  ELSE /\ entries' = Append(entries, [call |-> c, cxt |-> C, version |-> 0])
       /\ UNCHANGED <<versions, ended>>

\* reoptimize(), Cache::jit(): a call is served by the entry of its key.  An entry whose
\* lookup threw has nothing to serve with.
Call(c) ==
  /\ InMain /\ Callable(c)
  /\ LET C == Context(c)
     IN  \/ \E e \in Found(c, C) :
              /\ last' = [entry |-> e, call |-> c]
              /\ ended' = (entries[e].version = 0)
              /\ UNCHANGED <<entries, versions>>
         \/ Found(c, C) = {} /\ Len(entries) < MaxEntries /\ NewEntry(c, C) /\ last' = [entry |-> Len(entries) + 1, call |-> c]
  /\ UNCHANGED tracker

\* findContextKnobs(): of several copies of one knob, which share its ID, the last.
ContextKnobs(C) ==
  {i \in DOMAIN C.args : /\ C.args[i].kind = "IntRange"
                         /\ \A j \in DOMAIN C.args : j > i /\ C.args[j].kind = "IntRange" =>
                              C.args[j].data.id # C.args[i].data.id}

\* The context with its knobs at any values.
Turnings(C) ==
  LET knobs == ContextKnobs(C)
      range(i) == C.args[i].data.lo..C.args[i].data.hi
  IN  {[C EXCEPT !.args = [i \in DOMAIN C.args |->
           IF i \in knobs THEN [C.args[i] EXCEPT !.data.cur = vals[i]] ELSE C.args[i]]] :
         vals \in {f \in [knobs -> UNION {range(i) : i \in knobs}] : \A i \in knobs : f[i] \in range(i)}}

\* The optimization level is a knob of 0..3.
Levels == {0, 3}

\* Another version of an entry, as its tuner wants it.
Tune(e) ==
  /\ InMain /\ entries[e].version # 0 /\ entries[e].cxt.tuner_kind # "none" /\ Len(versions) < MaxVersions
  /\ \E C \in Turnings(entries[e].cxt), level \in Levels :
       LET M == Compile(entries[e].call, C, level, versions, Len(versions) + 1)
       IN  /\ entries' = [entries EXCEPT ![e].cxt = C, ![e].version = Len(versions) + 1]
           /\ versions' = Append(versions, M)
           /\ ended' = Fatal(M)
  /\ UNCHANGED <<last, tracker>>

\* deserialize() of what serialize() wrote of version n: the mapping is that of whichever
\* function was registered first under the name.
Reload(n) ==
  /\ InMain /\ Len(versions) < MaxVersions
  /\ LET M == [versions[n] EXCEPT !.mapping = functions[nameToAddress[versions[n].name]].unit]
     IN  versions' = Append(versions, M) /\ ended' = Fatal(M)
  /\ UNCHANGED <<entries, last, tracker>>

Next ==
  \/ \E u \in DOMAIN units : Construct(u)
  \/ \E i \in DOMAIN calls : Call(calls[i])
  \/ \E e \in DOMAIN entries : Tune(e)
  \/ \E n \in DOMAIN versions : Reload(n)

Spec == Init /\ [][Next]_vars

------------------------------------------------------------------------------
(* Properties. *)

\* Equal as requests: the sign of zero is the only thing that does not count.
SameArgument(a, b) ==
  /\ a.kind = b.kind
  /\ IF a.kind = "Float" THEN a.data # "nan" /\ (a.data = b.data \/ {a.data, b.data} = {"0", "-0"})
     ELSE IF a.kind = "IntRange"
     THEN <<a.data.lo, a.data.hi, a.data.dflt>> = <<b.data.lo, b.data.hi, b.data.dflt>>
     ELSE a.data = b.data

SameRequest(C, D) ==
  /\ C.opt_level = D.opt_level /\ C.tuner_kind = D.tuner_kind /\ DOMAIN C.args = DOMAIN D.args
  /\ \A i \in DOMAIN C.args : SameArgument(C.args[i], D.args[i])

\* Context.h and Context.cpp, the keys of both maps: however the knobs of an entry are
\* turned, it serves the requests it was made for, and no request is served by two entries.
EntryServesKey ==
  /\ \A d, e \in DOMAIN entries :
       d # e /\ entries[d].call.fun = entries[e].call.fun => ~SameRequest(entries[d].cxt, entries[e].cxt)
  /\ last # Nobody =>
       LET e == entries[last.entry]
           C == Context(last.call)
       IN  /\ e.call.fun = last.call.fun
           /\ SameRequest(e.cxt, C) \/ \E i \in DOMAIN C.args : C.args[i].kind = "Float" /\ C.args[i].data = "nan"

\* What C++ makes of a number that is passed for a parameter.
Converted(type, v) == IF type = "bool" THEN (IF v = 0 THEN 0 ELSE 1) ELSE Wrap(v, Half[type])

\* The compiled function of an entry has the type that the front end gave its wrapper.
TypesAgree ==
  \A e \in DOMAIN entries :
    GetWrapperTy(entries[e].call.types, entries[e].cxt)
      = MapPlaceholderToType(entries[e].call.types, entries[e].call.args)

\* InlineParameters.cpp 23-83 against meta.h 136-182 and what std::bind would do: the
\* compiled function has the type that the front end gave its wrapper, and passes to each
\* parameter what the call bound to it.  The exception is a bool, of whose number only the
\* lowest bit is left: an even number other than 0 arrives as false.
CallsBindAlike ==
  TypesAgree /\ \A e \in DOMAIN entries : entries[e].version # 0 =>
    LET types == entries[e].call.types
        args == entries[e].call.args
        inlined == versions[entries[e].version].inlined
    IN  \A i \in DOMAIN types :
          CASE args[i].is = "placeholder" -> inlined[i] = Argument("Forward", args[i].n - 1)
            [] args[i].is = "knob" -> inlined[i].data \in args[i].lo..args[i].hi
            [] args[i].is = "value" /\ Integral(types[i]) ->
                 (inlined[i].data = Converted(types[i], args[i].value))
                   <=> ~(types[i] = "bool" /\ args[i].value # 0 /\ args[i].value % 2 = 0)
            [] OTHER -> TRUE

\* Two things of the program that have the name of r.
NameShared(r) ==
  \E u \in DOMAIN units : \E g \in Objects(u) :
    Name(u, g) = Name(r[1], r[2]) /\ Address(u, g) # Address(r[1], r[2])

\* r is a function that a version was made from.
Specialized(r) == \E n \in DOMAIN versions : versions[n].target = Address(r[1], r[2])

ForeignLocal(M, r) == r[1] # M.mapping /\ r[2] \in CollectLocalGlobals(r[1])

\* Easy.cpp 275-303 and 427-470, Function.cpp 59-63, InlineParameters.cpp 88-118: code
\* moves to another module, yet what it refers to is what it referred to in its unit, or a
\* copy of that if it cannot change.  It can be something else only when two things have
\* one name, a function and its versions among them, and nothing at all only when it is a
\* local variable of a unit other than the one whose mapping is used.
ResolvesOriginals ==
  \A n \in DOMAIN versions :
    LET M == versions[n]
    IN  /\ \A b \in M.bound :
             LET r == b[1]
             IN  \/ b[2][1] = "version" /\ (Specialized(r) \/ NameShared(r))
                 \/ /\ b[2][1] # "version"
                    /\ Address(b[2][1], b[2][2]) = Address(r[1], r[2]) \/ NameShared(r)
                    /\ IsConstant(b[2][1], b[2][2]) \/ b[2][2] \in units[b[2][1]].export
        /\ \A r \in M.open :
             \/ Resolved(M, r) = {Address(r[1], r[2])}
             \/ Resolved(M, r) # {} /\ NameShared(r)
             \/ Resolved(M, r) = {} /\ ForeignLocal(M, r)

\* A method of exactly the type that c calls is in a table of the unit: it is not pure.
MethodKnown(u, type) ==
  \E t \in Objects(u) : Object(u, t).def /\ \E f \in ToSet(Object(u, t).slots) : Object(u, f).type = type

\* The function is what a value that is passed to jit() may be: c.flow goes from the one to
\* the other, through variables, arrays and constants but not through a load.
FlowsToJit(c) ==
  /\ c.flow # <<>> /\ c.flow[1] \in {"loaded"} \X units[c.unit].jit
  /\ \A i \in 1..(Len(c.flow) - 1) : c.flow[i + 1] \in Follow(units[c.unit].ir, {c.flow[i]})
  /\ c.flow[Len(c.flow)][2] = c.fun[2]

\* Easy.cpp 105-252 with BitcodeTracker.cpp 29-41 and DevirtualizeConstant.cpp 47-53: what
\* the plugin marks in a unit is enough at run time.  A function that flows to jit() is
\* found, however long the way, unless the unit only declares it; and so is the first
\* method of an object's class, if the unit has it, when it overrides a method that the
\* function calls.
FindsBitcode ==
  starting = {} => \A k \in DOMAIN calls :
    LET c == calls[k]
    IN  FlowsToJit(c) /\ Object(c.unit, c.fun[2]).def =>
          /\ HasGlobalMapping(c.fun)
          /\ \A v \in c.virtual :
               LET h == hosts[c.args[v.param].value]
               IN  /\ c.args[v.param].is = "value" /\ v.slot = 1
                   /\ h.unit = c.unit /\ MethodKnown(c.unit, v.type)
                   /\ Object(c.unit, Head(Object(c.unit, h.table).slots)).def
                   => HasGlobalMapping(FirstMethod(h))
=============================================================================
