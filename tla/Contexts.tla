------------------------------ MODULE Contexts ------------------------------
(***************************************************************************)
(* easy::Context: what a call of jit() or reoptimize() asks for, and when  *)
(* two calls ask for the same.                                             *)
(*                                                                         *)
(* The user's arguments are records with a field is: a placeholder, a      *)
(* wrapper (a function compiled before), a knob, or a value for a          *)
(* parameter of some type.  Integers have few values, floating point       *)
(* numbers are "0", "-0", "1" and "nan".                                   *)
(***************************************************************************)
EXTENDS Integers, Sequences, SequencesExt

CONSTANT Half \* 2 ^ (width - 1) of each integral type; "int64" is that of IntArgument

ASSUME HalfAssumption ==
  /\ {"bool", "int", "int64"} \subseteq DOMAIN Half /\ Half["bool"] = 1
  /\ DOMAIN Half \cap {"double", "pointer", "struct"} = {}
  /\ \A t \in DOMAIN Half : Half[t] \in Nat \ {0} /\ Half["int64"] % Half[t] = 0

Integral(type) == type \in DOMAIN Half

Types == DOMAIN Half \cup {"double", "pointer", "struct"}

\* v in two's complement.
Wrap(v, half) == ((v + half) % (2 * half)) - half

Argument(kind, data) == [kind |-> kind, data |-> data]

\* setTunableParam() copies the knob, with its ID; cur is its value.
TunableParam(knob) == [lo |-> knob.lo, hi |-> knob.hi, dflt |-> knob.dflt, id |-> knob.id, cur |-> knob.dflt]

\* set_param(): what becomes of the user's argument for a parameter of a type.
SetParam(type, arg) ==
  CASE arg.is = "placeholder" -> Argument("Forward", arg.n - 1)
    [] arg.is = "wrapper" -> Argument("Module", arg.fun)
    [] arg.is = "knob" -> Argument("IntRange", TunableParam(arg))
    [] arg.is = "value" /\ Integral(type) -> Argument("Int", Wrap(arg.value, Half["int64"]))
    [] arg.is = "value" /\ type = "double" -> Argument("Float", arg.value)
    [] arg.is = "value" /\ type = "pointer" -> Argument("Ptr", arg.value)
    [] arg.is = "value" /\ type = "struct" -> Argument("Struct", arg.value)

\* set_options(): each option handles its part of the context, later ones last, so the
\* last one of a kind counts.
Chosen(options, part, dflt) ==
  LET of == {i \in DOMAIN options : options[i].is = part}
  IN  IF of = {} THEN dflt ELSE options[CHOOSE i \in of : \A j \in of : j <= i].value

\* get_context_for(): the parameters of the function, and the options.
GetContextFor(types, args, options) ==
  [args |-> [i \in DOMAIN types |-> SetParam(types[i], args[i])],
   opt_level |-> Chosen(options, "opt_level", <<3, 0>>),
   tuner_kind |-> Chosen(options, "tuner_kind", "none"),
   feedback_kind |-> Chosen(options, "feedback_kind", "none"),
   blocking |-> Chosen(options, "blocking", FALSE)]

------------------------------------------------------------------------------
(* Equality and hashing.  ^ is modelled as the set of what occurs an odd    *)
(* number of times.                                                         *)

Xor(hashes) == {h \in ToSet(hashes) : Cardinality({i \in DOMAIN hashes : hashes[i] = h}) % 2 = 1}

FloatEquals(x, y) == x # "nan" /\ y # "nan" /\ (x = y \/ {x, y} \subseteq {"0", "-0"})

\* Seeded fault in IntRangeEquals: the value that the tuner sets counts.
IntRangeEqualsNow(x, y) == x = y

\* ScalarRange's ==: neither the value nor the ID counts.
IntRangeEquals(x, y) == x.lo = y.lo /\ x.hi = y.hi /\ x.dflt = y.dflt

ArgumentEquals(a, b) ==
  /\ a.kind = b.kind
  /\ a.kind = "Float" => FloatEquals(a.data, b.data)
  /\ a.kind = "IntRange" => IntRangeEquals(a.data, b.data)
  /\ a.kind \notin {"Float", "IntRange"} => a.data = b.data

ArgumentHash(a) ==
  CASE a.kind = "Float" -> <<"double", IF a.data = "-0" THEN "0" ELSE a.data>>
    [] a.kind = "IntRange" -> <<"range", Xor(<<a.data.hi, a.data.lo, a.data.dflt>>)>>
    [] a.kind = "Struct" -> <<"bytes", Xor(a.data)>>
    [] a.kind = "Ptr" -> <<"pointer", a.data>>
    [] a.kind = "Module" -> <<"module", a.data>>
    [] a.kind \in {"Int", "Forward"} -> <<"number", a.data>>

\* "they are blind to these options": feedback_kind and blocking.
ContextEquals(C, D) ==
  /\ C.opt_level = D.opt_level
  /\ DOMAIN C.args = DOMAIN D.args
  /\ C.tuner_kind = D.tuner_kind
  /\ \A i \in DOMAIN C.args : ArgumentEquals(C.args[i], D.args[i])

ContextHash(C) ==
  Xor([i \in DOMAIN C.args |-> ArgumentHash(C.args[i])]
        \o << <<"tuner", C.tuner_kind>>, <<"levels", Xor(C.opt_level)>> >>)

------------------------------------------------------------------------------
(* The type of the specialized function. *)

Placeholders(args) == {i \in DOMAIN args : args[i].is = "placeholder"}

\* map_placeholder_to_type, at compile time: the parameter that each placeholder meets
\* first.  The walk ends when it has seen as many as the greatest number.
Seen(args) == {args[i].n : i \in Placeholders(args)}

Greatest(S) == CHOOSE n \in S : \A m \in S : m <= n

MaxPlaceholder(args) == Greatest({0} \cup Seen(args))

\* The front end rejects every other bind.
Accepted(types, args) == Len(args) = Len(types) /\ Seen(args) = 1..MaxPlaceholder(args)

First(S) == CHOOSE i \in S : \A j \in S : i <= j

MapPlaceholderToType(types, args) ==
  [n \in 1..MaxPlaceholder(args) |-> types[First({i \in Placeholders(args) : args[i].n = n})]]

Forwards(C) == {i \in DOMAIN C.args : C.args[i].kind = "Forward"}

\* GetNewArgCount(), at run time, from the context
GetNewArgCount(C) == Greatest({0} \cup {C.args[i].data + 1 : i \in Forwards(C)})

\* Seeded fault in GetWrapperTy: the last parameter decides.
GetLastTy(types, C) ==
  [n \in 1..GetNewArgCount(C) |-> types[CHOOSE i \in Forwards(C) :
     C.args[i].data + 1 = n /\ \A j \in Forwards(C) : C.args[j].data + 1 = n => j <= i]]

GetWrapperTy(types, C) ==
  [n \in 1..GetNewArgCount(C) |-> types[First({i \in Forwards(C) : C.args[i].data + 1 = n})]]
=============================================================================
