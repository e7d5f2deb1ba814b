------------------------------- MODULE JitProofs -------------------------------
(***************************************************************************)
(* Theorems about Contexts and Jit: an entry of the maps serves the        *)
(* requests that it was made for, the compiler plugin and the compiler     *)
(* agree on the type of a specialized function, its code passes on what    *)
(* the call bound, and refers to what its source referred to; and what a   *)
(* call needs was registered before main() began.                          *)
(***************************************************************************)
EXTENDS Jit, Recursion, SequenceTheorems, FiniteSetTheorems, TLAPS

------------------------------------------------------------------------------
(* Arguments and contexts.                                                    *)

IsArgument(a) ==
  /\ a = [kind |-> a.kind, data |-> a.data]
  /\ a.kind = "IntRange" =>
       a.data = [lo |-> a.data.lo, hi |-> a.data.hi, dflt |-> a.data.dflt, id |-> a.data.id, cur |-> a.data.cur]

IsContext(C) ==
  /\ C = [args |-> C.args, opt_level |-> C.opt_level, tuner_kind |-> C.tuner_kind,
          feedback_kind |-> C.feedback_kind, blocking |-> C.blocking]
  /\ C.args = [i \in DOMAIN C.args |-> C.args[i]]
  /\ \A i \in DOMAIN C.args : IsArgument(C.args[i])

\* Arguments that the map distinguishes were different requests, and the hash follows.
LEMMA SameArgumentEquals ==
  ASSUME NEW a, NEW b, SameArgument(a, b)
  PROVE  ArgumentEquals(a, b) /\ ArgumentHash(a) = ArgumentHash(b)
<1>1. CASE a.kind = "Float"
  BY <1>1 DEF SameArgument, ArgumentEquals, ArgumentHash, FloatEquals
<1>2. CASE a.kind = "IntRange"
  BY <1>2 DEF SameArgument, ArgumentEquals, ArgumentHash, IntRangeEquals
<1>3. CASE a.kind \notin {"Float", "IntRange"}
  BY <1>3 DEF SameArgument, ArgumentEquals, ArgumentHash
<1>4. QED BY <1>1, <1>2, <1>3

\* Arguments that the map takes for equal are the same request.
LEMMA EqualArgumentSame ==
  ASSUME NEW a, NEW b, ArgumentEquals(a, b)
  PROVE  SameArgument(a, b)
BY DEF ArgumentEquals, SameArgument, FloatEquals, IntRangeEquals

LEMMA SameRequestEquals ==
  ASSUME NEW C, NEW D, SameRequest(C, D)
  PROVE  ContextEquals(C, D) /\ ContextHash(C) = ContextHash(D)
<1>1. \A i \in DOMAIN C.args : /\ ArgumentEquals(C.args[i], D.args[i])
                               /\ ArgumentHash(C.args[i]) = ArgumentHash(D.args[i])
  BY SameArgumentEquals DEF SameRequest
<1>2. [i \in DOMAIN C.args |-> ArgumentHash(C.args[i])] = [i \in DOMAIN D.args |-> ArgumentHash(D.args[i])]
  BY <1>1 DEF SameRequest
<1>3. ContextHash(C) = ContextHash(D)
  BY <1>2 DEF ContextHash, SameRequest
<1>4. QED BY <1>1, <1>3 DEF ContextEquals, SameRequest

LEMMA EqualContextSame ==
  ASSUME NEW C, NEW D, ContextEquals(C, D)
  PROVE  SameRequest(C, D)
BY EqualArgumentSame DEF ContextEquals, SameRequest

LEMMA SameArgumentSymmetric ==
  ASSUME NEW a, NEW b, SameArgument(a, b)
  PROVE  SameArgument(b, a)
BY DEF SameArgument

LEMMA SameRequestSymmetric ==
  ASSUME NEW C, NEW D, SameRequest(C, D)
  PROVE  SameRequest(D, C)
BY SameArgumentSymmetric DEF SameRequest

\* C passes a NaN, which equals nothing.
Undefined(C) == \E i \in DOMAIN C.args : C.args[i].kind = "Float" /\ C.args[i].data = "nan"

LEMMA SameRequestReflexive ==
  ASSUME NEW C, ~Undefined(C)
  PROVE  SameRequest(C, C)
BY DEF SameRequest, SameArgument, Undefined

------------------------------------------------------------------------------
(* A tuner turns knobs, which no request tells apart.                         *)

\* D is C with its knobs turned.
Turned(C, D) ==
  /\ D.opt_level = C.opt_level /\ D.tuner_kind = C.tuner_kind /\ DOMAIN D.args = DOMAIN C.args
  /\ \A i \in DOMAIN C.args :
       /\ D.args[i].kind = C.args[i].kind
       /\ C.args[i].kind # "IntRange" => D.args[i] = C.args[i]
       /\ C.args[i].kind = "IntRange" =>
            /\ D.args[i].data.lo = C.args[i].data.lo
            /\ D.args[i].data.hi = C.args[i].data.hi
            /\ D.args[i].data.dflt = C.args[i].data.dflt

LEMMA TurningsTurn ==
  ASSUME NEW C, IsContext(C), NEW D \in Turnings(C)
  PROVE  IsContext(D) /\ Turned(C, D)
<1> DEFINE value(vals, i) == IF i \in ContextKnobs(C) THEN [C.args[i] EXCEPT !.data.cur = vals[i]] ELSE C.args[i]
<1>1. PICK vals : D = [C EXCEPT !.args = [i \in DOMAIN C.args |-> value(vals, i)]]
  BY DEF Turnings
<1>2. /\ D.args = [i \in DOMAIN C.args |-> value(vals, i)]
      /\ D.opt_level = C.opt_level /\ D.tuner_kind = C.tuner_kind
      /\ D = [args |-> D.args, opt_level |-> D.opt_level, tuner_kind |-> D.tuner_kind,
              feedback_kind |-> D.feedback_kind, blocking |-> D.blocking]
  BY <1>1 DEF IsContext
<1>3. ASSUME NEW i \in DOMAIN C.args
      PROVE  /\ IsArgument(D.args[i]) /\ D.args[i].kind = C.args[i].kind
             /\ C.args[i].kind # "IntRange" => D.args[i] = C.args[i]
             /\ C.args[i].kind = "IntRange" =>
                  /\ D.args[i].data.lo = C.args[i].data.lo
                  /\ D.args[i].data.hi = C.args[i].data.hi
                  /\ D.args[i].data.dflt = C.args[i].data.dflt
  <2>1. IsArgument(C.args[i]) /\ D.args[i] = value(vals, i)
    BY <1>2, <1>3 DEF IsContext
  <2>2. CASE i \in ContextKnobs(C)
    <3>1. C.args[i].kind = "IntRange"
      BY <2>2 DEF ContextKnobs
    <3>2. D.args[i] = [C.args[i] EXCEPT !.data = [C.args[i].data EXCEPT !.cur = vals[i]]]
      BY <2>1, <2>2
    <3>3. D.args[i] = [kind |-> "IntRange", data |-> [C.args[i].data EXCEPT !.cur = vals[i]]]
      BY <2>1, <3>1, <3>2 DEF IsArgument
    <3>4. [C.args[i].data EXCEPT !.cur = vals[i]]
            = [lo |-> C.args[i].data.lo, hi |-> C.args[i].data.hi, dflt |-> C.args[i].data.dflt,
               id |-> C.args[i].data.id, cur |-> vals[i]]
      BY <2>1, <3>1 DEF IsArgument
    <3>5. QED BY <3>1, <3>3, <3>4 DEF IsArgument
  <2>3. CASE i \notin ContextKnobs(C)
    BY <2>1, <2>3
  <2>4. QED BY <2>2, <2>3
<1>4. QED BY <1>2, <1>3 DEF IsContext, Turned

LEMMA TurnedSame ==
  ASSUME NEW C, NEW D, Turned(C, D), NEW X
  PROVE  /\ SameRequest(C, X) <=> SameRequest(D, X)
         /\ SameRequest(X, C) <=> SameRequest(X, D)
<1>1. ASSUME NEW i \in DOMAIN C.args, NEW a
      PROVE  /\ SameArgument(C.args[i], a) <=> SameArgument(D.args[i], a)
             /\ SameArgument(a, C.args[i]) <=> SameArgument(a, D.args[i])
  BY DEF Turned, SameArgument
<1>2. QED BY <1>1 DEF Turned, SameRequest

------------------------------------------------------------------------------
(* The entries.                                                               *)

LEMMA SetParamShape ==
  ASSUME NEW type, NEW arg, Legal(type, arg)
  PROVE  IsArgument(SetParam(type, arg))
<1>1. CASE arg.is = "placeholder"
  BY <1>1 DEF SetParam, Argument, IsArgument
<1>2. CASE arg.is = "wrapper"
  BY <1>2 DEF SetParam, Argument, IsArgument
<1>3. CASE arg.is = "knob"
  BY <1>3 DEF SetParam, Argument, IsArgument, TunableParam
<1>4. CASE arg.is = "value"
  <2>1. Integral(type) \/ type \in {"double", "pointer", "struct"}
    BY <1>4 DEF Legal, Types, Integral
  <2>2. \/ SetParam(type, arg) = Argument("Int", Wrap(arg.value, Half["int64"]))
        \/ SetParam(type, arg) = Argument("Float", arg.value)
        \/ SetParam(type, arg) = Argument("Ptr", arg.value)
        \/ SetParam(type, arg) = Argument("Struct", arg.value)
    BY <1>4, <2>1 DEF SetParam
  <2>3. QED BY <2>2 DEF Argument, IsArgument
<1>5. QED BY <1>1, <1>2, <1>3, <1>4 DEF Legal

LEMMA ContextShape ==
  ASSUME NEW k \in DOMAIN calls
  PROVE  IsContext(Context(calls[k]))
BY SetParamShape, CallsAssumption DEF Context, GetContextFor, IsContext

\* The entry e serves the call c.
Serves(e, c) ==
  /\ e.call.fun = c.fun
  /\ SameRequest(e.cxt, Context(c)) \/ Undefined(Context(c))

IsEntry(e) == e = [call |-> e.call, cxt |-> e.cxt, version |-> e.version] /\ IsContext(e.cxt)

\* The conjuncts of EntryServesKey, and the shape of the entries, which it needs.
EntriesShape == (\E S : entries \in Seq(S)) /\ \A e \in DOMAIN entries : IsEntry(entries[e])

EntriesApart ==
  \A d, e \in DOMAIN entries :
    d # e /\ entries[d].call.fun = entries[e].call.fun => ~SameRequest(entries[d].cxt, entries[e].cxt)

LastServed == last # Nobody => last.entry \in DOMAIN entries /\ Serves(entries[last.entry], last.call)

JInv == EntriesShape /\ EntriesApart /\ LastServed

LEMMA JInit == Init => JInv
<1> SUFFICES ASSUME Init PROVE JInv
  OBVIOUS
<1>1. entries \in Seq({}) /\ DOMAIN entries = {}
  BY DEF Init
<1>2. QED BY <1>1 DEF Init, JInv, EntriesShape, EntriesApart, LastServed

\* A call that finds an entry is served by one that is the same request.
LEMMA FoundServes ==
  ASSUME NEW c, NEW e \in Found(c, Context(c))
  PROVE  e \in DOMAIN entries /\ Serves(entries[e], c)
BY EqualContextSame DEF Found, Serves

\* A call that finds none is like no entry of its function.
LEMMA NoneFound ==
  ASSUME NEW c, Found(c, Context(c)) = {}, NEW e \in DOMAIN entries, entries[e].call.fun = c.fun
  PROVE  ~SameRequest(entries[e].cxt, Context(c)) /\ ~SameRequest(Context(c), entries[e].cxt)
BY SameRequestEquals, SameRequestSymmetric DEF Found

LEMMA AppendedEntry ==
  ASSUME EntriesShape, NEW new, entries' = Append(entries, new)
  PROVE  /\ DOMAIN entries' = DOMAIN entries \cup {Len(entries) + 1}
         /\ Len(entries) + 1 \notin DOMAIN entries
         /\ entries'[Len(entries) + 1] = new
         /\ \A e \in DOMAIN entries : entries'[e] = entries[e]
         /\ \E S : entries' \in Seq(S)
<1>1. PICK S : entries \in Seq(S)
  BY DEF EntriesShape
<1>2. entries \in Seq(S \cup {new}) /\ entries' \in Seq(S \cup {new})
  BY <1>1
<1>3. QED BY <1>1, <1>2

LEMMA CallPreserves ==
  ASSUME JInv, NEW k \in DOMAIN calls, Call(calls[k])
  PROVE  JInv'
<1> DEFINE c == calls[k]
           C == Context(c)
<1>1. ASSUME NEW e \in Found(c, C), last' = [entry |-> e, call |-> c], UNCHANGED entries
      PROVE  JInv'
  <2>1. LastServed'
    BY <1>1, FoundServes DEF LastServed, Serves
  <2>2. EntriesShape' /\ EntriesApart'
    BY <1>1 DEF JInv, EntriesShape, EntriesApart
  <2>3. QED BY <2>1, <2>2 DEF JInv
<1>2. ASSUME Found(c, C) = {}, NewEntry(c, C), last' = [entry |-> Len(entries) + 1, call |-> c]
      PROVE  JInv'
  <2>1. PICK new : /\ entries' = Append(entries, new) /\ new.call = c /\ new.cxt = C
                   /\ new = [call |-> new.call, cxt |-> new.cxt, version |-> new.version]
    BY <1>2 DEF NewEntry
  <2>2. /\ DOMAIN entries' = DOMAIN entries \cup {Len(entries) + 1}
        /\ Len(entries) + 1 \notin DOMAIN entries
        /\ entries'[Len(entries) + 1] = new
        /\ \A e \in DOMAIN entries : entries'[e] = entries[e]
        /\ \E S : entries' \in Seq(S)
    BY <2>1, AppendedEntry DEF JInv
  <2>3. EntriesShape'
    <3>1. IsEntry(new)
      BY <2>1, ContextShape DEF IsEntry
    <3>2. QED BY <2>2, <3>1 DEF JInv, EntriesShape
  <2>4. EntriesApart'
    BY <1>2, <2>1, <2>2, NoneFound DEF JInv, EntriesApart
  <2>5. LastServed'
    BY <1>2, <2>1, <2>2, SameRequestReflexive DEF LastServed, Serves
  <2>6. QED BY <2>3, <2>4, <2>5 DEF JInv
<1>3. QED BY <1>1, <1>2 DEF Call

LEMMA TunePreserves ==
  ASSUME JInv, NEW t \in DOMAIN entries, Tune(t)
  PROVE  JInv'
<1>1. PICK D \in Turnings(entries[t].cxt) :
        entries' = [entries EXCEPT ![t].cxt = D, ![t].version = Len(versions) + 1]
  BY DEF Tune
<1>2. IsEntry(entries[t]) /\ IsContext(D) /\ Turned(entries[t].cxt, D)
  BY <1>1, TurningsTurn DEF JInv, EntriesShape, IsEntry
<1> DEFINE new == [call |-> entries[t].call, cxt |-> D, version |-> Len(versions) + 1]
<1>3. /\ DOMAIN entries' = DOMAIN entries
      /\ entries'[t] = new
      /\ \A e \in DOMAIN entries : e # t => entries'[e] = entries[e]
  BY <1>1, <1>2 DEF IsEntry
<1>4. EntriesShape'
  <2>1. PICK S : entries \in Seq(S)
    BY DEF JInv, EntriesShape
  <2>2. entries' \in Seq(S \cup {new})
    <3>1. Len(entries) \in Nat /\ DOMAIN entries = 1..Len(entries) /\ \A e \in DOMAIN entries : entries[e] \in S
      BY <2>1
    <3>2. entries' = [e \in DOMAIN entries |-> entries'[e]]
      BY <1>1
    <3>3. entries' \in [1..Len(entries) -> S \cup {new}]
      <4>1. \A e \in DOMAIN entries : entries'[e] \in S \cup {new}
        BY <1>3, <3>1
      <4>2. QED BY <3>1, <3>2, <4>1
    <3>4. QED BY <3>1, <3>3, SeqDef
  <2>3. IsEntry(new)
    BY <1>2 DEF IsEntry
  <2>4. QED BY <1>3, <2>2, <2>3 DEF JInv, EntriesShape
<1>5. \A e \in DOMAIN entries :
        /\ entries'[e].call = entries[e].call
        /\ \A X : /\ SameRequest(entries'[e].cxt, X) <=> SameRequest(entries[e].cxt, X)
                  /\ SameRequest(X, entries'[e].cxt) <=> SameRequest(X, entries[e].cxt)
  BY <1>2, <1>3, TurnedSame
<1>6. EntriesApart'
  <2>1. ASSUME NEW d \in DOMAIN entries, NEW e \in DOMAIN entries, d # e,
               entries'[d].call.fun = entries'[e].call.fun
        PROVE  ~SameRequest(entries'[d].cxt, entries'[e].cxt)
    <3>1. ~SameRequest(entries[d].cxt, entries[e].cxt)
      BY <1>5, <2>1 DEF JInv, EntriesApart
    <3>2. ~SameRequest(entries[d].cxt, entries'[e].cxt)
      BY <1>5, <3>1
    <3>3. QED BY <1>5, <3>2
  <2>2. QED BY <1>3, <2>1 DEF EntriesApart
<1>7. LastServed'
  <2>1. UNCHANGED last
    BY DEF Tune
  <2>2. QED BY <1>3, <1>5, <2>1 DEF JInv, LastServed, Serves
<1>8. QED BY <1>4, <1>6, <1>7 DEF JInv

LEMMA JStep == JInv /\ [Next]_vars => JInv'
<1> SUFFICES ASSUME JInv, [Next]_vars PROVE JInv'
  OBVIOUS
<1>1. ASSUME UNCHANGED <<entries, last>> PROVE JInv'
  BY <1>1 DEF JInv, EntriesShape, EntriesApart, LastServed
<1>2. ASSUME NEW u \in DOMAIN units, Construct(u) PROVE JInv'
  BY <1>1, <1>2 DEF Construct, jitVars
<1>3. ASSUME NEW n \in DOMAIN versions, Reload(n) PROVE JInv'
  BY <1>1, <1>3 DEF Reload
<1>4. CASE UNCHANGED vars
  BY <1>1, <1>4 DEF vars, jitVars
<1>5. QED BY <1>2, <1>3, <1>4, CallPreserves, TunePreserves DEF Next

LEMMA JInvImplies == JInv => EntryServesKey
BY DEF JInv, EntriesApart, LastServed, Serves, EntryServesKey, Undefined

\* In every program, and with any number of entries and of versions, an entry serves the
\* requests that it was made for, and no request is served by two.
THEOREM EntriesServe == Spec => []EntryServesKey
<1>1. Spec => []JInv
  BY JInit, JStep, PTL DEF Spec
<1>2. QED BY <1>1, JInvImplies, PTL

------------------------------------------------------------------------------
(* The type of the specialized function, which the compiler plugin takes from *)
(* the arguments and the compiler from the context.                           *)

\* The context has a Forward argument where the call has a placeholder, of that number.
Mirrors(C, args) ==
  /\ DOMAIN C.args = DOMAIN args
  /\ \A i \in DOMAIN args :
       /\ C.args[i].kind = "Forward" <=> args[i].is = "placeholder"
       /\ args[i].is = "placeholder" => args[i].n \in Nat \ {0} /\ C.args[i].data = args[i].n - 1

LEMMA ContextMirrors ==
  ASSUME NEW k \in DOMAIN calls
  PROVE  Mirrors(Context(calls[k]), calls[k].args)
<1> DEFINE c == calls[k]
<1>1. Context(c).args = [i \in DOMAIN c.types |-> SetParam(c.types[i], c.args[i])] /\ DOMAIN c.types = DOMAIN c.args
  BY CallsAssumption DEF Context, GetContextFor
<1>2. ASSUME NEW i \in DOMAIN c.args
      PROVE  /\ Context(c).args[i].kind = "Forward" <=> c.args[i].is = "placeholder"
             /\ c.args[i].is = "placeholder" => c.args[i].n \in Nat \ {0} /\ Context(c).args[i].data = c.args[i].n - 1
  <2> DEFINE type == c.types[i]
             arg == c.args[i]
  <2>1. Legal(type, arg) /\ Context(c).args[i] = SetParam(type, arg)
    BY <1>1, CallsAssumption
  <2>2. CASE arg.is = "placeholder"
    <3>1. SetParam(type, arg) = Argument("Forward", arg.n - 1)
      BY <2>2 DEF SetParam
    <3>2. QED BY <2>1, <2>2, <3>1 DEF Argument, Legal
  <2>3. CASE arg.is = "wrapper" \/ arg.is = "knob"
    <3>1. SetParam(type, arg).kind \in {"Module", "IntRange"}
      BY <2>3 DEF SetParam, Argument
    <3>2. QED BY <2>1, <2>3, <3>1
  <2>4. CASE arg.is = "value"
    <3>1. Integral(type) \/ type \in {"double", "pointer", "struct"}
      BY <2>1, <2>4 DEF Legal, Types, Integral
    <3>2. SetParam(type, arg).kind \in {"Int", "Float", "Ptr", "Struct"}
      BY <2>4, <3>1 DEF SetParam, Argument
    <3>3. QED BY <2>1, <2>4, <3>2
  <2>5. QED BY <2>1, <2>2, <2>3, <2>4 DEF Legal
<1>3. QED BY <1>1, <1>2 DEF Mirrors

LEMMA MirrorsAgree ==
  ASSUME NEW types, NEW args, NEW C, Mirrors(C, args)
  PROVE  GetWrapperTy(types, C) = MapPlaceholderToType(types, args)
<1>1. Forwards(C) = Placeholders(args)
  BY DEF Mirrors, Forwards, Placeholders
<1>2. \A i \in Placeholders(args) : C.args[i].data + 1 = args[i].n
  BY DEF Mirrors, Placeholders
<1>3. {C.args[i].data + 1 : i \in Forwards(C)} = Seen(args)
  BY <1>1, <1>2 DEF Seen
<1>4. GetNewArgCount(C) = MaxPlaceholder(args)
  BY <1>3 DEF GetNewArgCount, MaxPlaceholder
<1>5. \A n : {i \in Forwards(C) : C.args[i].data + 1 = n} = {i \in Placeholders(args) : args[i].n = n}
  BY <1>1, <1>2
<1>6. QED BY <1>4, <1>5 DEF GetWrapperTy, MapPlaceholderToType

LEMMA TurnedMirrors ==
  ASSUME NEW C, NEW D, Turned(C, D), NEW args, Mirrors(C, args)
  PROVE  Mirrors(D, args)
BY DEF Turned, Mirrors

EntriesMirror == \A e \in DOMAIN entries : Mirrors(entries[e].cxt, entries[e].call.args)

LEMMA MirrorStep == JInv /\ EntriesMirror /\ [Next]_vars => EntriesMirror'
<1> SUFFICES ASSUME JInv, EntriesMirror, [Next]_vars PROVE EntriesMirror'
  OBVIOUS
<1>1. ASSUME UNCHANGED entries PROVE EntriesMirror'
  BY <1>1 DEF EntriesMirror
<1>2. CASE UNCHANGED vars \/ (\E u \in DOMAIN units : Construct(u)) \/ \E n \in DOMAIN versions : Reload(n)
  BY <1>1, <1>2 DEF vars, jitVars, Construct, Reload
<1>3. ASSUME NEW k \in DOMAIN calls, Call(calls[k]) PROVE EntriesMirror'
  <2>1. CASE NewEntry(calls[k], Context(calls[k]))
    <3>1. PICK new : entries' = Append(entries, new) /\ new.call = calls[k] /\ new.cxt = Context(calls[k])
      BY <2>1 DEF NewEntry
    <3>2. /\ DOMAIN entries' = DOMAIN entries \cup {Len(entries) + 1}
          /\ entries'[Len(entries) + 1] = new
          /\ \A e \in DOMAIN entries : entries'[e] = entries[e]
      BY <3>1, AppendedEntry DEF JInv
    <3>3. QED BY <3>1, <3>2, ContextMirrors DEF EntriesMirror
  <2>2. QED BY <1>1, <1>3, <2>1 DEF Call
<1>4. ASSUME NEW t \in DOMAIN entries, Tune(t) PROVE EntriesMirror'
  <2>1. PICK D \in Turnings(entries[t].cxt) :
          entries' = [entries EXCEPT ![t].cxt = D, ![t].version = Len(versions) + 1]
    BY <1>4 DEF Tune
  <2>2. IsEntry(entries[t]) /\ Turned(entries[t].cxt, D)
    BY <2>1, TurningsTurn DEF JInv, EntriesShape, IsEntry
  <2>3. Mirrors(D, entries[t].call.args)
    BY <2>2, TurnedMirrors DEF EntriesMirror
  <2>4. /\ DOMAIN entries' = DOMAIN entries
        /\ entries'[t].call = entries[t].call /\ entries'[t].cxt = D
        /\ \A e \in DOMAIN entries : e # t => entries'[e] = entries[e]
    BY <2>1, <2>2 DEF IsEntry
  <2>5. QED BY <2>3, <2>4 DEF EntriesMirror
<1>5. QED BY <1>2, <1>3, <1>4 DEF Next

\* In every program, the compiled function of an entry has the type that the front end
\* gave the wrapper it is called through, however its knobs are turned.
THEOREM WrapperTypesAgree == Spec => []TypesAgree
<1>1. Spec => []JInv
  BY JInit, JStep, PTL DEF Spec
<1>2. Init => EntriesMirror
  BY DEF Init, EntriesMirror
<1>3. EntriesMirror => TypesAgree
  BY MirrorsAgree DEF EntriesMirror, TypesAgree
<1>4. QED BY <1>1, <1>2, <1>3, MirrorStep, PTL DEF Spec

------------------------------------------------------------------------------
(* Numbers.                                                                   *)

\* The remainder is the only number below the divisor that differs by a multiple of it.
LEMMA Remainder ==
  ASSUME NEW m \in Nat \ {0}, NEW v \in Int, NEW r \in 0..(m - 1), NEW q \in Int, v = q * m + r
  PROVE  v % m = r
OBVIOUS

\* The low bits of the low bits.
LEMMA RemainderTwice ==
  ASSUME NEW a \in Nat \ {0}, NEW b \in Nat \ {0}, b % a = 0, NEW v \in Int
  PROVE  (v % b) % a = v % a
<1> DEFINE d == b \div a
           p == v \div b
           r == v % b
           q == r \div a
           s == r % a
<1>1. b = d * a /\ d \in Int
  OBVIOUS
<1>2. v = p * b + r /\ p \in Int /\ r \in Int
  OBVIOUS
<1>3. r = q * a + s /\ q \in Int /\ s \in 0..(a - 1)
  BY <1>2
<1> HIDE DEF d, p, r, q, s
<1>4. p * b = (p * d) * a
  BY <1>1, <1>2
<1>5. v = (p * d) * a + (q * a + s)
  BY <1>2, <1>3, <1>4
<1>6. (p * d) * a + q * a = (p * d + q) * a
  BY <1>1, <1>2, <1>3
<1>7. v = (p * d + q) * a + s
  <2> DEFINE x == (p * d) * a
             y == q * a
  <2>1. x \in Int /\ y \in Int /\ s \in Int /\ v = x + (y + s)
    BY <1>1, <1>2, <1>3, <1>5
  <2> HIDE DEF x, y
  <2>2. v = (x + y) + s
    BY <2>1
  <2>3. QED BY <1>6, <2>2 DEF x, y
<1>8. p * d + q \in Int
  BY <1>1, <1>2, <1>3
<1>9. v % a = s
  BY <1>3, <1>7, <1>8, Remainder
<1>10. QED BY <1>9 DEF s, r

\* A number that is kept as an int64_t and then cut to the width of a parameter is what the
\* conversion to the parameter's type makes of it.
LEMMA WrapTwice ==
  ASSUME NEW t \in DOMAIN Half, NEW v \in Int
  PROVE  Wrap(Wrap(v, Half["int64"]), Half[t]) = Wrap(v, Half[t])
<1> DEFINE H == Half["int64"]
           h == Half[t]
<1>1. H \in Nat \ {0} /\ h \in Nat \ {0} /\ H % h = 0
  BY HalfAssumption
<1> HIDE DEF H, h
<1> DEFINE u == v + H
           w == u % (2 * H)
<1>2. Wrap(v, H) = w - H /\ w \in Int /\ u \in Int
  BY <1>1 DEF Wrap
<1>3. H = (H \div h) * h /\ H \div h \in Int
  BY <1>1
<1> DEFINE d == H \div h
<1> HIDE DEF d
<1>4. H = d * h /\ d \in Int
  BY <1>3 DEF d
<1>5. 2 * H = d * (2 * h) /\ 2 * h \in Nat \ {0} /\ 2 * H \in Nat \ {0}
  BY <1>1, <1>4
<1>6. (2 * H) % (2 * h) = 0
  <2> DEFINE m == 2 * h
             x == 2 * H
  <2>1. x = d * m + 0 /\ m \in Nat \ {0} /\ 0 \in 0..(m - 1) /\ x \in Int
    BY <1>4, <1>5
  <2> HIDE DEF m, x
  <2>2. x % m = 0
    BY <1>4, <2>1, Remainder
  <2>3. QED BY <2>2 DEF x, m
<1>7. w % (2 * h) = u % (2 * h)
  BY <1>2, <1>5, <1>6, RemainderTwice
<1>8. \A x \in Int, y \in Int : x % (2 * h) = y % (2 * h) => (x + (h - H)) % (2 * h) = (y + (h - H)) % (2 * h)
  <2> DEFINE m == 2 * h
             c == h - H
  <2>1. m \in Nat \ {0} /\ c \in Int
    BY <1>1
  <2> HIDE DEF m, c
  <2>2. ASSUME NEW x \in Int, NEW y \in Int, x % m = y % m PROVE (x + c) % m = (y + c) % m
    <3> DEFINE r == (x + c) % m
               q == (x + c) \div m
               i == x \div m
               j == y \div m
    <3>1. x + c = q * m + r /\ r \in 0..(m - 1) /\ q \in Int
      BY <2>1
    <3>2. x = i * m + (x % m) /\ y = j * m + (y % m) /\ i \in Int /\ j \in Int /\ x % m \in Int
      BY <2>1
    <3> HIDE DEF r, q, i, j
    <3>3. y + c = ((j - i) + q) * m + r
      <4>1. (j - i) * m = j * m - i * m /\ ((j - i) + q) * m = (j - i) * m + q * m
        BY <2>1, <3>1, <3>2
      <4>2. y - x = (j - i) * m
        <5> DEFINE jm == j * m
                   im == i * m
        <5>1. jm \in Int /\ im \in Int /\ x = im + (x % m) /\ y = jm + (x % m)
          BY <2>1, <2>2, <3>2
        <5> HIDE DEF jm, im
        <5>2. y - x = jm - im
          BY <3>2, <5>1
        <5>3. QED BY <4>1, <5>2 DEF jm, im
      <4> DEFINE k == (j - i) * m
                 l == q * m
      <4>3. k \in Int /\ l \in Int /\ y - x = k /\ x + c = l + r /\ r \in Int
        BY <2>1, <3>1, <3>2, <4>2
      <4> HIDE DEF k, l
      <4>4. y + c = (k + l) + r
        BY <2>1, <4>3
      <4>5. QED BY <4>1, <4>4 DEF k, l
    <3>4. (j - i) + q \in Int /\ y + c \in Int
      BY <2>1, <3>1, <3>2
    <3>5. (y + c) % m = r
      BY <2>1, <3>1, <3>3, <3>4, Remainder
    <3>6. QED BY <3>5 DEF r
  <2>3. QED BY <2>2 DEF m, c
<1>9. (w - H) + h = w + (h - H) /\ v + h = u + (h - H)
  BY <1>1, <1>2
<1>10. ((w - H) + h) % (2 * h) = (v + h) % (2 * h)
  BY <1>2, <1>7, <1>8, <1>9
<1>11. QED BY <1>2, <1>10 DEF Wrap, H, h

LEMMA WrapKeepsParity ==
  ASSUME NEW h \in Nat \ {0}, NEW v \in Int
  PROVE  Wrap(v, h) \in Int /\ Wrap(v, h) % 2 = v % 2
<1> DEFINE m == 2 * h
           q == (v + h) \div m
           r == (v + h) % m
<1>1. m \in Nat \ {0} /\ v + h \in Int
  OBVIOUS
<1>2. v + h = q * m + r /\ q \in Int /\ r \in Int
  <2> HIDE DEF m
  <2>1. QED BY <1>1
<1>3. Wrap(v, h) = r - h
  BY DEF Wrap
<1> HIDE DEF q, r
<1>4. q * m = 2 * (q * h) /\ q * h \in Int
  BY <1>2
<1> DEFINE k == q * h
<1> HIDE DEF k
<1>5. v = 2 * k + (r - h) /\ k \in Int
  BY <1>2, <1>4 DEF k
<1>6. (r - h) % 2 = v % 2
  BY <1>2, <1>5
<1>7. QED BY <1>2, <1>3, <1>6

\* A number that its type has stays what it is.
LEMMA WrapFits ==
  ASSUME NEW h \in Nat \ {0}, NEW v \in -h..(h - 1)
  PROVE  Wrap(v, h) = v
<1> DEFINE m == 2 * h
<1>1. m \in Nat \ {0} /\ v + h \in 0..(m - 1) /\ v + h \in Int /\ v + h = 0 * m + (v + h)
  OBVIOUS
<1> HIDE DEF m
<1>2. (v + h) % m = v + h
  BY <1>1, Remainder
<1>3. QED BY <1>2 DEF Wrap, m

------------------------------------------------------------------------------
(* Linking.                                                                   *)

IsModule(M) ==
  M = [target |-> M.target, name |-> M.name, mapping |-> M.mapping, inlined |-> M.inlined,
       open |-> M.open, bound |-> M.bound, visible |-> M.visible, erased |-> M.erased, throws |-> M.throws]

SameFunction(M, N) ==
  N.target = M.target /\ N.name = M.name /\ N.mapping = M.mapping /\ N.inlined = M.inlined

\* What is linked into a module one by one is linked in turn.
LEMMA LinksAllSteps ==
  ASSUME NEW M, NEW linked, Len(linked) \in Nat
  PROVE  \E h : /\ h[0] = M /\ h[Len(linked)] = LinksAll(M, linked)
                /\ \A k \in 0..(Len(linked) - 1) : h[k + 1] = LinksOne(h[k], linked[k + 1])
<1> DEFINE n == Len(linked)
           Loop(g) == g = [k \in 0..n |-> IF k = 0 THEN M ELSE LinksOne(g[k - 1], linked[k])]
           Until(m, g) == g = [k \in 0..m |-> IF k = 0 THEN M ELSE LinksOne(g[k - 1], linked[k])]
           A == {m \in 0..n : \E g : Until(m, g)}
           h == CHOOSE g : Loop(g)
<1>1. n \in Nat /\ LinksAll(M, linked) = h[n]
  BY DEF LinksAll
<1>2. 0 \in A
  <2> DEFINE g == [k \in 0..0 |-> M]
  <2>1. Until(0, g)
    OBVIOUS
  <2> HIDE DEF g, Until
  <2>2. QED BY <1>1, <2>1
<1>3. ASSUME NEW m \in 0..(n - 1), m \in A PROVE m + 1 \in A
  <2>1. PICK f : Until(m, f)
    BY <1>3
  <2> DEFINE g == [k \in 0..(m + 1) |-> IF k = m + 1 THEN LinksOne(f[m], linked[m + 1]) ELSE f[k]]
  <2>2. \A k \in 0..m : f[k] = IF k = 0 THEN M ELSE LinksOne(f[k - 1], linked[k])
    BY <2>1
  <2>3. ASSUME NEW k \in 0..(m + 1) PROVE g[k] = IF k = 0 THEN M ELSE LinksOne(g[k - 1], linked[k])
    <3>1. CASE k = m + 1
      <4>1. k - 1 = m /\ k # 0 /\ m \in 0..(m + 1) /\ m # m + 1
        BY <1>1, <3>1
      <4>2. g[k] = LinksOne(f[m], linked[m + 1]) /\ g[m] = f[m]
        BY <3>1, <4>1
      <4> HIDE DEF g
      <4>3. QED BY <3>1, <4>1, <4>2
    <3>2. CASE k # m + 1
      <4>1. k \in 0..m /\ (k # 0 => k - 1 \in 0..(m + 1) /\ k - 1 # m + 1)
        BY <1>1, <3>2
      <4>2. g[k] = f[k] /\ (k # 0 => g[k - 1] = f[k - 1])
        BY <3>2, <4>1
      <4> HIDE DEF g
      <4>3. QED BY <2>2, <4>1, <4>2
    <3>3. QED BY <3>1, <3>2
  <2>4. g = [k \in 0..(m + 1) |-> g[k]]
    OBVIOUS
  <2> HIDE DEF g
  <2>5. Until(m + 1, g)
    BY <2>3, <2>4
  <2> HIDE DEF Until
  <2>6. QED BY <1>1, <2>5
<1>4. n \in A
  <2>1. \A m \in 0..n : m \in A
    <3> HIDE DEF A
    <3>1. QED BY <1>1, <1>2, <1>3, UpTo
  <2>2. QED BY <1>1, <2>1
<1>5. Loop(h)
  <2>1. \E g : Loop(g)
    BY <1>4
  <2> HIDE DEF Loop
  <2>2. QED BY <2>1
<1> HIDE DEF h
<1>6. \A k \in 0..n : h[k] = IF k = 0 THEN M ELSE LinksOne(h[k - 1], linked[k])
  BY <1>5
<1>7. h[0] = M /\ \A k \in 0..(n - 1) : h[k + 1] = LinksOne(h[k], linked[k + 1])
  <2>1. 0 \in 0..n /\ \A k \in 0..(n - 1) : k + 1 \in 0..n /\ k + 1 # 0 /\ (k + 1) - 1 = k
    BY <1>1
  <2>2. QED BY <1>6, <2>1
<1>8. QED BY <1>1, <1>7

LEMMA LinksOneKeeps ==
  ASSUME NEW M, IsModule(M), NEW what
  PROVE  IsModule(LinksOne(M, what)) /\ SameFunction(M, LinksOne(M, what))
<1>1. ASSUME NEW B, NEW entry PROVE IsModule(Links(M, B, entry)) /\ SameFunction(M, Links(M, B, entry))
  <2> DEFINE N == Links(M, B, entry)
  <2>1. PICK open, bound, visible, erased :
          N = [M EXCEPT !.open = open, !.bound = bound, !.visible = visible, !.erased = erased]
    BY DEF Links
  <2> HIDE DEF N
  <2>2. N = [target |-> M.target, name |-> M.name, mapping |-> M.mapping, inlined |-> M.inlined, open |-> open,
             bound |-> bound, visible |-> visible, erased |-> erased, throws |-> M.throws]
    BY <2>1 DEF IsModule
  <2>3. /\ N.target = M.target /\ N.name = M.name /\ N.mapping = M.mapping /\ N.inlined = M.inlined
        /\ N.open = open /\ N.bound = bound /\ N.visible = visible /\ N.erased = erased /\ N.throws = M.throws
    BY <2>2
  <2>4. IsModule(N)
    BY <2>2, <2>3 DEF IsModule
  <2>5. QED BY <2>3, <2>4 DEF SameFunction, N
<1>2. QED BY <1>1 DEF LinksOne, SameFunction

\* Whatever is linked in, the module is for the same function with the same arguments.
LEMMA LinksAllKeeps ==
  ASSUME NEW M, IsModule(M), NEW linked, Len(linked) \in Nat
  PROVE  IsModule(LinksAll(M, linked)) /\ SameFunction(M, LinksAll(M, linked))
<1> DEFINE n == Len(linked)
<1>1. PICK h : /\ h[0] = M /\ h[n] = LinksAll(M, linked)
               /\ \A k \in 0..(n - 1) : h[k + 1] = LinksOne(h[k], linked[k + 1])
  BY LinksAllSteps
<1> DEFINE A == {k \in 0..n : IsModule(h[k]) /\ SameFunction(M, h[k])}
<1>2. 0 \in A
  BY <1>1 DEF SameFunction
<1>3. ASSUME NEW k \in 0..(n - 1), k \in A PROVE k + 1 \in A
  <2>1. IsModule(h[k]) /\ SameFunction(M, h[k]) /\ k + 1 \in 0..n
    BY <1>3
  <2>2. IsModule(LinksOne(h[k], linked[k + 1])) /\ SameFunction(h[k], LinksOne(h[k], linked[k + 1]))
    BY <2>1, LinksOneKeeps
  <2>3. QED BY <1>1, <2>1, <2>2 DEF SameFunction
<1>4. \A k \in 0..n : k \in A
  <2> HIDE DEF A
  <2>1. QED BY <1>2, <1>3, UpTo
<1>5. n \in A
  BY <1>4
<1>6. QED BY <1>1, <1>5

------------------------------------------------------------------------------
(* Compilation.                                                               *)

\* The arguments of a call and of its context are sequences.
LEMMA ArgumentCount ==
  ASSUME NEW k \in DOMAIN calls, NEW C, DOMAIN C.args = DOMAIN calls[k].args, C.args = [i \in DOMAIN C.args |-> C.args[i]]
  PROVE  Len(C.args) \in Nat /\ DOMAIN C.args = 1..Len(C.args)
<1> DEFINE n == Len(calls[k].types)
<1>1. n \in Nat /\ DOMAIN C.args = 1..n
  BY CallsAssumption
<1>2. QED BY <1>1

\* However the code of a version is put together, it is for the function of the call, and
\* its operands are those of the context's arguments.
LEMMA CompileInlines ==
  ASSUME NEW c, NEW C, Len(C.args) \in Nat, NEW level, NEW vs, NEW n,
         IsFiniteSet(DOMAIN functions)
  PROVE  LET M == Compile(c, C, level, vs, n)
         IN  /\ IsModule(M) /\ M.target = c.fun /\ M.name = functions[c.fun].name /\ M.mapping = functions[c.fun].unit
             /\ M.inlined = [i \in DOMAIN c.types |-> InlineArg(c.types[i], C.args[i])]
<1> DEFINE G == GetModule(c.fun)
           N == LinksAll(G, [i \in 1..Len(C.args) |-> LinkedFor(C.args[i], vs)])
           I == InlineParameters(G, c.types, C, vs, n)
<1>1. IsModule(G) /\ G.target = c.fun /\ G.name = functions[c.fun].name /\ G.mapping = functions[c.fun].unit
  BY DEF GetModule, IsModule
<1>2. IsModule(N) /\ SameFunction(G, N)
  <2> DEFINE linked == [i \in 1..Len(C.args) |-> LinkedFor(C.args[i], vs)]
  <2>1. Len(linked) \in Nat
    OBVIOUS
  <2> HIDE DEF linked, G
  <2>2. QED BY <1>1, <2>1, LinksAllKeeps DEF linked
<1>3. /\ IsModule(I) /\ I.target = c.fun /\ I.name = functions[c.fun].name /\ I.mapping = functions[c.fun].unit
      /\ I.inlined = [i \in DOMAIN c.types |-> InlineArg(c.types[i], C.args[i])]
  <2>1. I = [N EXCEPT !.inlined = [i \in DOMAIN c.types |-> InlineArg(c.types[i], C.args[i])],
                      !.visible = {d \in @ : d[1] # G.name} \cup {<<G.name, <<"version", n>>>>}]
    BY DEF InlineParameters
  <2> HIDE DEF G, N, I
  <2>2. QED BY <1>1, <1>2, <2>1 DEF IsModule, SameFunction
<1> DEFINE hosted == {FirstMethod(hosts[C.args[v.param].data]) : v \in HostCalls(I, C, c.virtual)}
           D == DevirtualizeConstant(I, C, c.virtual, level)
<1>4. D = Compile(c, C, level, vs, n)
  BY DEF Compile
<1> HIDE DEF I
<1>5. CASE level = 0
  BY <1>3, <1>4, <1>5 DEF DevirtualizeConstant
<1>6. CASE level # 0 /\ \E a \in hosted : ~HasGlobalMapping(a)
  <2>1. D = [I EXCEPT !.throws = TRUE]
    BY <1>6 DEF DevirtualizeConstant
  <2> HIDE DEF D
  <2>2. QED BY <1>3, <1>4, <2>1 DEF IsModule
<1>7. CASE level # 0 /\ ~\E a \in hosted : ~HasGlobalMapping(a)
  <2> DEFINE linked == [i \in 1..Cardinality(hosted) |-> {OfAddress(SetToSeq(hosted)[i])}]
  <2>1. D = LinksAll(I, linked)
    BY <1>7 DEF DevirtualizeConstant
  <2>2. Len(linked) \in Nat
    <3>1. hosted \subseteq DOMAIN functions
      BY <1>7 DEF HasGlobalMapping
    <3> HIDE DEF hosted
    <3>2. IsFiniteSet(hosted)
      BY <3>1, FS_Subset
    <3>3. Cardinality(hosted) \in Nat
      BY <3>2, FS_CardinalityType
    <3>4. QED BY <3>3
  <2> HIDE DEF D, linked
  <2>3. IsModule(D) /\ SameFunction(I, D)
    BY <1>3, <2>1, <2>2, LinksAllKeeps
  <2>4. QED BY <1>3, <1>4, <2>3 DEF SameFunction
<1>8. QED BY <1>5, <1>6, <1>7

------------------------------------------------------------------------------
(* The tracker.                                                               *)

LEMMA EmplaceIs ==
  ASSUME NEW f, NEW g
  PROVE  /\ DOMAIN Emplace(f, g) = DOMAIN f \cup DOMAIN g
         /\ \A x \in DOMAIN f : Emplace(f, g)[x] = f[x]
         /\ \A x \in DOMAIN g : x \notin DOMAIN f => Emplace(f, g)[x] = g[x]
BY DEF Emplace

\* What the tracker knows is the registered bitcode of the units whose constructors have run.
TrackerSound ==
  /\ starting \subseteq DOMAIN units /\ IsFiniteSet(DOMAIN functions)
  /\ \A a \in DOMAIN functions :
       \E u \in DOMAIN units \ starting : \E g \in CollectObjectsToJIT(u) :
         functions[a] = Info(u, g) /\ a = Address(u, g)
  /\ \A u \in DOMAIN units \ starting : \A g \in CollectObjectsToJIT(u) :
       Address(u, g) \in DOMAIN functions /\ Name(u, g) \in DOMAIN nameToAddress
  /\ \A n \in DOMAIN nameToAddress : nameToAddress[n] \in DOMAIN functions

\* What is registered is an object of the unit that is a constant, or exported by request.
LEMMA CollectedObjects ==
  ASSUME NEW u \in DOMAIN units, NEW g \in CollectObjectsToJIT(u)
  PROVE  /\ g \in Objects(u) /\ Object(u, g).def
         /\ IsConstant(u, g) \/ g \in units[u].export
<1> DEFINE marked == DeduceObjectsToJIT(u) \cup RegexFunctionsToJIT(u)
           tables == {t \in Objects(u) : Object(u, t).slots # <<>> /\ Object(u, t).def}
           slots == UNION {ToSet(Object(u, t).slots) : t \in tables}
           methods == {f \in slots : Object(u, f).type \in VirtualMethodTys(u, marked)}
<1>1. g \in marked \cup DeduceVirtualMethodsToJIT(u, marked) /\ Object(u, g).def
  BY DEF CollectObjectsToJIT
<1>2. CASE g \in marked
  BY <1>1, <1>2, ProgramAssumption DEF DeduceObjectsToJIT, RegexFunctionsToJIT
<1>3. CASE g \in DeduceVirtualMethodsToJIT(u, marked)
  <2>1. DeduceVirtualMethodsToJIT(u, marked)
          = methods \cup {o \in Objects(u) : \E f \in methods : MayBeOverload(u, o, f)}
    BY DEF DeduceVirtualMethodsToJIT
  <2>2. \A f \in methods : f \in Objects(u) /\ Function(u, f)
    <3> HIDE DEF marked
    <3>1. \A f \in slots : f \in Objects(u) /\ Function(u, f)
      <4>1. SUFFICES ASSUME NEW t \in tables, NEW f \in ToSet(Object(u, t).slots)
                     PROVE  f \in Objects(u) /\ Function(u, f)
        OBVIOUS
      <4> DEFINE s == Object(u, t).slots
                 F == {x \in Objects(u) : Function(u, x)}
      <4>2. s \in Seq(F)
        BY ProgramAssumption
      <4>3. PICK i \in DOMAIN s : s[i] = f
        BY DEF ToSet
      <4>4. f \in F
        <5> HIDE DEF s, F
        <5>1. s[i] \in F
          BY <4>2
        <5>2. QED BY <4>3, <5>1
      <4>5. QED BY <4>4
    <3> HIDE DEF slots
    <3>2. QED BY <3>1
  <2>3. \A o, f : MayBeOverload(u, o, f) => Function(u, o)
    BY DEF MayBeOverload
  <2> HIDE DEF methods, marked
  <2>4. g \in Objects(u) /\ Function(u, g)
    BY <1>3, <2>1, <2>2, <2>3
  <2>5. QED BY <1>1, <2>4 DEF IsConstant
<1>4. QED BY <1>1, <1>2, <1>3

LEMMA TrackerInitSound == TrackerInit => TrackerSound
<1> SUFFICES ASSUME TrackerInit PROVE TrackerSound
  OBVIOUS
<1>1. DOMAIN functions = {} /\ DOMAIN nameToAddress = {} /\ DOMAIN units \ starting = {} /\ starting = DOMAIN units
  BY DEF TrackerInit
<1>2. IsFiniteSet({})
  BY FS_EmptySet
<1>3. QED BY <1>1, <1>2 DEF TrackerSound

LEMMA RegisterSound ==
  ASSUME TrackerSound, NEW u, Register(u)
  PROVE  TrackerSound'
<1> DEFINE objects == CollectObjectsToJIT(u)
           addresses == {Address(u, g) : g \in objects}
           names == {Name(u, g) : g \in objects}
           infos == [a \in addresses |-> Info(u, CHOOSE g \in objects : Address(u, g) = a)]
           where == [n \in names |-> Address(u, CHOOSE g \in objects : Name(u, g) = n)]
<1>1. /\ u \in starting /\ starting' = starting \ {u} /\ u \in DOMAIN units /\ starting \subseteq DOMAIN units
      /\ functions' = Emplace(functions, infos) /\ nameToAddress' = Emplace(nameToAddress, where)
  BY DEF Register, TrackerSound
<1>2. \A a \in addresses : \E g \in objects : infos[a] = Info(u, g) /\ a = Address(u, g)
  OBVIOUS
<1>3. \A n \in names : \E g \in objects : where[n] = Address(u, g)
  OBVIOUS
<1>4. DOMAIN infos = addresses /\ DOMAIN where = names
  OBVIOUS
<1>5. IsFiniteSet(objects) /\ IsFiniteSet(addresses)
  <2>1. objects \subseteq Objects(u) /\ IsFiniteSet(Objects(u))
    BY <1>1, CollectedObjects, ProgramAssumption
  <2> DEFINE f == [g \in objects |-> Address(u, g)]
  <2>2. f \in Surjection(objects, addresses)
    <3>1. f \in [objects -> addresses] /\ \A a \in addresses : \E g \in objects : f[g] = a
      OBVIOUS
    <3> HIDE DEF f, addresses, objects
    <3>2. QED BY <3>1 DEF Surjection
  <2> HIDE DEF objects, addresses, f
  <2>3. IsFiniteSet(objects)
    BY <2>1, FS_Subset
  <2>4. QED BY <2>2, <2>3, FS_Surjection
<1>6. \A g \in objects : Address(u, g) \in addresses /\ Name(u, g) \in names
  OBVIOUS
<1> HIDE DEF infos, where, addresses, names
<1>7. /\ DOMAIN functions' = DOMAIN functions \cup addresses
      /\ \A a \in DOMAIN functions : functions'[a] = functions[a]
      /\ \A a \in addresses : a \notin DOMAIN functions => functions'[a] = infos[a]
  <2> DEFINE E == Emplace(functions, infos)
  <2>1. /\ DOMAIN E = DOMAIN functions \cup DOMAIN infos
        /\ \A a \in DOMAIN functions : E[a] = functions[a]
        /\ \A a \in DOMAIN infos : a \notin DOMAIN functions => E[a] = infos[a]
    BY EmplaceIs
  <2>2. functions' = E
    BY <1>1
  <2> HIDE DEF E
  <2>3. QED BY <1>4, <2>1, <2>2
<1>8. /\ DOMAIN nameToAddress' = DOMAIN nameToAddress \cup names
      /\ \A n \in DOMAIN nameToAddress : nameToAddress'[n] = nameToAddress[n]
      /\ \A n \in names : n \notin DOMAIN nameToAddress => nameToAddress'[n] = where[n]
  <2> DEFINE E == Emplace(nameToAddress, where)
  <2>1. /\ DOMAIN E = DOMAIN nameToAddress \cup DOMAIN where
        /\ \A n \in DOMAIN nameToAddress : E[n] = nameToAddress[n]
        /\ \A n \in DOMAIN where : n \notin DOMAIN nameToAddress => E[n] = where[n]
    BY EmplaceIs
  <2>2. nameToAddress' = E
    BY <1>1
  <2> HIDE DEF E
  <2>3. QED BY <1>4, <2>1, <2>2
<1>9. starting' \subseteq DOMAIN units /\ IsFiniteSet(DOMAIN functions')
  <2>1. IsFiniteSet(DOMAIN functions)
    BY DEF TrackerSound
  <2>2. QED BY <1>1, <1>5, <1>7, <2>1, FS_Union
<1>10. ASSUME NEW a \in DOMAIN functions'
       PROVE  \E w \in DOMAIN units \ starting' : \E g \in CollectObjectsToJIT(w) :
                functions'[a] = Info(w, g) /\ a = Address(w, g)
  <2>1. CASE a \in DOMAIN functions
    <3>1. PICK w \in DOMAIN units \ starting :
            \E g \in CollectObjectsToJIT(w) : functions[a] = Info(w, g) /\ a = Address(w, g)
      BY <2>1 DEF TrackerSound
    <3>2. w \in DOMAIN units \ starting' /\ functions'[a] = functions[a]
      BY <1>1, <1>7, <2>1
    <3>3. QED BY <3>1, <3>2
  <2>2. CASE a \notin DOMAIN functions
    <3>1. a \in addresses /\ functions'[a] = infos[a]
      BY <1>7, <2>2
    <3>2. PICK g \in objects : infos[a] = Info(u, g) /\ a = Address(u, g)
      BY <1>2, <3>1
    <3>3. u \in DOMAIN units \ starting'
      BY <1>1
    <3>4. QED BY <3>1, <3>2, <3>3
  <2>3. QED BY <2>1, <2>2
<1>11. ASSUME NEW w \in DOMAIN units \ starting', NEW g \in CollectObjectsToJIT(w)
       PROVE  Address(w, g) \in DOMAIN functions' /\ Name(w, g) \in DOMAIN nameToAddress'
  <2>1. CASE w = u
    BY <1>6, <1>7, <1>8, <2>1
  <2>2. CASE w # u
    <3>1. Address(w, g) \in DOMAIN functions /\ Name(w, g) \in DOMAIN nameToAddress
      BY <1>1, <2>2 DEF TrackerSound
    <3>2. QED BY <1>7, <1>8, <3>1
  <2>3. QED BY <2>1, <2>2
<1>12. ASSUME NEW n \in DOMAIN nameToAddress' PROVE nameToAddress'[n] \in DOMAIN functions'
  <2>1. CASE n \in DOMAIN nameToAddress
    BY <1>7, <1>8, <2>1 DEF TrackerSound
  <2>2. CASE n \notin DOMAIN nameToAddress
    BY <1>3, <1>6, <1>7, <1>8, <2>2
  <2>3. QED BY <2>1, <2>2
<1>13. QED BY <1>9, <1>10, <1>11, <1>12 DEF TrackerSound

------------------------------------------------------------------------------
(* What the arguments of a call become.                                       *)

\* What the context says of the arguments of a call, whatever its knobs are turned to.
Conforms(C, c) ==
  /\ DOMAIN C.args = DOMAIN c.types
  /\ \A i \in DOMAIN c.types :
       /\ c.args[i].is = "placeholder" => C.args[i] = Argument("Forward", c.args[i].n - 1)
       /\ c.args[i].is = "knob" =>
            /\ C.args[i].kind = "IntRange" /\ C.args[i].data.cur \in c.args[i].lo..c.args[i].hi
            /\ C.args[i].data.lo = c.args[i].lo /\ C.args[i].data.hi = c.args[i].hi
       /\ c.args[i].is = "value" /\ Integral(c.types[i]) =>
            C.args[i] = Argument("Int", Wrap(c.args[i].value, Half["int64"]))
       /\ C.args[i].kind = "Module" => c.args[i].is = "wrapper" /\ C.args[i].data = c.args[i].fun

LEMMA SetParamConforms ==
  ASSUME NEW type, NEW arg, Legal(type, arg)
  PROVE  LET a == SetParam(type, arg)
         IN  /\ arg.is = "placeholder" => a = Argument("Forward", arg.n - 1)
             /\ arg.is = "knob" =>
                  /\ a.kind = "IntRange" /\ a.data.cur \in arg.lo..arg.hi
                  /\ a.data.lo = arg.lo /\ a.data.hi = arg.hi
             /\ arg.is = "value" /\ Integral(type) => a = Argument("Int", Wrap(arg.value, Half["int64"]))
             /\ a.kind = "Module" => arg.is = "wrapper" /\ a.data = arg.fun
<1> DEFINE a == SetParam(type, arg)
<1>1. CASE arg.is = "placeholder"
  <2>1. a = Argument("Forward", arg.n - 1)
    BY <1>1 DEF SetParam
  <2>2. a.kind = "Forward"
    BY <2>1 DEF Argument
  <2> HIDE DEF a
  <2>3. QED BY <1>1, <2>1, <2>2 DEF a
<1>2. CASE arg.is = "wrapper"
  <2>1. a = Argument("Module", arg.fun)
    BY <1>2 DEF SetParam
  <2>2. a.data = arg.fun
    BY <2>1 DEF Argument
  <2> HIDE DEF a
  <2>3. QED BY <1>2, <2>2 DEF a
<1>3. CASE arg.is = "knob"
  <2>1. a = Argument("IntRange", TunableParam(arg)) /\ arg.dflt \in arg.lo..arg.hi
    BY <1>3 DEF SetParam, Legal
  <2>2. a.kind = "IntRange" /\ a.data.cur = arg.dflt /\ a.data.lo = arg.lo /\ a.data.hi = arg.hi
    BY <2>1 DEF Argument, TunableParam
  <2> HIDE DEF a
  <2>3. QED BY <1>3, <2>1, <2>2 DEF a
<1>4. CASE arg.is = "value"
  <2>1. \/ type \in DOMAIN Half /\ Integral(type)
        \/ ~Integral(type) /\ type \in {"double", "pointer", "struct"}
    BY <1>4 DEF Legal, Types, Integral
  <2>2. \/ Integral(type) /\ a = Argument("Int", Wrap(arg.value, Half["int64"]))
        \/ ~Integral(type) /\ \E kind \in {"Float", "Ptr", "Struct"} : a = Argument(kind, arg.value)
    <3>1. CASE Integral(type) /\ type \in DOMAIN Half
      <4>1. type \notin {"double", "pointer", "struct"}
        BY <3>1, HalfAssumption
      <4>2. QED BY <1>4, <3>1, <4>1 DEF SetParam
    <3>2. CASE ~Integral(type)
      <4>1. \/ a = Argument("Float", arg.value) \/ a = Argument("Ptr", arg.value)
            \/ a = Argument("Struct", arg.value)
        BY <1>4, <2>1, <3>2 DEF SetParam
      <4> HIDE DEF a
      <4>2. QED BY <3>2, <4>1
    <3>3. QED BY <2>1, <3>1, <3>2
  <2>3. a.kind # "Module"
    BY <2>2 DEF Argument
  <2> HIDE DEF a
  <2>4. QED BY <1>4, <2>2, <2>3 DEF a
<1>5. QED BY <1>1, <1>2, <1>3, <1>4 DEF Legal

LEMMA ContextConforms ==
  ASSUME NEW k \in DOMAIN calls
  PROVE  Conforms(Context(calls[k]), calls[k])
<1> DEFINE c == calls[k]
<1>1. Context(c).args = [i \in DOMAIN c.types |-> SetParam(c.types[i], c.args[i])]
  BY DEF Context, GetContextFor
<1>2. \A i \in DOMAIN c.types : Legal(c.types[i], c.args[i])
  BY CallsAssumption
<1> HIDE DEF c
<1>3. DOMAIN Context(c).args = DOMAIN c.types /\ \A i \in DOMAIN c.types : Context(c).args[i] = SetParam(c.types[i], c.args[i])
  BY <1>1
<1>4. Conforms(Context(c), c)
  BY <1>2, <1>3, SetParamConforms DEF Conforms
<1>5. QED BY <1>4 DEF c

LEMMA TurningsConform ==
  ASSUME NEW C, NEW c, IsContext(C), Conforms(C, c), NEW D \in Turnings(C)
  PROVE  Conforms(D, c)
<1> DEFINE knobs == ContextKnobs(C)
           range(i) == C.args[i].data.lo..C.args[i].data.hi
           value(vals, i) == IF i \in knobs THEN [C.args[i] EXCEPT !.data.cur = vals[i]] ELSE C.args[i]
<1>1. PICK vals : /\ D = [C EXCEPT !.args = [i \in DOMAIN C.args |-> value(vals, i)]]
                  /\ \A i \in knobs : vals[i] \in range(i)
  BY DEF Turnings
<1>2. D.args = [i \in DOMAIN C.args |-> value(vals, i)]
  BY <1>1 DEF IsContext
<1>3. ASSUME NEW i \in DOMAIN C.args, i \in knobs
      PROVE  /\ C.args[i].kind = "IntRange" /\ D.args[i].kind = "IntRange" /\ D.args[i].data.cur \in range(i)
             /\ D.args[i].data.lo = C.args[i].data.lo /\ D.args[i].data.hi = C.args[i].data.hi
  <2>1. C.args[i].kind = "IntRange" /\ IsArgument(C.args[i])
    BY <1>3 DEF ContextKnobs, IsContext
  <2>2. D.args[i] = [C.args[i] EXCEPT !.data = [C.args[i].data EXCEPT !.cur = vals[i]]]
    BY <1>2, <1>3
  <2>3. D.args[i] = [kind |-> "IntRange", data |-> [C.args[i].data EXCEPT !.cur = vals[i]]]
    BY <2>1, <2>2 DEF IsArgument
  <2>4. [C.args[i].data EXCEPT !.cur = vals[i]]
          = [lo |-> C.args[i].data.lo, hi |-> C.args[i].data.hi, dflt |-> C.args[i].data.dflt,
             id |-> C.args[i].data.id, cur |-> vals[i]]
    BY <2>1 DEF IsArgument
  <2>5. QED BY <1>1, <1>3, <2>1, <2>3, <2>4
<1>4. \A i \in DOMAIN C.args : i \notin knobs => D.args[i] = C.args[i]
  BY <1>2
<1>5. ASSUME NEW i \in DOMAIN c.types
      PROVE  /\ c.args[i].is = "placeholder" => D.args[i] = Argument("Forward", c.args[i].n - 1)
             /\ c.args[i].is = "knob" =>
                  /\ D.args[i].kind = "IntRange" /\ D.args[i].data.cur \in c.args[i].lo..c.args[i].hi
                  /\ D.args[i].data.lo = c.args[i].lo /\ D.args[i].data.hi = c.args[i].hi
             /\ c.args[i].is = "value" /\ Integral(c.types[i]) =>
                  D.args[i] = Argument("Int", Wrap(c.args[i].value, Half["int64"]))
             /\ D.args[i].kind = "Module" => c.args[i].is = "wrapper" /\ D.args[i].data = c.args[i].fun
  <2>1. i \in DOMAIN C.args
    BY DEF Conforms
  <2>2. CASE i \notin knobs
    BY <1>4, <2>1, <2>2 DEF Conforms
  <2>3. CASE i \in knobs
    <3>1. /\ C.args[i].kind = "IntRange" /\ D.args[i].kind = "IntRange" /\ D.args[i].data.cur \in range(i)
          /\ D.args[i].data.lo = C.args[i].data.lo /\ D.args[i].data.hi = C.args[i].data.hi
      BY <1>3, <2>1, <2>3
    <3>2. /\ c.args[i].is # "placeholder" /\ ~(c.args[i].is = "value" /\ Integral(c.types[i]))
          /\ c.args[i].is = "knob" => C.args[i].data.lo = c.args[i].lo /\ C.args[i].data.hi = c.args[i].hi
      <4>1. \A n : Argument("Forward", n).kind = "Forward" /\ Argument("Int", n).kind = "Int"
        BY DEF Argument
      <4>2. \A n : C.args[i] # Argument("Forward", n) /\ C.args[i] # Argument("Int", n)
        BY <3>1, <4>1
      <4>3. QED BY <4>2 DEF Conforms
    <3>3. QED BY <3>1, <3>2
  <2>4. QED BY <2>2, <2>3
<1>6. DOMAIN D.args = DOMAIN c.types
  BY <1>2 DEF Conforms
<1>7. QED BY <1>5, <1>6 DEF Conforms

\* Operands that are those of a context that conforms to the call are what the call bound.
LEMMA ConformingBinds ==
  ASSUME NEW k \in DOMAIN calls, NEW C, Conforms(C, calls[k]), NEW i \in DOMAIN calls[k].types
  PROVE  LET type == calls[k].types[i]
             arg == calls[k].args[i]
             inlined == InlineArg(type, C.args[i])
         IN  /\ arg.is = "placeholder" => inlined = Argument("Forward", arg.n - 1)
             /\ arg.is = "knob" => inlined.data \in arg.lo..arg.hi
             /\ arg.is = "value" /\ Integral(type) =>
                  ((inlined.data = Converted(type, arg.value))
                     <=> ~(type = "bool" /\ arg.value # 0 /\ arg.value % 2 = 0))
<1> DEFINE type == calls[k].types[i]
           arg == calls[k].args[i]
           a == C.args[i]
           inlined == InlineArg(type, a)
<1>1. Legal(type, arg)
  BY CallsAssumption
<1>2. /\ arg.is = "placeholder" => a = Argument("Forward", arg.n - 1)
      /\ arg.is = "knob" =>
           /\ a.kind = "IntRange" /\ a.data.cur \in arg.lo..arg.hi
           /\ a.data.lo = arg.lo /\ a.data.hi = arg.hi
      /\ arg.is = "value" /\ Integral(type) => a = Argument("Int", Wrap(arg.value, Half["int64"]))
  BY DEF Conforms
<1> HIDE DEF type, arg, a
<1>3. ASSUME arg.is = "placeholder" PROVE inlined = Argument("Forward", arg.n - 1)
  <2>1. a = Argument("Forward", arg.n - 1) /\ a.kind = "Forward"
    BY <1>2, <1>3 DEF Argument
  <2>2. inlined = a
    BY <2>1 DEF InlineArg
  <2>3. QED BY <2>1, <2>2
<1>4. ASSUME arg.is = "knob" PROVE inlined.data \in arg.lo..arg.hi
  <2>1. type = "int" /\ a.kind = "IntRange" /\ a.data.cur \in arg.lo..arg.hi /\ arg.lo..arg.hi \subseteq Values("int")
    BY <1>1, <1>2, <1>4 DEF Legal
  <2>2. inlined.data = Wrap(a.data.cur, Half["int"])
    BY <2>1 DEF InlineArg, Argument, Truncated
  <2>3. Half["int"] \in Nat \ {0} /\ a.data.cur \in -Half["int"]..(Half["int"] - 1)
    BY <2>1, HalfAssumption DEF Values
  <2>4. QED BY <2>1, <2>2, <2>3, WrapFits
<1>5. ASSUME arg.is = "value", Integral(type)
      PROVE  (inlined.data = Converted(type, arg.value)) <=> ~(type = "bool" /\ arg.value # 0 /\ arg.value % 2 = 0)
  <2> DEFINE v == arg.value
             w == Wrap(v, Half["int64"])
  <2>1. v \in Int /\ type \in DOMAIN Half /\ a.kind = "Int" /\ a.data = w
    BY <1>1, <1>2, <1>5 DEF Legal, Integral, Argument
  <2>2. inlined.data = Truncated(type, w)
    BY <2>1 DEF InlineArg, Argument
  <2> HIDE DEF v, inlined
  <2>3. CASE type = "bool"
    <3>1. Half["int64"] \in Nat \ {0}
      BY HalfAssumption
    <3>2. inlined.data = v % 2
      BY <2>1, <2>2, <2>3, <3>1, WrapKeepsParity DEF Truncated
    <3>3. QED BY <2>1, <2>3, <3>2 DEF Converted, v
  <2>4. CASE type # "bool"
    <3>1. inlined.data = Wrap(w, Half[type])
      BY <2>2, <2>4 DEF Truncated
    <3>2. inlined.data = Wrap(v, Half[type])
      BY <2>1, <3>1, WrapTwice
    <3>3. QED BY <2>4, <3>2 DEF Converted, v
  <2>5. QED BY <2>3, <2>4
<1>6. QED BY <1>3, <1>4, <1>5 DEF type, arg, a

------------------------------------------------------------------------------
(* The versions.                                                              *)

\* A version is of a registered function.
VersionSound(M, F) ==
  /\ IsModule(M) /\ M.target \in DOMAIN F /\ M.name = F[M.target].name
  /\ M.mapping \in DOMAIN units

VersionsSound == (\E S : versions \in Seq(S)) /\ \A n \in DOMAIN versions : VersionSound(versions[n], functions)

\* An entry is of a call, with the version that has the operands of its context.
EntrySound(e) ==
  LET E == entries[e]
  IN  \E k \in DOMAIN calls :
        /\ E.call = calls[k] /\ Conforms(E.cxt, calls[k])
        /\ \A i \in DOMAIN calls[k].types : E.cxt.args[i].kind = "Module" => E.cxt.args[i].data \in DOMAIN versions
        /\ E.version # 0 =>
             /\ E.call.fun \in DOMAIN functions /\ E.version \in DOMAIN versions
             /\ versions[E.version].inlined
                  = [i \in DOMAIN calls[k].types |-> InlineArg(calls[k].types[i], E.cxt.args[i])]

EntriesSound == \A e \in DOMAIN entries : EntrySound(e)

BeforeMain == starting # {} => DOMAIN entries = {} /\ DOMAIN versions = {}

CInv == JInv /\ TrackerSound /\ BeforeMain /\ VersionsSound /\ EntriesSound

\* What the tables say of a registered function.
LEMMA RegisteredUnit ==
  ASSUME TrackerSound, NEW a \in DOMAIN functions
  PROVE  /\ functions[a].unit \in DOMAIN units
         /\ functions[a].name \in DOMAIN nameToAddress
         /\ functions[nameToAddress[functions[a].name]].unit \in DOMAIN units
<1>1. ASSUME NEW b \in DOMAIN functions
      PROVE  functions[b].unit \in DOMAIN units /\ functions[b].name \in DOMAIN nameToAddress
  <2>1. PICK u \in DOMAIN units \ starting :
          \E g \in CollectObjectsToJIT(u) : functions[b] = Info(u, g) /\ b = Address(u, g)
    BY DEF TrackerSound
  <2>2. PICK g \in CollectObjectsToJIT(u) : functions[b] = Info(u, g)
    BY <2>1
  <2>3. functions[b].unit = u /\ functions[b].name = Name(u, g)
    BY <2>2 DEF Info
  <2>4. QED BY <2>3 DEF TrackerSound
<1>2. functions[a].name \in DOMAIN nameToAddress
  BY <1>1
<1>3. nameToAddress[functions[a].name] \in DOMAIN functions
  BY <1>2 DEF TrackerSound
<1>4. QED BY <1>1, <1>2, <1>3

LEMMA AppendedVersion ==
  ASSUME VersionsSound, NEW M, versions' = Append(versions, M)
  PROVE  /\ DOMAIN versions' = DOMAIN versions \cup {Len(versions) + 1}
         /\ Len(versions) + 1 \notin DOMAIN versions /\ Len(versions) + 1 # 0
         /\ versions'[Len(versions) + 1] = M
         /\ \A n \in DOMAIN versions : versions'[n] = versions[n]
         /\ \E S : versions' \in Seq(S)
<1>1. PICK S : versions \in Seq(S)
  BY DEF VersionsSound
<1>2. versions \in Seq(S \cup {M}) /\ versions' \in Seq(S \cup {M})
  BY <1>1
<1>3. QED BY <1>1, <1>2

LEMMA VersionsKeepSound ==
  ASSUME VersionsSound, NEW M, VersionSound(M, functions), versions' = Append(versions, M), UNCHANGED functions
  PROVE  VersionsSound'
<1>1. /\ DOMAIN versions' = DOMAIN versions \cup {Len(versions) + 1}
      /\ versions'[Len(versions) + 1] = M
      /\ \A n \in DOMAIN versions : versions'[n] = versions[n]
      /\ \E S : versions' \in Seq(S)
  BY AppendedVersion
<1>2. ASSUME NEW n \in DOMAIN versions' PROVE VersionSound(versions'[n], functions')
  BY <1>1, <1>2 DEF VersionsSound
<1>3. QED BY <1>1, <1>2 DEF VersionsSound

LEMMA InlineStays ==
  ASSUME NEW type, NEW a, UNCHANGED functions
  PROVE  InlineArg(type, a)' = InlineArg(type, a)
<1>1. HasGlobalMapping(a.data)' <=> HasGlobalMapping(a.data)
  BY DEF HasGlobalMapping
<1>2. CASE a.kind \in {"Int", "IntRange", "Float", "Struct"}
  BY <1>2 DEF InlineArg
<1>3. CASE a.kind = "Ptr"
  BY <1>1, <1>3 DEF InlineArg
<1>4. CASE a.kind \notin {"Int", "IntRange", "Float", "Struct", "Ptr"}
  BY <1>4 DEF InlineArg
<1>5. QED BY <1>2, <1>3, <1>4

\* An entry that stays as it is stays sound when versions are added.
LEMMA EntryKeepsSound ==
  ASSUME NEW e, EntrySound(e), UNCHANGED functions, entries'[e] = entries[e], DOMAIN versions \subseteq DOMAIN versions',
         \A n \in DOMAIN versions : versions'[n] = versions[n]
  PROVE  EntrySound(e)'
BY InlineStays DEF EntrySound

MadeFor(M, c) == M.target = c.fun

\* The version that is made for a context that conforms to a call.
LEMMA CompiledSound ==
  ASSUME TrackerSound, NEW k \in DOMAIN calls, NEW C, IsContext(C), Conforms(C, calls[k]), NEW level, NEW vs, NEW n,
         calls[k].fun \in DOMAIN functions
  PROVE  LET M == Compile(calls[k], C, level, vs, n)
         IN  /\ VersionSound(M, functions) /\ MadeFor(M, calls[k])
             /\ M.inlined = [i \in DOMAIN calls[k].types |-> InlineArg(calls[k].types[i], C.args[i])]
<1> DEFINE c == calls[k]
           M == Compile(c, C, level, vs, n)
<1>1. Len(C.args) \in Nat
  BY ArgumentCount, CallsAssumption DEF IsContext, Conforms
<1>2. IsFiniteSet(DOMAIN functions)
  BY DEF TrackerSound
<1>3. /\ IsModule(M) /\ M.target = c.fun /\ M.name = functions[c.fun].name /\ M.mapping = functions[c.fun].unit
      /\ M.inlined = [i \in DOMAIN c.types |-> InlineArg(c.types[i], C.args[i])]
  BY <1>1, <1>2, CompileInlines
<1> HIDE DEF M
<1>4. functions[c.fun].unit \in DOMAIN units
  BY RegisteredUnit
<1>5. VersionSound(M, functions)
  BY <1>3, <1>4 DEF VersionSound
<1>6. QED BY <1>3, <1>5 DEF M, MadeFor

LEMMA CInit == Init => CInv
<1> SUFFICES ASSUME Init PROVE CInv
  OBVIOUS
<1>1. TrackerSound
  BY TrackerInitSound DEF Init
<1>2. entries = <<>> /\ versions = <<>> /\ versions \in Seq({}) /\ DOMAIN entries = {} /\ DOMAIN versions = {}
  BY DEF Init
<1>3. QED BY <1>1, <1>2, JInit DEF CInv, BeforeMain, VersionsSound, EntriesSound

LEMMA CConstruct ==
  ASSUME CInv, NEW u \in DOMAIN units, Construct(u)
  PROVE  CInv'
<1>1. Register(u) /\ UNCHANGED <<entries, versions, last, ended>>
  BY DEF Construct, jitVars
<1>2. TrackerSound'
  BY <1>1, RegisterSound DEF CInv
<1>3. DOMAIN entries = {} /\ DOMAIN versions = {}
  BY <1>1 DEF CInv, BeforeMain, Register
<1>4. BeforeMain' /\ EntriesSound' /\ VersionsSound'
  BY <1>1, <1>3 DEF CInv, BeforeMain, EntriesSound, VersionsSound
<1>5. JInv'
  BY JStep DEF CInv, Next
<1>6. QED BY <1>2, <1>4, <1>5 DEF CInv

LEMMA CCall ==
  ASSUME CInv, NEW k \in DOMAIN calls, Call(calls[k])
  PROVE  CInv'
<1> DEFINE c == calls[k]
           C == Context(c)
<1>1. starting = {} /\ UNCHANGED <<starting, functions, nameToAddress>> /\ Callable(c)
  BY DEF Call, InMain, tracker
<1>2. TrackerSound' /\ BeforeMain'
  BY <1>1 DEF CInv, TrackerSound, BeforeMain
<1>3. JInv'
  BY CallPreserves DEF CInv
<1>4. ASSUME UNCHANGED <<entries, versions>> PROVE VersionsSound' /\ EntriesSound'
  <2>1. VersionsSound'
    BY <1>1, <1>4 DEF CInv, VersionsSound
  <2>2. EntriesSound'
    BY <1>1, <1>4, EntryKeepsSound DEF CInv, EntriesSound
  <2>3. QED BY <2>1, <2>2
<1>5. ASSUME NewEntry(c, C) PROVE VersionsSound' /\ EntriesSound'
  <2>1. IsContext(C) /\ Conforms(C, c)
    BY ContextShape, ContextConforms
  <2>2. ASSUME NEW i \in DOMAIN c.types, C.args[i].kind = "Module" PROVE C.args[i].data \in DOMAIN versions
    <3>1. c.args[i].is = "wrapper" /\ C.args[i].data = c.args[i].fun /\ i \in DOMAIN c.args
      BY <2>1, <2>2, CallsAssumption DEF Conforms
    <3>2. QED BY <1>1, <3>1 DEF Callable
  <2>0. PICK new, number : new = Len(entries) + 1 /\ number = Len(versions) + 1
    OBVIOUS
  <2> DEFINE M == Compile(c, C, C.opt_level[1], versions, number)
  <2>3. CASE HasGlobalMapping(c.fun)
    <3>1. /\ versions' = Append(versions, M)
          /\ entries' = Append(entries, [call |-> c, cxt |-> C, version |-> number])
      BY <1>5, <2>0, <2>3 DEF NewEntry
    <3>2. c.fun \in DOMAIN functions
      BY <2>3 DEF HasGlobalMapping
    <3>3. /\ VersionSound(M, functions)
          /\ M.inlined = [i \in DOMAIN c.types |-> InlineArg(c.types[i], C.args[i])]
      BY <2>1, <3>2, CompiledSound DEF CInv
    <3> HIDE DEF M
    <3>4. /\ DOMAIN versions' = DOMAIN versions \cup {number} /\ number # 0
          /\ versions'[number] = M /\ \A n \in DOMAIN versions : versions'[n] = versions[n]
      BY <2>0, <3>1, AppendedVersion DEF CInv
    <3>5. /\ DOMAIN entries' = DOMAIN entries \cup {new}
          /\ entries'[new] = [call |-> c, cxt |-> C, version |-> number]
          /\ \A e \in DOMAIN entries : entries'[e] = entries[e]
      BY <2>0, <3>1, AppendedEntry DEF CInv, JInv
    <3>6. VersionsSound'
      BY <1>1, <3>1, <3>3, VersionsKeepSound DEF CInv
    <3>7. EntrySound(new)'
      <4> HIDE DEF C, c
      <4>1. entries'[new].call = c /\ entries'[new].cxt = C /\ entries'[new].version = number
        BY <3>5
      <4>2. c = calls[k]
        BY DEF c
      <4>3. versions'[number].inlined = [i \in DOMAIN c.types |-> InlineArg(c.types[i], C.args[i])']
        BY <1>1, <3>3, <3>4, InlineStays
      <4>4. QED BY <1>1, <2>1, <2>2, <3>2, <3>4, <4>1, <4>2, <4>3 DEF EntrySound
    <3>8. \A e \in DOMAIN entries : EntrySound(e)'
      BY <1>1, <3>4, <3>5, EntryKeepsSound DEF CInv, EntriesSound
    <3>9. QED BY <3>5, <3>6, <3>7, <3>8 DEF EntriesSound
  <2>4. CASE ~HasGlobalMapping(c.fun)
    <3>1. entries' = Append(entries, [call |-> c, cxt |-> C, version |-> 0]) /\ UNCHANGED versions
      BY <1>5, <2>4 DEF NewEntry
    <3>2. /\ DOMAIN entries' = DOMAIN entries \cup {new}
          /\ entries'[new] = [call |-> c, cxt |-> C, version |-> 0]
          /\ \A e \in DOMAIN entries : entries'[e] = entries[e]
      BY <2>0, <3>1, AppendedEntry DEF CInv, JInv
    <3>3. VersionsSound'
      BY <1>1, <3>1 DEF CInv, VersionsSound
    <3>4. EntrySound(new)'
      <4> HIDE DEF C, c
      <4>1. entries'[new].call = c /\ entries'[new].cxt = C /\ entries'[new].version = 0
        BY <3>2
      <4>2. c = calls[k]
        BY DEF c
      <4>3. QED BY <1>1, <2>1, <2>2, <3>1, <4>1, <4>2 DEF EntrySound
    <3>5. \A e \in DOMAIN entries : EntrySound(e)'
      BY <1>1, <3>1, <3>2, EntryKeepsSound DEF CInv, EntriesSound
    <3>6. QED BY <3>2, <3>3, <3>4, <3>5 DEF EntriesSound
  <2>5. QED BY <2>3, <2>4
<1>6. VersionsSound' /\ EntriesSound'
  BY <1>4, <1>5 DEF Call
<1>7. QED BY <1>2, <1>3, <1>6 DEF CInv

LEMMA CTune ==
  ASSUME CInv, NEW t \in DOMAIN entries, Tune(t)
  PROVE  CInv'
<1>0. PICK number : number = Len(versions) + 1
  OBVIOUS
<1>1. PICK D \in Turnings(entries[t].cxt), level \in Levels :
        /\ entries' = [entries EXCEPT ![t].cxt = D, ![t].version = number]
        /\ versions' = Append(versions, Compile(entries[t].call, D, level, versions, number))
  BY <1>0 DEF Tune
<1>2. entries[t].version # 0 /\ starting = {} /\ UNCHANGED <<starting, functions, nameToAddress>>
  BY DEF Tune, InMain, tracker
<1>3. TrackerSound' /\ BeforeMain'
  BY <1>2 DEF CInv, TrackerSound, BeforeMain
<1>4. JInv'
  BY TunePreserves DEF CInv
<1>5. PICK k \in DOMAIN calls :
        /\ entries[t].call = calls[k] /\ Conforms(entries[t].cxt, calls[k])
        /\ \A i \in DOMAIN calls[k].types :
             entries[t].cxt.args[i].kind = "Module" => entries[t].cxt.args[i].data \in DOMAIN versions
        /\ entries[t].call.fun \in DOMAIN functions
  BY <1>2 DEF CInv, EntriesSound, EntrySound
<1>6. IsEntry(entries[t]) /\ IsContext(entries[t].cxt)
  BY DEF CInv, JInv, EntriesShape, IsEntry
<1>7. IsContext(D) /\ Turned(entries[t].cxt, D) /\ Conforms(D, calls[k])
  BY <1>1, <1>5, <1>6, TurningsTurn, TurningsConform
<1>8. \A i \in DOMAIN calls[k].types : D.args[i].kind = "Module" => D.args[i].data \in DOMAIN versions
  BY <1>5, <1>7 DEF Turned, Conforms
<1> DEFINE M == Compile(calls[k], D, level, versions, number)
<1>9. /\ VersionSound(M, functions)
      /\ M.inlined = [i \in DOMAIN calls[k].types |-> InlineArg(calls[k].types[i], D.args[i])]
  BY <1>5, <1>7, CompiledSound DEF CInv
<1>10. versions' = Append(versions, M)
  BY <1>1, <1>5
<1> HIDE DEF M
<1>11. /\ DOMAIN versions' = DOMAIN versions \cup {number} /\ number # 0
       /\ versions'[number] = M /\ \A n \in DOMAIN versions : versions'[n] = versions[n]
  BY <1>0, <1>10, AppendedVersion DEF CInv
<1>12. VersionsSound'
  BY <1>2, <1>9, <1>10, VersionsKeepSound DEF CInv
<1>13. /\ DOMAIN entries' = DOMAIN entries
       /\ entries'[t].call = calls[k] /\ entries'[t].cxt = D /\ entries'[t].version = number
       /\ \A e \in DOMAIN entries : e # t => entries'[e] = entries[e]
  BY <1>1, <1>5, <1>6 DEF IsEntry
<1>14. EntrySound(t)'
  <2>1. versions'[number].inlined = [i \in DOMAIN calls[k].types |-> InlineArg(calls[k].types[i], D.args[i])']
    BY <1>2, <1>9, <1>11, InlineStays
  <2>2. calls[k].fun \in DOMAIN functions'
    BY <1>2, <1>5
  <2>3. QED BY <1>7, <1>8, <1>11, <1>13, <2>1, <2>2 DEF EntrySound
<1>15. \A e \in DOMAIN entries : e # t => EntrySound(e)'
  BY <1>2, <1>11, <1>13, EntryKeepsSound DEF CInv, EntriesSound
<1>16. EntriesSound'
  BY <1>13, <1>14, <1>15 DEF EntriesSound
<1>17. QED BY <1>3, <1>4, <1>12, <1>16 DEF CInv

LEMMA CReload ==
  ASSUME CInv, NEW n \in DOMAIN versions, Reload(n)
  PROVE  CInv'
<1> DEFINE M == [versions[n] EXCEPT !.mapping = functions[nameToAddress[versions[n].name]].unit]
<1>1. /\ versions' = Append(versions, M) /\ starting = {}
      /\ UNCHANGED <<entries, last, starting, functions, nameToAddress>>
  BY DEF Reload, InMain, tracker
<1>2. TrackerSound' /\ BeforeMain' /\ JInv'
  BY <1>1, JStep DEF CInv, TrackerSound, BeforeMain, Next
<1>3. VersionSound(versions[n], functions)
  BY DEF CInv, VersionsSound
<1>4. functions[nameToAddress[versions[n].name]].unit \in DOMAIN units
  BY <1>3, RegisteredUnit DEF CInv, VersionSound
<1>5. VersionSound(M, functions)
  BY <1>3, <1>4 DEF VersionSound, IsModule
<1> HIDE DEF M
<1>6. VersionsSound'
  BY <1>1, <1>5, VersionsKeepSound DEF CInv
<1>7. DOMAIN versions \subseteq DOMAIN versions' /\ \A m \in DOMAIN versions : versions'[m] = versions[m]
  BY <1>1, AppendedVersion DEF CInv
<1>8. EntriesSound'
  BY <1>1, <1>7, EntryKeepsSound DEF CInv, EntriesSound
<1>9. QED BY <1>2, <1>6, <1>8 DEF CInv

LEMMA CStep == CInv /\ [Next]_vars => CInv'
<1> SUFFICES ASSUME CInv, [Next]_vars PROVE CInv'
  OBVIOUS
<1>1. CASE UNCHANGED vars
  <2>1. UNCHANGED <<starting, functions, nameToAddress, entries, versions, last, ended>>
    BY <1>1 DEF vars, tracker, jitVars
  <2>2. JInv' /\ TrackerSound' /\ BeforeMain' /\ VersionsSound'
    BY <1>1, <2>1, JStep DEF CInv, TrackerSound, BeforeMain, VersionsSound
  <2>3. EntriesSound'
    BY <2>1, EntryKeepsSound DEF CInv, EntriesSound
  <2>4. QED BY <2>2, <2>3 DEF CInv
<1>2. QED BY <1>1, CConstruct, CCall, CTune, CReload DEF Next

LEMMA CInvBinds == CInv /\ TypesAgree => CallsBindAlike
<1> SUFFICES ASSUME CInv, TypesAgree, NEW e \in DOMAIN entries, entries[e].version # 0,
                    NEW i \in DOMAIN entries[e].call.types
             PROVE  LET type == entries[e].call.types[i]
                        arg == entries[e].call.args[i]
                        inlined == versions[entries[e].version].inlined[i]
                    IN  CASE arg.is = "placeholder" -> inlined = Argument("Forward", arg.n - 1)
                          [] arg.is = "knob" -> inlined.data \in arg.lo..arg.hi
                          [] arg.is = "value" /\ Integral(type) ->
                               (inlined.data = Converted(type, arg.value))
                                 <=> ~(type = "bool" /\ arg.value # 0 /\ arg.value % 2 = 0)
                          [] OTHER -> TRUE
  BY DEF CallsBindAlike
<1>1. PICK k \in DOMAIN calls :
        /\ entries[e].call = calls[k] /\ Conforms(entries[e].cxt, calls[k])
        /\ versions[entries[e].version].inlined[i] = InlineArg(calls[k].types[i], entries[e].cxt.args[i])
  BY DEF CInv, EntriesSound, EntrySound
<1> DEFINE type == calls[k].types[i]
           arg == calls[k].args[i]
           inlined == versions[entries[e].version].inlined[i]
<1>2. /\ arg.is = "placeholder" => inlined = Argument("Forward", arg.n - 1)
      /\ arg.is = "knob" => inlined.data \in arg.lo..arg.hi
      /\ arg.is = "value" /\ Integral(type) =>
           ((inlined.data = Converted(type, arg.value))
              <=> ~(type = "bool" /\ arg.value # 0 /\ arg.value % 2 = 0))
  BY <1>1, ConformingBinds
<1>3. entries[e].call.types[i] = type /\ entries[e].call.args[i] = arg
  BY <1>1
<1> HIDE DEF type, arg, inlined
<1>4. CASE arg.is = "placeholder"
  BY <1>2, <1>3, <1>4 DEF inlined
<1>5. CASE arg.is = "knob"
  BY <1>2, <1>3, <1>5 DEF inlined
<1>6. CASE arg.is = "value" /\ Integral(type)
  BY <1>2, <1>3, <1>6 DEF inlined
<1>7. CASE arg.is \notin {"placeholder", "knob"} /\ ~(arg.is = "value" /\ Integral(type))
  BY <1>3, <1>7
<1>8. QED BY <1>4, <1>5, <1>6, <1>7

\* In every program, with integers of any widths, what a compiled function passes on is what
\* the call bound, but for the even numbers other than 0 that are passed for a bool.
THEOREM CallsBindWhatTheySay == Spec => []CallsBindAlike
<1>1. Spec => []CInv
  BY CInit, CStep, PTL DEF Spec
<1>2. QED BY <1>1, WrapperTypesAgree, CInvBinds, PTL

------------------------------------------------------------------------------
(* References.                                                                *)

\* A reference of code to an object of its unit: a local object that is left open is a
\* variable, since the functions that an entry needs come with it.
RefSound(r) ==
  \E u \in DOMAIN units : \E g \in Objects(u) :
    r = <<u, g>> /\ (Object(u, g).local => g \in CollectLocalGlobals(u))

\* The name of a version, where targets are what the versions were made from, or of an
\* object that was registered.
VersionName(d, targets) ==
  \E n \in DOMAIN targets : \E u \in DOMAIN units : \E g \in Objects(u) :
    d = <<Name(u, g), <<"version", n>>>> /\ targets[n] = Address(u, g)

ObjectName(d) ==
  \E u \in DOMAIN units : \E g \in Objects(u) :
    d = <<Name(u, g), <<u, g>>>> /\ (IsConstant(u, g) \/ g \in units[u].export)

DefinitionSound(d, targets) == VersionName(d, targets) \/ ObjectName(d)

\* A reference is bound to something of its name.
BindingSound(b, targets) ==
  \E r, d : RefSound(r) /\ DefinitionSound(d, targets) /\ d[1] = Name(r[1], r[2]) /\ b = <<r, d[2]>>

CodeSound(M, targets) ==
  /\ \A r \in M.open : RefSound(r)
  /\ \A d \in M.visible : DefinitionSound(d, targets)
  /\ \A b \in M.bound : BindingSound(b, targets)

\* More versions leave what is known as it is.
LEMMA MoreTargets ==
  ASSUME NEW T, NEW U, DOMAIN T \subseteq DOMAIN U, \A n \in DOMAIN T : U[n] = T[n],
         NEW M, CodeSound(M, T)
  PROVE  CodeSound(M, U)
<1>1. ASSUME NEW d, DefinitionSound(d, T) PROVE DefinitionSound(d, U)
  BY <1>1 DEF DefinitionSound, VersionName
<1>2. \A b : BindingSound(b, T) => BindingSound(b, U)
  BY <1>1 DEF BindingSound
<1>3. QED BY <1>1, <1>2 DEF CodeSound

\* Which functions an entry needs: all that it refers to, directly or not.
LEMMA Referenced ==
  ASSUME NEW u \in DOMAIN units, NEW entry \in Objects(u)
  PROVE  \E all \in SUBSET Objects(u) :
           /\ entry \in all /\ GetReferencedFromEntry(u, entry) = {g \in all : Function(u, g)}
           /\ \A g \in all : Object(u, g).def => Object(u, g).refs \subseteq all
<1> DEFINE D == Objects(u)
           n == Cardinality(D)
           step == [g \in D |-> IF Object(u, g).def THEN Object(u, g).refs ELSE {}]
           Loop(f) == f = [k \in 0..n |->
             IF k = 0 THEN {entry}
             ELSE LET before == f[k - 1]
                  IN  before \cup UNION {Object(u, g).refs : g \in {h \in before : Object(u, h).def}}]
           grow == [kx \in (1..n) \X SUBSET D |-> kx[2] \cup UNION {step[x] : x \in kx[2]}]
           h == CHOOSE f : Loop(f)
<1>1. IsFiniteSet(D) /\ n \in Nat /\ step \in [D -> SUBSET D]
  <2>1. IsFiniteSet(D) /\ \A g \in D : Object(u, g).refs \subseteq D
    BY ProgramAssumption
  <2> HIDE DEF D
  <2>2. QED BY <2>1, FS_CardinalityType
<1>2. \A A \in SUBSET D : UNION {Object(u, g).refs : g \in {x \in A : Object(u, x).def}} = UNION {step[x] : x \in A}
  <2> HIDE DEF D
  <2>1. QED OBVIOUS
<1>3. \E f : Loop(f)
  <2>1. {entry} \in SUBSET D
    OBVIOUS
  <2>2. grow \in [(1..n) \X SUBSET D -> SUBSET D]
    <3> HIDE DEF D, n, step
    <3>1. QED BY <1>1
  <2>3. PICK f : Rounds(n, {entry}, grow, SUBSET D, f)
    <3> DEFINE S == SUBSET D
    <3> HIDE DEF S, grow, n
    <3>1. {entry} \in S /\ grow \in [(1..n) \X S -> S]
      BY <2>1, <2>2 DEF S
    <3>2. \E f : Rounds(n, {entry}, grow, S, f)
      BY <1>1, <3>1, RoundsExist
    <3>3. QED BY <3>2 DEF S
  <2>4. f \in [0..n -> SUBSET D] /\ f[0] = {entry} /\ \A k \in 1..n : f[k] = grow[<<k, f[k - 1]>>]
    BY <2>3 DEF Rounds
  <2>5. \A k \in 1..n : f[k] = f[k - 1] \cup UNION {step[x] : x \in f[k - 1]} /\ f[k - 1] \in SUBSET D
    <3> HIDE DEF D, n, step
    <3>1. \A k \in 1..n : k - 1 \in 0..n
      BY <1>1
    <3>2. QED BY <2>4, <3>1
  <2>6. \A k \in 1..n :
          f[k] = f[k - 1] \cup UNION {Object(u, g).refs : g \in {x \in f[k - 1] : Object(u, x).def}}
    <3> HIDE DEF D, n, step
    <3>1. QED BY <1>2, <2>5
  <2>7. Loop(f)
    <3> HIDE DEF D, n, step, grow
    <3>1. \A k \in 0..n : k = 0 \/ k \in 1..n
      BY <1>1
    <3>2. QED BY <2>4, <2>6, <3>1
  <2> HIDE DEF Loop
  <2>8. QED BY <2>7
<1>4. Loop(h)
  <2> HIDE DEF Loop
  <2>1. QED BY <1>3
<1>5. GetReferencedFromEntry(u, entry) = {g \in h[n] : Function(u, g)}
  BY DEF GetReferencedFromEntry
<1> HIDE DEF h
<1>6. h[0] = {entry} /\ \A k \in 0..(n - 1) :
        h[k + 1] = h[k] \cup UNION {Object(u, g).refs : g \in {x \in h[k] : Object(u, x).def}}
  <2> HIDE DEF n
  <2>1. 0 \in 0..n /\ \A k \in 0..(n - 1) : k + 1 \in 0..n /\ k + 1 # 0 /\ (k + 1) - 1 = k
    BY <1>1
  <2>2. QED BY <1>4, <2>1
<1>7. \A k \in 0..n : h[k] \subseteq D
  <2> DEFINE A == {k \in 0..n : h[k] \subseteq D}
  <2>1. 0 \in A
    BY <1>1, <1>6
  <2>2. ASSUME NEW k \in 0..(n - 1), k \in A PROVE k + 1 \in A
    <3>1. h[k] \in SUBSET D
      BY <2>2
    <3>2. h[k + 1] = h[k] \cup UNION {step[x] : x \in h[k]}
      <4> HIDE DEF step, D, n
      <4>1. QED BY <1>2, <1>6, <3>1
    <3>3. h[k + 1] \subseteq D
      <4> HIDE DEF step, D, n
      <4>1. QED BY <1>1, <3>1, <3>2
    <3> HIDE DEF D
    <3>4. QED BY <1>1, <3>3
  <2>3. \A k \in 0..n : k \in A
    <3> HIDE DEF A, n
    <3>1. QED BY <1>1, <2>1, <2>2, UpTo
  <2>4. QED BY <2>3
<1>8. \A k \in 0..(n - 1) : h[k + 1] = h[k] \cup UNION {step[x] : x \in h[k]}
  <2> HIDE DEF step, D, n
  <2>1. \A k \in 0..(n - 1) : h[k] \in SUBSET D
    BY <1>1, <1>7
  <2>2. QED BY <1>2, <1>6, <2>1
<1>9. entry \in h[n] /\ h[n] \subseteq D /\ \A x \in h[n] : step[x] \subseteq h[n]
  <2>1. entry \in D /\ h[0] = {entry}
    BY <1>6
  <2> HIDE DEF step, D
  <2>2. QED BY <1>1, <1>8, <2>1, Saturates
<1>10. \A g \in h[n] : Object(u, g).def => Object(u, g).refs \subseteq h[n]
  BY <1>9
<1> HIDE DEF n
<1>11. QED BY <1>5, <1>9, <1>10

\* The bitcode of an object that is registered.
LEMMA BitcodeSound ==
  ASSUME NEW u \in DOMAIN units, NEW entry \in CollectObjectsToJIT(u), NEW targets
  PROVE  CodeSound(Bitcode(u, entry), targets)
<1> DEFINE B == Bitcode(u, entry)
           kept == Kept(u, entry)
<1>1. entry \in Objects(u) /\ Object(u, entry).def /\ (IsConstant(u, entry) \/ entry \in units[u].export)
  BY CollectedObjects
<1>2. PICK all \in SUBSET Objects(u) :
        /\ entry \in all /\ GetReferencedFromEntry(u, entry) = {g \in all : Function(u, g)}
        /\ \A g \in all : Object(u, g).def => Object(u, g).refs \subseteq all
  BY <1>1, Referenced
<1>3. \A g : g \in kept <=> /\ g \in Objects(u) /\ Object(u, g).def
                            /\ g = entry \/ (g \in all /\ Function(u, g))
  BY <1>1, <1>2 DEF Kept
<1>4. ASSUME NEW g \in Declared(u, entry)
      PROVE  g \in Objects(u) /\ (Object(u, g).local => g \in CollectLocalGlobals(u))
  <2>1. PICK f \in kept : g \in Object(u, f).refs /\ g \notin kept
    BY DEF Declared
  <2>2. g \in all /\ g \in Objects(u)
    BY <1>2, <1>3, <2>1
  <2>3. Object(u, g).local => Object(u, g).def
    BY <2>2, ProgramAssumption
  <2>4. QED BY <1>3, <2>1, <2>2, <2>3 DEF CollectLocalGlobals
<1>5. \A g \in Exposed(u, entry) : g \in Objects(u) /\ (IsConstant(u, g) \/ g \in units[u].export)
  BY <1>1, <1>3 DEF Exposed, IsConstant
<1>6. B.open = {u} \X Declared(u, entry) /\ B.bound = {} /\ B.visible = {<<Name(u, g), <<u, g>>>> : g \in Exposed(u, entry)}
  BY DEF Bitcode
<1> HIDE DEF B
<1>7. \A r \in B.open : RefSound(r)
  BY <1>4, <1>6 DEF RefSound
<1>8. \A d \in B.visible : DefinitionSound(d, targets)
  BY <1>5, <1>6 DEF DefinitionSound, ObjectName
<1>9. QED BY <1>6, <1>7, <1>8 DEF CodeSound, B

LEMMA LinksSound ==
  ASSUME NEW M, IsModule(M), NEW B, NEW entry, NEW targets, CodeSound(M, targets), CodeSound(B, targets)
  PROVE  CodeSound(Links(M, B, entry), targets)
<1> DEFINE N == Links(M, B, entry)
           all == B.visible \cup {d \in M.visible : d[1] \notin {e[1] : e \in B.visible}}
           open == M.open \cup B.open
<1>1. /\ N.open = {r \in open : Met(r, all) = {}} /\ N.visible = all \ {entry}
      /\ N.bound = M.bound \cup B.bound \cup UNION {{r} \X Met(r, all) : r \in open}
  <2>1. PICK erased :
          N = [M EXCEPT !.open = {r \in open : Met(r, all) = {}},
                        !.bound = M.bound \cup B.bound \cup UNION {{r} \X Met(r, all) : r \in open},
                        !.visible = all \ {entry}, !.erased = erased]
    BY DEF Links
  <2> DEFINE o == {r \in open : Met(r, all) = {}}
             b == M.bound \cup B.bound \cup UNION {{r} \X Met(r, all) : r \in open}
             v == all \ {entry}
  <2> HIDE DEF N, o, b, v
  <2>2. N = [M EXCEPT !.open = o, !.bound = b, !.visible = v, !.erased = erased]
    BY <2>1 DEF o, b, v
  <2>3. N = [target |-> M.target, name |-> M.name, mapping |-> M.mapping, inlined |-> M.inlined, open |-> o,
             bound |-> b, visible |-> v, erased |-> erased, throws |-> M.throws]
    BY <2>2 DEF IsModule
  <2>4. N.open = o /\ N.bound = b /\ N.visible = v
    BY <2>3
  <2>5. QED BY <2>4 DEF o, b, v
<1>2. (\A d \in all : DefinitionSound(d, targets)) /\ \A r \in open : RefSound(r)
  BY DEF CodeSound
<1> HIDE DEF all, open, N
<1>3. ASSUME NEW r \in open, NEW x \in Met(r, all) PROVE BindingSound(<<r, x>>, targets)
  <2>1. PICK d \in all : d[1] = Name(r[1], r[2]) /\ x = d[2]
    BY DEF Met
  <2>2. QED BY <1>2, <2>1 DEF BindingSound
<1>4. \A b \in N.bound : BindingSound(b, targets)
  <2>1. \A b \in M.bound \cup B.bound : BindingSound(b, targets)
    BY DEF CodeSound
  <2>2. \A b \in UNION {{r} \X Met(r, all) : r \in open} : BindingSound(b, targets)
    BY <1>3
  <2>3. QED BY <1>1, <2>1, <2>2
<1>5. (\A r \in N.open : RefSound(r)) /\ \A d \in N.visible : DefinitionSound(d, targets)
  BY <1>1, <1>2
<1>6. QED BY <1>4, <1>5 DEF CodeSound, N

LEMMA LinksAllSound ==
  ASSUME NEW M, IsModule(M), NEW targets, CodeSound(M, targets), NEW linked, Len(linked) \in Nat,
         \A i \in 1..Len(linked) : \A m \in linked[i] : CodeSound(m.bitcode, targets)
  PROVE  CodeSound(LinksAll(M, linked), targets)
<1> DEFINE n == Len(linked)
<1>1. PICK h : /\ h[0] = M /\ h[n] = LinksAll(M, linked)
               /\ \A k \in 0..(n - 1) : h[k + 1] = LinksOne(h[k], linked[k + 1])
  BY LinksAllSteps
<1> DEFINE A == {k \in 0..n : IsModule(h[k]) /\ CodeSound(h[k], targets)}
<1>2. 0 \in A
  BY <1>1
<1>3. ASSUME NEW k \in 0..(n - 1), k \in A PROVE k + 1 \in A
  <2>1. IsModule(h[k]) /\ CodeSound(h[k], targets) /\ k + 1 \in 1..n
    BY <1>3
  <2>2. IsModule(LinksOne(h[k], linked[k + 1]))
    BY <2>1, LinksOneKeeps
  <2>3. CodeSound(LinksOne(h[k], linked[k + 1]), targets)
    <3>1. CASE linked[k + 1] = {}
      BY <2>1, <3>1 DEF LinksOne
    <3>2. CASE linked[k + 1] # {}
      <4>1. PICK m \in linked[k + 1] : LinksOne(h[k], linked[k + 1]) = Links(h[k], m.bitcode, m.entry)
        BY <3>2 DEF LinksOne
      <4>2. CodeSound(m.bitcode, targets)
        BY <2>1, <4>1
      <4>3. QED BY <2>1, <4>1, <4>2, LinksSound
    <3>3. QED BY <3>1, <3>2
  <2>4. QED BY <1>1, <2>1, <2>2, <2>3
<1>4. \A k \in 0..n : k \in A
  <2> HIDE DEF A
  <2>1. QED BY <1>2, <1>3, UpTo
<1>5. n \in A
  BY <1>4
<1>6. QED BY <1>1, <1>5

\* What the tables have of a function is the bitcode of an object of its address.
LEMMA RegisteredCode ==
  ASSUME TrackerSound, NEW a \in DOMAIN functions, NEW targets
  PROVE  /\ CodeSound(Bitcode(functions[a].unit, functions[a].entry), targets)
         /\ \E u \in DOMAIN units : \E g \in Objects(u) : functions[a].name = Name(u, g) /\ a = Address(u, g)
<1>1. PICK u \in DOMAIN units \ starting :
        \E g \in CollectObjectsToJIT(u) : functions[a] = Info(u, g) /\ a = Address(u, g)
  BY DEF TrackerSound
<1>2. PICK g \in CollectObjectsToJIT(u) : functions[a] = Info(u, g) /\ a = Address(u, g)
  BY <1>1
<1>3. functions[a].unit = u /\ functions[a].entry = g /\ functions[a].name = Name(u, g)
  BY <1>2 DEF Info
<1>4. CodeSound(Bitcode(u, g), targets) /\ g \in Objects(u)
  BY <1>1, <1>2, BitcodeSound, CollectedObjects
<1>5. QED BY <1>1, <1>2, <1>3, <1>4

\* The code of version n, which targets know, when that of the versions it links is sound.
LEMMA CompiledCode ==
  ASSUME TrackerSound, NEW c, NEW C, Len(C.args) \in Nat, NEW level, NEW vs, NEW n, NEW targets,
         c.fun \in DOMAIN functions, n \in DOMAIN targets, targets[n] = c.fun,
         \A i \in 1..Len(C.args) : C.args[i].kind = "Module" => CodeSound(vs[C.args[i].data], targets)
  PROVE  CodeSound(Compile(c, C, level, vs, n), targets)
<1> DEFINE G == GetModule(c.fun)
           linked == [i \in 1..Len(C.args) |-> LinkedFor(C.args[i], vs)]
           N == LinksAll(G, linked)
           I == InlineParameters(G, c.types, C, vs, n)
<1>1. IsModule(G) /\ G.name = functions[c.fun].name /\ CodeSound(G, targets)
  <2>1. IsModule(G) /\ G.name = functions[c.fun].name
    BY DEF GetModule, IsModule
  <2> DEFINE B == Bitcode(functions[c.fun].unit, functions[c.fun].entry)
  <2>2. CodeSound(B, targets)
    BY RegisteredCode
  <2>3. G.open = B.open /\ G.visible = B.visible /\ G.bound = B.bound
    <3> HIDE DEF B
    <3>1. QED BY DEF GetModule, B
  <2> HIDE DEF B, G
  <2>4. QED BY <2>1, <2>2, <2>3 DEF CodeSound
<1>2. \A a \in DOMAIN functions : CodeSound(OfAddress(a).bitcode, targets)
  BY RegisteredCode DEF OfAddress
<1>3. IsModule(N) /\ SameFunction(G, N) /\ CodeSound(N, targets)
  <2>1. Len(linked) = Len(C.args) /\ \A i \in 1..Len(C.args) : linked[i] = LinkedFor(C.args[i], vs)
    OBVIOUS
  <2>2. ASSUME NEW i \in 1..Len(C.args), NEW m \in LinkedFor(C.args[i], vs)
        PROVE  CodeSound(m.bitcode, targets)
    <3>1. CASE C.args[i].kind = "Ptr" /\ HasGlobalMapping(C.args[i].data)
      <4>1. m = OfAddress(C.args[i].data)
        BY <3>1 DEF LinkedFor
      <4>2. QED BY <1>2, <3>1, <4>1 DEF HasGlobalMapping
    <3>2. CASE C.args[i].kind = "Module"
      <4>1. m = OfVersion(C.args[i].data, vs[C.args[i].data])
        BY <3>2 DEF LinkedFor
      <4>2. m.bitcode = vs[C.args[i].data]
        BY <4>1 DEF OfVersion
      <4>3. QED BY <3>2, <4>2
    <3>3. CASE ~(C.args[i].kind = "Ptr" /\ HasGlobalMapping(C.args[i].data)) /\ C.args[i].kind # "Module"
      BY <3>3 DEF LinkedFor
    <3>4. QED BY <3>1, <3>2, <3>3
  <2> HIDE DEF linked, G
  <2>3. Len(linked) \in Nat /\ \A i \in 1..Len(linked) : \A m \in linked[i] : CodeSound(m.bitcode, targets)
    BY <2>1, <2>2
  <2>4. QED BY <1>1, <2>3, LinksAllKeeps, LinksAllSound
<1>4. DefinitionSound(<<G.name, <<"version", n>>>>, targets)
  BY <1>1, RegisteredCode DEF DefinitionSound, VersionName
<1>5. IsModule(I) /\ CodeSound(I, targets)
  <2> DEFINE visible == {d \in N.visible : d[1] # G.name} \cup {<<G.name, <<"version", n>>>>}
             inlined == [i \in DOMAIN c.types |-> InlineArg(c.types[i], C.args[i])]
  <2>1. I = [N EXCEPT !.inlined = inlined, !.visible = visible]
    BY DEF InlineParameters
  <2>2. \A d \in visible : DefinitionSound(d, targets)
    BY <1>3, <1>4 DEF CodeSound
  <2> HIDE DEF G, N, I, visible, inlined
  <2>3. IsModule(I) /\ I.open = N.open /\ I.bound = N.bound /\ I.visible = visible
    BY <1>3, <2>1 DEF IsModule
  <2>4. QED BY <1>3, <2>2, <2>3 DEF CodeSound
<1> DEFINE methods == {FirstMethod(hosts[C.args[v.param].data]) : v \in HostCalls(I, C, c.virtual)}
           D == DevirtualizeConstant(I, C, c.virtual, level)
<1>6. D = Compile(c, C, level, vs, n)
  BY DEF Compile
<1> HIDE DEF I
<1>7. CASE level = 0
  BY <1>5, <1>6, <1>7 DEF DevirtualizeConstant
<1>8. CASE level # 0 /\ \E a \in methods : ~HasGlobalMapping(a)
  <2>1. D = [I EXCEPT !.throws = TRUE]
    BY <1>8 DEF DevirtualizeConstant
  <2> HIDE DEF D
  <2>2. D.open = I.open /\ D.visible = I.visible /\ D.bound = I.bound
    BY <1>5, <2>1 DEF IsModule
  <2>3. QED BY <1>5, <1>6, <2>2 DEF CodeSound
<1>9. CASE level # 0 /\ ~\E a \in methods : ~HasGlobalMapping(a)
  <2> DEFINE all == [i \in 1..Cardinality(methods) |-> {OfAddress(SetToSeq(methods)[i])}]
  <2>1. D = LinksAll(I, all)
    BY <1>9 DEF DevirtualizeConstant
  <2>2. methods \subseteq DOMAIN functions
    BY <1>9 DEF HasGlobalMapping
  <2> HIDE DEF methods, D
  <2>3. Cardinality(methods) \in Nat /\ SetToSeq(methods) \in [1..Cardinality(methods) -> methods]
    BY <2>2, FS_Subset, Sequenced DEF TrackerSound
  <2>4. Len(all) \in Nat /\ \A i \in 1..Len(all) : \A m \in all[i] : CodeSound(m.bitcode, targets)
    BY <1>2, <2>2, <2>3
  <2> HIDE DEF all
  <2>5. CodeSound(D, targets)
    BY <1>5, <2>1, <2>4, LinksAllSound
  <2>6. QED BY <1>6, <2>5
<1>10. QED BY <1>7, <1>8, <1>9

TargetsOf(vs) == [n \in DOMAIN vs |-> vs[n].target]

VersionsCode == \A n \in DOMAIN versions : CodeSound(versions[n], TargetsOf(versions))

RInv == CInv /\ VersionsCode

\* What the versions, and M as one more, were made from.
Joins(T, M, number) ==
  /\ DOMAIN T = DOMAIN versions \cup {number} /\ T[number] = M.target
  /\ \A n \in DOMAIN versions : T[n] = versions[n].target

\* A version is added, whose code is sound if it is known itself.
LEMMA AddedCode ==
  ASSUME RInv, NEW M, NEW number, number = Len(versions) + 1, versions' = Append(versions, M),
         \A T : Joins(T, M, number) => CodeSound(M, T)
  PROVE  VersionsCode'
<1>1. /\ DOMAIN versions' = DOMAIN versions \cup {number}
      /\ versions'[number] = M /\ \A n \in DOMAIN versions : versions'[n] = versions[n]
  BY AppendedVersion DEF RInv, CInv
<1>2. PICK S, T : S = TargetsOf(versions) /\ T = TargetsOf(versions')
  OBVIOUS
<1>3. /\ DOMAIN S = DOMAIN versions /\ \A n \in DOMAIN versions : S[n] = versions[n].target
      /\ Joins(T, M, number)
  BY <1>1, <1>2 DEF TargetsOf, Joins
<1>4. CodeSound(M, T)
  BY <1>3
<1>5. ASSUME NEW n \in DOMAIN versions PROVE CodeSound(versions[n], T)
  <2>1. DOMAIN S \subseteq DOMAIN T /\ \A m \in DOMAIN S : T[m] = S[m]
    BY <1>3 DEF Joins
  <2>2. CodeSound(versions[n], S)
    BY <1>2 DEF RInv, VersionsCode
  <2>3. QED BY <2>1, <2>2, MoreTargets
<1>6. \A n \in DOMAIN versions' : CodeSound(versions'[n], T)
  BY <1>1, <1>4, <1>5
<1>7. QED BY <1>2, <1>6 DEF VersionsCode

\* ... as is what is compiled for a call.
LEMMA AddedVersion ==
  ASSUME RInv, NEW k \in DOMAIN calls, NEW C, IsContext(C), Conforms(C, calls[k]), calls[k].fun \in DOMAIN functions,
         \A i \in DOMAIN calls[k].types : C.args[i].kind = "Module" => C.args[i].data \in DOMAIN versions,
         NEW level, versions' = Append(versions, Compile(calls[k], C, level, versions, Len(versions) + 1))
  PROVE  VersionsCode'
<1>0. PICK number : number = Len(versions) + 1
  OBVIOUS
<1> DEFINE M == Compile(calls[k], C, level, versions, number)
<1>1. M.target = calls[k].fun
  <2>1. TrackerSound /\ IsContext(C) /\ Conforms(C, calls[k]) /\ calls[k].fun \in DOMAIN functions
    BY DEF RInv, CInv
  <2>2. MadeFor(M, calls[k])
    BY <2>1, CompiledSound
  <2>3. QED BY <2>2 DEF MadeFor
<1>2. Len(C.args) \in Nat /\ 1..Len(C.args) = DOMAIN calls[k].types
  BY ArgumentCount, CallsAssumption DEF IsContext, Conforms
<1>3. versions' = Append(versions, M)
  BY <1>0
<1>4. ASSUME NEW T, Joins(T, M, number) PROVE CodeSound(M, T)
  <2>1. \A n \in DOMAIN versions : CodeSound(versions[n], T)
    <3> DEFINE S == TargetsOf(versions)
    <3>1. DOMAIN S = DOMAIN versions /\ \A n \in DOMAIN versions : S[n] = versions[n].target
      BY DEF TargetsOf
    <3>2. \A n \in DOMAIN versions : CodeSound(versions[n], S)
      BY DEF RInv, VersionsCode
    <3> HIDE DEF S, M
    <3>3. QED BY <1>4, <3>1, <3>2, MoreTargets DEF Joins
  <2>2. \A i \in 1..Len(C.args) : C.args[i].kind = "Module" => CodeSound(versions[C.args[i].data], T)
    BY <1>2, <2>1
  <2>3. number \in DOMAIN T /\ T[number] = calls[k].fun
    BY <1>1, <1>4 DEF Joins
  <2>4. QED BY <1>2, <2>2, <2>3, CompiledCode DEF RInv, CInv
<1> HIDE DEF M
<1>5. QED BY <1>0, <1>3, <1>4, AddedCode

LEMMA RStep == RInv /\ [Next]_vars => RInv'
<1> SUFFICES ASSUME RInv, [Next]_vars PROVE RInv'
  OBVIOUS
<1>1. CInv'
  BY CStep DEF RInv
<1>2. ASSUME UNCHANGED versions PROVE VersionsCode'
  BY <1>2 DEF RInv, VersionsCode
<1>3. ASSUME NEW k \in DOMAIN calls, Call(calls[k]) PROVE VersionsCode'
  <2> DEFINE c == calls[k]
             C == Context(c)
  <2>1. CASE NewEntry(c, C) /\ HasGlobalMapping(c.fun)
    <3>1. IsContext(C) /\ Conforms(C, c)
      BY ContextShape, ContextConforms
    <3>2. \A i \in DOMAIN c.types : C.args[i].kind = "Module" => C.args[i].data \in DOMAIN versions
      BY <1>3, <3>1, CallsAssumption DEF Call, Callable, Conforms
    <3>3. versions' = Append(versions, Compile(c, C, C.opt_level[1], versions, Len(versions) + 1))
      BY <2>1 DEF NewEntry
    <3>4. c.fun \in DOMAIN functions
      BY <2>1 DEF HasGlobalMapping
    <3>5. QED BY <3>1, <3>2, <3>3, <3>4, AddedVersion
  <2>2. CASE NewEntry(c, C) /\ ~HasGlobalMapping(c.fun)
    BY <1>2, <2>2 DEF NewEntry
  <2>3. QED BY <1>2, <1>3, <2>1, <2>2 DEF Call
<1>4. ASSUME NEW t \in DOMAIN entries, Tune(t) PROVE VersionsCode'
  <2>1. PICK D \in Turnings(entries[t].cxt), level \in Levels :
          versions' = Append(versions, Compile(entries[t].call, D, level, versions, Len(versions) + 1))
    BY <1>4 DEF Tune
  <2>2. PICK k \in DOMAIN calls :
          /\ entries[t].call = calls[k] /\ Conforms(entries[t].cxt, calls[k])
          /\ \A i \in DOMAIN calls[k].types :
               entries[t].cxt.args[i].kind = "Module" => entries[t].cxt.args[i].data \in DOMAIN versions
          /\ entries[t].call.fun \in DOMAIN functions
    BY <1>4 DEF Tune, RInv, CInv, EntriesSound, EntrySound
  <2>3. IsContext(entries[t].cxt)
    BY DEF RInv, CInv, JInv, EntriesShape, IsEntry
  <2>4. IsContext(D) /\ Turned(entries[t].cxt, D) /\ Conforms(D, calls[k])
    BY <2>1, <2>2, <2>3, TurningsTurn, TurningsConform
  <2>5. \A i \in DOMAIN calls[k].types : D.args[i].kind = "Module" => D.args[i].data \in DOMAIN versions
    BY <2>2, <2>4 DEF Turned, Conforms
  <2>6. QED BY <2>1, <2>2, <2>4, <2>5, AddedVersion
<1>5. ASSUME NEW n \in DOMAIN versions, Reload(n) PROVE VersionsCode'
  <2>0. PICK number : number = Len(versions) + 1
    OBVIOUS
  <2> DEFINE M == [versions[n] EXCEPT !.mapping = functions[nameToAddress[versions[n].name]].unit]
  <2>1. versions' = Append(versions, M)
    BY <1>5 DEF Reload
  <2>2. IsModule(versions[n])
    BY DEF RInv, CInv, VersionsSound, VersionSound
  <2>3. M.open = versions[n].open /\ M.visible = versions[n].visible /\ M.bound = versions[n].bound
    BY <2>2 DEF IsModule
  <2> HIDE DEF M
  <2>4. ASSUME NEW T, Joins(T, M, number) PROVE CodeSound(M, T)
    <3> DEFINE S == TargetsOf(versions)
    <3>1. DOMAIN S = DOMAIN versions /\ \A m \in DOMAIN versions : S[m] = versions[m].target
      BY DEF TargetsOf
    <3>2. CodeSound(versions[n], S)
      BY DEF RInv, VersionsCode
    <3> HIDE DEF S
    <3>3. CodeSound(versions[n], T)
      BY <2>4, <3>1, <3>2, MoreTargets DEF Joins
    <3>4. QED BY <2>3, <3>3 DEF CodeSound
  <2>5. QED BY <2>0, <2>1, <2>4, AddedCode
<1>6. VersionsCode'
  BY <1>2, <1>3, <1>4, <1>5 DEF Next, Construct, vars, jitVars
<1>7. QED BY <1>1, <1>6 DEF RInv

\* A binding is to what was meant, or to a thing of the same name.
LEMMA BindingMeans ==
  ASSUME NEW vs, NEW b, BindingSound(b, TargetsOf(vs))
  PROVE  LET r == b[1]
         IN  \/ /\ b[2][1] = "version"
                /\ (\E n \in DOMAIN vs : vs[n].target = Address(r[1], r[2])) \/ NameShared(r)
             \/ /\ b[2][1] # "version"
                /\ Address(b[2][1], b[2][2]) = Address(r[1], r[2]) \/ NameShared(r)
                /\ IsConstant(b[2][1], b[2][2]) \/ b[2][2] \in units[b[2][1]].export
<1>1. PICK r, d : /\ RefSound(r) /\ DefinitionSound(d, TargetsOf(vs)) /\ d[1] = Name(r[1], r[2])
                  /\ b = <<r, d[2]>>
  BY DEF BindingSound
<1>2. b[1] = r /\ b[2] = d[2]
  BY <1>1
<1>3. CASE VersionName(d, TargetsOf(vs))
  <2>1. PICK n \in DOMAIN vs : \E u \in DOMAIN units : \E g \in Objects(u) :
          d = <<Name(u, g), <<"version", n>>>> /\ vs[n].target = Address(u, g)
    BY <1>3 DEF VersionName, TargetsOf
  <2>2. PICK u \in DOMAIN units : \E g \in Objects(u) :
          d = <<Name(u, g), <<"version", n>>>> /\ vs[n].target = Address(u, g)
    BY <2>1
  <2>3. PICK g \in Objects(u) : d = <<Name(u, g), <<"version", n>>>> /\ vs[n].target = Address(u, g)
    BY <2>2
  <2>4. d[1] = Name(u, g) /\ d[2] = <<"version", n>>
    BY <2>3
  <2>5. b[2][1] = "version" /\ Name(u, g) = Name(r[1], r[2])
    BY <1>1, <1>2, <2>4
  <2>6. Address(u, g) # Address(r[1], r[2]) => NameShared(r)
    BY <2>5 DEF NameShared
  <2>7. (\E m \in DOMAIN vs : vs[m].target = Address(r[1], r[2])) \/ NameShared(r)
    BY <2>3, <2>6
  <2>8. QED BY <1>2, <2>5, <2>7
<1>4. CASE ObjectName(d)
  <2>1. PICK u \in DOMAIN units : \E g \in Objects(u) :
          d = <<Name(u, g), <<u, g>>>> /\ (IsConstant(u, g) \/ g \in units[u].export)
    BY <1>4 DEF ObjectName
  <2>2. PICK g \in Objects(u) : d = <<Name(u, g), <<u, g>>>> /\ (IsConstant(u, g) \/ g \in units[u].export)
    BY <2>1
  <2>3. d[1] = Name(u, g) /\ d[2] = <<u, g>>
    BY <2>2
  <2>4. b[2][1] = u /\ b[2][2] = g /\ Name(u, g) = Name(r[1], r[2]) /\ u # "version"
    BY <1>1, <1>2, <2>3, ProgramAssumption
  <2>5. Address(u, g) # Address(r[1], r[2]) => NameShared(r)
    BY <2>4 DEF NameShared
  <2>6. QED BY <1>2, <2>2, <2>4, <2>5
<1>5. QED BY <1>1, <1>3, <1>4 DEF DefinitionSound

\* What is left open has one meaning: the object's, or that of a thing of the same name;
\* or none.
LEMMA OpenMeans ==
  ASSUME NEW M, M.mapping \in DOMAIN units, NEW r, RefSound(r)
  PROVE  \/ Resolved(M, r) = {Address(r[1], r[2])}
         \/ Resolved(M, r) # {} /\ NameShared(r)
         \/ Resolved(M, r) = {} /\ ForeignLocal(M, r)
<1>1. PICK u \in DOMAIN units : \E g \in Objects(u) :
        r = <<u, g>> /\ (Object(u, g).local => g \in CollectLocalGlobals(u))
  BY DEF RefSound
<1>2. PICK g \in Objects(u) : r = <<u, g>> /\ (Object(u, g).local => g \in CollectLocalGlobals(u))
  BY <1>1
<1>3. r[1] = u /\ r[2] = g
  BY <1>2
<1> DEFINE name == Name(u, g)
           mine == Mapped(M.mapping, name)
           meant == IF mine # {} THEN mine ELSE Exported(name)
<1>4. Resolved(M, r) = {Address(o[1], o[2]) : o \in meant}
  BY <1>3 DEF Resolved
<1>5. ASSUME NEW o \in meant
      PROVE  \E w \in DOMAIN units : \E h \in Objects(w) : o = <<w, h>> /\ Name(w, h) = name
  <2>1. CASE o \in mine
    <3>1. PICK h \in CollectLocalGlobals(M.mapping) : o = <<M.mapping, h>> /\ Name(M.mapping, h) = name
      BY <2>1 DEF Mapped
    <3>2. h \in Objects(M.mapping)
      BY <3>1 DEF CollectLocalGlobals
    <3>3. QED BY <3>1, <3>2
  <2>2. CASE o \in Exported(name)
    <3>1. PICK w \in DOMAIN units :
            o \in {<<w, h>> : h \in {x \in Objects(w) : Object(w, x).def /\ ~Object(w, x).local /\ Name(w, x) = name}}
      BY <2>2 DEF Exported
    <3>2. QED BY <3>1
  <2>3. QED BY <2>1, <2>2
<1>6. ASSUME NEW o \in meant PROVE Address(o[1], o[2]) = Address(u, g) \/ NameShared(r)
  <2>1. PICK w \in DOMAIN units : \E h \in Objects(w) : o = <<w, h>> /\ Name(w, h) = name
    BY <1>5
  <2>2. PICK h \in Objects(w) : o = <<w, h>> /\ Name(w, h) = name
    BY <2>1
  <2>3. QED BY <1>3, <2>2 DEF NameShared
<1>7. ASSUME meant = {} PROVE ForeignLocal(M, r)
  <2>1. mine = {} /\ Exported(name) = {}
    BY <1>7
  <2>2. Object(u, g).local
    <3>1. SUFFICES ASSUME ~Object(u, g).local PROVE FALSE
      OBVIOUS
    <3>2. PICK w \in DOMAIN units : \E h \in Objects(w) :
            Object(w, h).def /\ ~Object(w, h).local /\ Name(w, h) = name
      BY <3>1, ProgramAssumption
    <3>3. PICK h \in Objects(w) : Object(w, h).def /\ ~Object(w, h).local /\ Name(w, h) = name
      BY <3>2
    <3>4. <<w, h>> \in {<<w, x>> : x \in {y \in Objects(w) : Object(w, y).def /\ ~Object(w, y).local /\ Name(w, y) = name}}
      BY <3>3
    <3>5. <<w, h>> \in Exported(name)
      BY <3>4 DEF Exported
    <3>6. QED BY <2>1, <3>5
  <2>3. g \in CollectLocalGlobals(u)
    BY <1>2, <2>2
  <2>4. u # M.mapping
    BY <2>1, <2>3 DEF Mapped
  <2>5. QED BY <1>3, <2>3, <2>4 DEF ForeignLocal
<1> HIDE DEF meant
<1>8. CASE meant = {}
  BY <1>4, <1>7, <1>8
<1>9. CASE meant # {} /\ ~NameShared(r)
  BY <1>3, <1>4, <1>6, <1>9
<1>10. CASE meant # {} /\ NameShared(r)
  BY <1>4, <1>10
<1>11. QED BY <1>8, <1>9, <1>10

LEMMA RInvResolves == RInv => ResolvesOriginals
<1> SUFFICES ASSUME RInv, NEW n \in DOMAIN versions
             PROVE  LET M == versions[n]
                    IN  /\ \A b \in M.bound :
                             LET r == b[1]
                             IN  \/ b[2][1] = "version" /\ (Specialized(r) \/ NameShared(r))
                                 \/ /\ b[2][1] # "version"
                                    /\ Address(b[2][1], b[2][2]) = Address(r[1], r[2]) \/ NameShared(r)
                                    /\ IsConstant(b[2][1], b[2][2]) \/ b[2][2] \in units[b[2][1]].export
                        /\ \A r \in M.open :
                             \/ Resolved(M, r) = {Address(r[1], r[2])}
                             \/ Resolved(M, r) # {} /\ NameShared(r)
                             \/ Resolved(M, r) = {} /\ ForeignLocal(M, r)
  BY DEF ResolvesOriginals
<1>1. versions[n].mapping \in DOMAIN units
  BY DEF RInv, CInv, VersionsSound, VersionSound
<1>2. CodeSound(versions[n], TargetsOf(versions))
  BY DEF RInv, VersionsCode
<1>3. \A b \in versions[n].bound : BindingSound(b, TargetsOf(versions))
  BY <1>2 DEF CodeSound
<1>4. \A r \in versions[n].open : RefSound(r)
  BY <1>2 DEF CodeSound
<1>5. QED BY <1>1, <1>3, <1>4, BindingMeans, OpenMeans DEF Specialized

\* In every program that links, with any calls, what the code of a version refers to is what
\* it referred to in its unit, or has the name of that, or is a local variable that the
\* version's own unit does not have.
THEOREM CodeMeansWhatItMeant == Spec => []ResolvesOriginals
<1>1. Init => RInv
  BY CInit DEF Init, RInv, VersionsCode
<1>2. QED BY <1>1, RStep, RInvResolves, PTL DEF Spec

------------------------------------------------------------------------------
(* What the plugin marks.                                                     *)

Modes == {"loaded", "stored"}

\* A step of the tracer stays in the graph.
LEMMA FollowStays ==
  ASSUME NEW u \in DOMAIN units, NEW x \in Modes \X DOMAIN units[u].ir
  PROVE  Follow(units[u].ir, {x}) \subseteq Modes \X DOMAIN units[u].ir
<1> DEFINE ir == units[u].ir
<1>1. \A v \in DOMAIN ir : ir[v].from \subseteq DOMAIN ir
  BY ProgramAssumption
<1>2. x[1] \in Modes /\ x[2] \in DOMAIN ir
  OBVIOUS
<1> HIDE DEF ir
<1>3. MayAliasWithLoadedValues(ir, x[2]) \subseteq Modes \X DOMAIN ir
  BY <1>1, <1>2 DEF MayAliasWithLoadedValues, Modes
<1>4. MayAliasWithStoredValues(ir, x[2]) \subseteq Modes \X DOMAIN ir
  <2>1. ir[x[2]].from \subseteq DOMAIN ir /\ Users(ir, x[2]) \subseteq DOMAIN ir
    BY <1>1, <1>2 DEF Users
  <2>2. CASE ir[x[2]].kind \in {"memcpy", "store"}
    <3>1. MayAliasWithStoredValues(ir, x[2]) = {"loaded"} \X ir[x[2]].from
      BY <2>2 DEF MayAliasWithStoredValues
    <3>2. QED BY <2>1, <3>1 DEF Modes
  <2>3. CASE ir[x[2]].kind \in {"alloca", "gep", "bitcast"}
    <3>1. MayAliasWithStoredValues(ir, x[2]) = {"stored"} \X Users(ir, x[2])
      BY <2>3 DEF MayAliasWithStoredValues
    <3>2. QED BY <2>1, <3>1 DEF Modes
  <2>4. CASE ir[x[2]].kind \notin {"memcpy", "store"} /\ ir[x[2]].kind \notin {"alloca", "gep", "bitcast"}
    <3>1. MayAliasWithStoredValues(ir, x[2]) = {}
      BY <2>4 DEF MayAliasWithStoredValues
    <3>2. QED BY <3>1
  <2>5. QED BY <2>2, <2>3, <2>4
<1>5. Follow(ir, {x}) \subseteq MayAliasWithLoadedValues(ir, x[2]) \cup MayAliasWithStoredValues(ir, x[2])
  BY DEF Follow
<1>6. QED BY <1>3, <1>4, <1>5 DEF ir

\* However long the way from a value to another, the tracer goes it to the end.
LEMMA TracedWhole ==
  ASSUME NEW u \in DOMAIN units, NEW v \in DOMAIN units[u].ir
  PROVE  \E all \in SUBSET (Modes \X DOMAIN units[u].ir) :
           /\ <<"loaded", v>> \in all /\ Traced(units[u].ir, v) = {p[2] : p \in all}
           /\ \A x \in all : Follow(units[u].ir, {x}) \subseteq all
<1> DEFINE ir == units[u].ir
           D == Modes \X DOMAIN ir
           n == 2 * Cardinality(DOMAIN ir)
           first == <<"loaded", v>>
           step == [x \in D |-> Follow(ir, {x})]
           Loop(f) == f = [k \in 0..n |->
             IF k = 0 THEN {first} ELSE LET before == f[k - 1] IN before \cup Follow(ir, before)]
           grow == [kx \in (1..n) \X SUBSET D |-> kx[2] \cup UNION {step[x] : x \in kx[2]}]
           h == CHOOSE f : Loop(f)
<1>1. IsFiniteSet(D) /\ n \in Nat /\ Cardinality(D) = n
  <2>1. IsFiniteSet(DOMAIN ir)
    BY ProgramAssumption
  <2>2. IsFiniteSet(Modes) /\ Cardinality(Modes) = 2
    <3>1. "loaded" # "stored"
      OBVIOUS
    <3>2. IsFiniteSet({"loaded"}) /\ Cardinality({"loaded"}) = 1
      BY FS_Singleton
    <3>3. Modes = {"loaded"} \cup {"stored"} /\ "stored" \notin {"loaded"}
      BY <3>1 DEF Modes
    <3>4. QED BY <3>2, <3>3, FS_AddElement
  <2> HIDE DEF ir
  <2>3. IsFiniteSet(D) /\ Cardinality(D) = Cardinality(Modes) * Cardinality(DOMAIN ir)
    BY <2>1, <2>2, FS_Product
  <2>4. Cardinality(DOMAIN ir) \in Nat
    BY <2>1, FS_CardinalityType
  <2> HIDE DEF D
  <2>5. QED BY <2>2, <2>3, <2>4
<1>2. step \in [D -> SUBSET D] /\ first \in D
  <2>1. \A x \in D : Follow(ir, {x}) \subseteq D
    BY FollowStays
  <2>2. first \in D
    BY DEF Modes
  <2> HIDE DEF D, ir, first
  <2>3. QED BY <2>1, <2>2
<1>3. \A A \in SUBSET D : Follow(ir, A) = UNION {step[x] : x \in A}
  <2>1. \A x \in D : step[x] = Follow(ir, {x})
    OBVIOUS
  <2> HIDE DEF D, ir, step
  <2>2. SUFFICES ASSUME NEW A \in SUBSET D PROVE Follow(ir, A) = UNION {step[x] : x \in A}
    OBVIOUS
  <2>3. UNION {step[x] : x \in A} = UNION {Follow(ir, {x}) : x \in A}
    <3>1. \A x \in A : step[x] = Follow(ir, {x})
      BY <2>1
    <3>2. QED BY <3>1
  <2>4. Follow(ir, A) = UNION {Follow(ir, {x}) : x \in A}
    BY DEF Follow
  <2>5. QED BY <2>3, <2>4
<1> HIDE DEF step
<1>4. \E f : Loop(f)
  <2>1. {first} \in SUBSET D
    BY <1>2
  <2>2. grow \in [(1..n) \X SUBSET D -> SUBSET D]
    <3> HIDE DEF D, n
    <3>1. QED BY <1>2
  <2>3. PICK f : Rounds(n, {first}, grow, SUBSET D, f)
    <3> DEFINE S == SUBSET D
    <3> HIDE DEF S, grow, n, first
    <3>1. {first} \in S /\ grow \in [(1..n) \X S -> S]
      BY <2>1, <2>2 DEF S
    <3>2. \E f : Rounds(n, {first}, grow, S, f)
      BY <1>1, <3>1, RoundsExist
    <3>3. QED BY <3>2 DEF S
  <2>4. f \in [0..n -> SUBSET D] /\ f[0] = {first} /\ \A k \in 1..n : f[k] = grow[<<k, f[k - 1]>>]
    BY <2>3 DEF Rounds
  <2>5. \A k \in 1..n : f[k] = f[k - 1] \cup UNION {step[x] : x \in f[k - 1]} /\ f[k - 1] \in SUBSET D
    <3> HIDE DEF D, n, first
    <3>1. \A k \in 1..n : k - 1 \in 0..n
      BY <1>1
    <3>2. QED BY <2>4, <3>1
  <2>6. \A k \in 1..n : f[k] = f[k - 1] \cup Follow(ir, f[k - 1])
    <3> HIDE DEF D, n, ir, first
    <3>1. QED BY <1>3, <2>5
  <2>7. Loop(f)
    <3> HIDE DEF D, n, grow, ir, first
    <3>1. \A k \in 0..n : k = 0 \/ k \in 1..n
      BY <1>1
    <3>2. QED BY <2>4, <2>6, <3>1
  <2> HIDE DEF Loop
  <2>8. QED BY <2>7
<1>5. Loop(h)
  <2> HIDE DEF Loop
  <2>1. QED BY <1>4
<1>6. Traced(ir, v) = {p[2] : p \in h[n]}
  BY DEF Traced
<1> HIDE DEF h
<1>7. h[0] = {first} /\ \A k \in 0..(n - 1) : h[k + 1] = h[k] \cup Follow(ir, h[k])
  <2> HIDE DEF n, ir, first
  <2>1. 0 \in 0..n /\ \A k \in 0..(n - 1) : k + 1 \in 0..n /\ k + 1 # 0 /\ (k + 1) - 1 = k
    BY <1>1
  <2>2. QED BY <1>5, <2>1
<1> HIDE DEF D, n, first, ir
<1>8. \A k \in 0..n : h[k] \subseteq D
  <2> DEFINE A == {k \in 0..n : h[k] \subseteq D}
  <2>1. 0 \in A
    BY <1>1, <1>2, <1>7
  <2>2. ASSUME NEW k \in 0..(n - 1), k \in A PROVE k + 1 \in A
    <3>1. h[k] \in SUBSET D
      BY <2>2
    <3>2. h[k + 1] = h[k] \cup UNION {step[x] : x \in h[k]}
      BY <1>3, <1>7, <3>1
    <3>3. h[k + 1] \subseteq D
      BY <1>2, <3>1, <3>2
    <3>4. QED BY <1>1, <3>3
  <2>3. \A k \in 0..n : k \in A
    <3> HIDE DEF A
    <3>1. QED BY <1>1, <2>1, <2>2, UpTo
  <2>4. QED BY <2>3
<1>9. \A k \in 0..(n - 1) : h[k + 1] = h[k] \cup UNION {step[x] : x \in h[k]}
  <2>1. \A k \in 0..(n - 1) : h[k] \in SUBSET D
    BY <1>1, <1>8
  <2>2. QED BY <1>3, <1>7, <2>1
<1>10. first \in h[n] /\ h[n] \subseteq D /\ \A x \in h[n] : step[x] \subseteq h[n]
  BY <1>1, <1>2, <1>7, <1>9, Saturates
<1>11. \A x \in h[n] : step[x] = Follow(ir, {x})
  BY <1>10 DEF step
<1>12. QED BY <1>6, <1>10, <1>11 DEF D, first, ir

\* What flows to jit() is among the objects that are found.
LEMMA FlowTraced ==
  ASSUME NEW k \in DOMAIN calls, FlowsToJit(calls[k])
  PROVE  calls[k].fun[2] \in DeduceObjectsToJIT(calls[k].unit)
<1> DEFINE c == calls[k]
           u == c.unit
           ir == units[u].ir
           flow == c.flow
           n == Len(flow)
<1>1. /\ u \in DOMAIN units /\ c.fun[2] \in Objects(u) /\ Function(u, c.fun[2])
  BY VirtualAssumption
<1>2. /\ flow # <<>> /\ flow[1] \in {"loaded"} \X units[u].jit
      /\ \A i \in 1..(n - 1) : flow[i + 1] \in Follow(ir, {flow[i]})
      /\ flow[n][2] = c.fun[2]
  BY DEF FlowsToJit
<1>3. PICK v \in units[u].jit : flow[1] = <<"loaded", v>>
  BY <1>2
<1>4. v \in DOMAIN ir
  BY <1>1, <1>3, ProgramAssumption
<1>5. PICK all \in SUBSET (Modes \X DOMAIN ir) :
        /\ <<"loaded", v>> \in all /\ Traced(ir, v) = {p[2] : p \in all}
        /\ \A x \in all : Follow(ir, {x}) \subseteq all
  BY <1>1, <1>4, TracedWhole
<1>6. n \in Nat /\ n # 0
  <2>1. flow \in Seq(Modes \X DOMAIN ir)
    BY VirtualAssumption DEF Modes
  <2> HIDE DEF flow, ir
  <2>2. QED BY <1>2, <2>1
<1> HIDE DEF c, u, ir, flow, n
<1>7. \A i \in 1..n : flow[i] \in all
  <2> DEFINE A == {i \in 0..n : i # 0 => flow[i] \in all}
  <2>1. 0 \in A
    BY <1>6
  <2>2. ASSUME NEW i \in 0..(n - 1), i \in A PROVE i + 1 \in A
    <3>1. CASE i = 0
      <4>1. flow[i + 1] \in all
        BY <1>3, <1>5, <3>1
      <4>2. QED BY <1>6, <4>1
    <3>2. CASE i # 0
      <4>1. i \in 1..(n - 1) /\ flow[i] \in all
        BY <1>6, <2>2, <3>2
      <4>2. flow[i + 1] \in all
        BY <1>2, <1>5, <4>1
      <4>3. QED BY <1>6, <4>2
    <3>3. QED BY <3>1, <3>2
  <2>3. \A i \in 0..n : i \in A
    <3> HIDE DEF A
    <3>1. QED BY <1>6, <2>1, <2>2, UpTo
  <2>4. QED BY <1>6, <2>3
<1>8. flow[n] \in all
  BY <1>6, <1>7
<1>9. c.fun[2] \in Traced(ir, v)
  BY <1>2, <1>5, <1>8
<1>10. QED BY <1>1, <1>3, <1>9 DEF DeduceObjectsToJIT, IsConstant, c, u, ir

LEMMA CollectedFlow ==
  ASSUME NEW k \in DOMAIN calls, FlowsToJit(calls[k]), Object(calls[k].unit, calls[k].fun[2]).def
  PROVE  /\ calls[k].fun[2] \in DeduceObjectsToJIT(calls[k].unit)
         /\ calls[k].fun[2] \in CollectObjectsToJIT(calls[k].unit)
<1>1. calls[k].fun[2] \in DeduceObjectsToJIT(calls[k].unit)
  BY FlowTraced
<1>2. QED BY <1>1 DEF CollectObjectsToJIT

\* The head of a sequence is its first element.
LEMMA FirstIsHead ==
  ASSUME NEW S, NEW s \in Seq(S), 1 \in DOMAIN s
  PROVE  Head(s) = s[1]
OBVIOUS

\* An overload of what a marked function calls is marked, too.
LEMMA CollectedMethod ==
  ASSUME NEW k \in DOMAIN calls, FlowsToJit(calls[k]), Object(calls[k].unit, calls[k].fun[2]).def,
         NEW v \in calls[k].virtual, calls[k].args[v.param].is = "value", v.slot = 1,
         hosts[calls[k].args[v.param].value].unit = calls[k].unit, MethodKnown(calls[k].unit, v.type),
         Object(calls[k].unit, Head(Object(calls[k].unit, hosts[calls[k].args[v.param].value].table).slots)).def
  PROVE  Head(Object(calls[k].unit, hosts[calls[k].args[v.param].value].table).slots)
           \in CollectObjectsToJIT(calls[k].unit)
<1> DEFINE u == calls[k].unit
           g == calls[k].fun[2]
           h == hosts[calls[k].args[v.param].value]
           slots == Object(u, h.table).slots
           m == Head(slots)
           marked == DeduceObjectsToJIT(u) \cup RegexFunctionsToJIT(u)
           tables == {t \in Objects(u) : Object(u, t).slots # <<>> /\ Object(u, t).def}
           methods == {f \in UNION {ToSet(Object(u, t).slots) : t \in tables} :
                         Object(u, f).type \in VirtualMethodTys(u, marked)}
<1>1. /\ u \in DOMAIN units /\ g \in Objects(u) /\ Function(u, g) /\ v.type \in Object(u, g).vloads
      /\ h.table \in Objects(u) /\ 1 \in DOMAIN slots
      /\ Object(u, slots[1]).type[1] # "none" /\ Object(u, slots[1]).type[2] = v.type[2]
  <2>1. u \in DOMAIN units /\ g \in Objects(u) /\ Function(u, g)
    BY VirtualAssumption
  <2>2. Object(u, g).def => v.type \in Object(u, g).vloads
    BY VirtualAssumption
  <2> DEFINE type(w, s) == Object(w, Object(w, h.table).slots[s]).type
  <2>3. /\ h.table \in Objects(h.unit) /\ v.slot \in DOMAIN Object(h.unit, h.table).slots
        /\ type(h.unit, v.slot)[1] # "none" /\ type(h.unit, v.slot)[2] = v.type[2]
    BY VirtualAssumption
  <2>4. h.unit = u /\ v.slot = 1 /\ Object(u, g).def
    OBVIOUS
  <2>5. h.table \in Objects(u) /\ 1 \in DOMAIN slots /\ type(u, 1)[1] # "none" /\ type(u, 1)[2] = v.type[2]
    <3> HIDE DEF h, u, g, type
    <3>1. QED BY <2>3, <2>4
  <2>6. Object(u, slots[1]).type = type(u, 1)
    OBVIOUS
  <2> HIDE DEF h, u, g, type, slots
  <2>7. QED BY <2>1, <2>2, <2>4, <2>5, <2>6
<1>2. g \in marked
  BY CollectedFlow
<1>3. v.type \in VirtualMethodTys(u, marked)
  BY <1>1, <1>2 DEF VirtualMethodTys
<1> DEFINE F == {f \in Objects(u) : Function(u, f)}
<1>4. 1 \in DOMAIN slots /\ slots \in Seq(F)
  <2>1. u \in DOMAIN units /\ h.table \in Objects(u) /\ 1 \in DOMAIN slots
    BY <1>1
  <2>2. \A w \in DOMAIN units : \A t \in Objects(w) : Object(w, t).slots \in Seq({f \in Objects(w) : Function(w, f)})
    BY ProgramAssumption
  <2> HIDE DEF h, u
  <2>3. QED BY <2>1, <2>2
<1>5. m = slots[1] /\ m \in Objects(u) /\ Function(u, m)
  <2>1. m = slots[1] /\ m \in F
    <3> HIDE DEF slots, F
    <3>1. slots[1] \in F
      BY <1>4
    <3>2. Head(slots) = slots[1]
      BY <1>4, FirstIsHead
    <3> DEFINE first == Head(slots)
    <3>3. first = slots[1]
      BY <3>2
    <3> HIDE DEF first
    <3>4. first \in F
      BY <3>1, <3>3
    <3>5. QED BY <3>3, <3>4 DEF first
  <2> HIDE DEF m, u, slots
  <2>2. QED BY <2>1
<1>6. PICK t \in Objects(u) : Object(u, t).def /\ \E f \in ToSet(Object(u, t).slots) : Object(u, f).type = v.type
  BY DEF MethodKnown
<1>7. PICK f \in ToSet(Object(u, t).slots) : Object(u, f).type = v.type
  BY <1>6
<1>8. Object(u, t).slots # <<>>
  BY <1>7 DEF ToSet
<1>9. f \in methods
  <2>1. t \in tables
    BY <1>6, <1>8
  <2>2. Object(u, f).type \in VirtualMethodTys(u, marked)
    BY <1>3, <1>7
  <2> HIDE DEF tables, marked, u
  <2>3. QED BY <1>7, <2>1, <2>2
<1>10. m \in DeduceVirtualMethodsToJIT(u, marked)
  <2>1. CASE m = f
    BY <1>9, <2>1 DEF DeduceVirtualMethodsToJIT
  <2>2. CASE m # f
    <3>1. MayBeOverload(u, m, f)
      BY <1>1, <1>5, <1>7, <2>2 DEF MayBeOverload
    <3>2. m \in {x \in Objects(u) : \E y \in methods : MayBeOverload(u, x, y)}
      BY <1>5, <1>9, <3>1
    <3>3. QED BY <3>2 DEF DeduceVirtualMethodsToJIT
  <2>3. QED BY <2>1, <2>2
<1>11. Object(u, m).def
  OBVIOUS
<1>12. QED BY <1>10, <1>11 DEF CollectObjectsToJIT

\* In every program, what the plugin marks is enough: however long the way through
\* variables, arrays and constants from an argument of jit() to the function, and whichever
\* unit's constructor runs first, it is found when main() has begun, and so are the methods
\* it may call.
THEOREM NeededIsFound == Spec => []FindsBitcode
<1>1. Spec => []CInv
  BY CInit, CStep, PTL DEF Spec
<1>2. ASSUME CInv PROVE FindsBitcode
  <2>1. SUFFICES ASSUME starting = {}, NEW k \in DOMAIN calls, FlowsToJit(calls[k]),
                        Object(calls[k].unit, calls[k].fun[2]).def
                 PROVE  /\ HasGlobalMapping(calls[k].fun)
                        /\ \A v \in calls[k].virtual :
                             LET h == hosts[calls[k].args[v.param].value]
                             IN  /\ calls[k].args[v.param].is = "value" /\ v.slot = 1
                                 /\ h.unit = calls[k].unit /\ MethodKnown(calls[k].unit, v.type)
                                 /\ Object(calls[k].unit, Head(Object(calls[k].unit, h.table).slots)).def
                                 => HasGlobalMapping(FirstMethod(h))
    BY DEF FindsBitcode
  <2> DEFINE u == calls[k].unit
  <2>2. u \in DOMAIN units /\ calls[k].fun = Address(u, calls[k].fun[2])
    BY VirtualAssumption
  <2>3. \A g \in CollectObjectsToJIT(u) : HasGlobalMapping(Address(u, g))
    BY <1>2, <2>1, <2>2 DEF CInv, TrackerSound, HasGlobalMapping
  <2>4. HasGlobalMapping(calls[k].fun)
    BY <2>1, <2>2, <2>3, CollectedFlow
  <2>5. ASSUME NEW v \in calls[k].virtual, calls[k].args[v.param].is = "value", v.slot = 1,
               hosts[calls[k].args[v.param].value].unit = u, MethodKnown(u, v.type),
               Object(u, Head(Object(u, hosts[calls[k].args[v.param].value].table).slots)).def
        PROVE  HasGlobalMapping(FirstMethod(hosts[calls[k].args[v.param].value]))
    <3>1. Head(Object(u, hosts[calls[k].args[v.param].value].table).slots) \in CollectObjectsToJIT(u)
      BY <2>1, <2>5, CollectedMethod
    <3>2. QED BY <2>3, <2>5, <3>1 DEF FirstMethod
  <2>6. QED BY <2>4, <2>5
<1>3. QED BY <1>1, <1>2, PTL
================================================================================
