-------------------------------- MODULE MCJit --------------------------------
(***************************************************************************)
(* A program of two units for TLC.  In A:                                  *)
(*   static int <unnamed>; extern int ext; int g(int); int counter;        *)
(*   static int helper(), step(int); int f(int, int), h(bool, int);        *)
(*   double k(double); int s(Struct), run(Callback), late(int);            *)
(*   struct Shape { virtual int area(); }; struct Circle : Shape;          *)
(*   struct Poly { virtual int perimeter(), scale(int); };                 *)
(*   int total(Shape* ), scaled(Poly* );                                   *)
(* and in B:                                                               *)
(*   static int own, step(int); static const int <unnamed>; int ext;       *)
(*   int g(int), g2(int), look(int* ); struct Square, Ring : Shape;        *)
(***************************************************************************)
EXTENDS Jit

Fun(local, refs, type, vloads) ==
  [fun |-> TRUE, def |-> TRUE, local |-> local, const |-> FALSE, named |-> TRUE,
   refs |-> refs, type |-> type, slots |-> <<>>, vloads |-> vloads]

Var(local, const, named, refs) ==
  [fun |-> FALSE, def |-> TRUE, local |-> local, const |-> const, named |-> named,
   refs |-> refs, type |-> <<"none", "">>, slots |-> <<>>, vloads |-> {}]

Table(slots) == [Var(FALSE, TRUE, TRUE, ToSet(slots)) EXCEPT !.slots = slots]

Plain(refs) == Fun(FALSE, refs, <<"none", "">>, {})
Static(refs) == Fun(TRUE, refs, <<"none", "">>, {})
Method(class, rest) == Fun(FALSE, {}, <<class, rest>>, {})
External(object) == [object EXCEPT !.def = FALSE]

ObjectsA ==
  ("buf" :> Var(TRUE, FALSE, FALSE, {})) @@ ("ext" :> External(Var(FALSE, FALSE, TRUE, {})))
  @@ ("counter" :> Var(FALSE, FALSE, TRUE, {})) @@ ("choices" :> Var(TRUE, TRUE, TRUE, {"step", "run"}))
  @@ ("f" :> Plain({"buf", "ext", "helper", "g"})) @@ ("helper" :> Static({"buf"}))
  @@ ("step" :> Static({"buf"})) @@ ("g" :> External(Plain({}))) @@ ("run" :> Fun(FALSE, {"g", "ext", "buf"}, <<"Callback", "">>, {}))
  @@ ("h" :> Plain({})) @@ ("k" :> Plain({})) @@ ("s" :> Plain({})) @@ ("late" :> Plain({}))
  @@ ("total" :> Fun(FALSE, {}, <<"Shape", "">>, {<<"Shape", "">>}))
  @@ ("scaled" :> Fun(FALSE, {}, <<"Poly", "">>, {<<"Poly", "int">>}))
  @@ ("Shape::area" :> Method("Shape", "")) @@ ("Circle::area" :> Method("Circle", ""))
  @@ ("Poly::perimeter" :> Method("Poly", "long")) @@ ("Poly::scale" :> Method("Poly", "int"))
  @@ ("vtable Shape" :> Table(<<"Shape::area">>)) @@ ("vtable Circle" :> Table(<<"Circle::area">>))
  @@ ("vtable Poly" :> Table(<<"Poly::perimeter", "Poly::scale">>))

ObjectsB ==
  ("own" :> Var(TRUE, FALSE, TRUE, {})) @@ ("hidden" :> Var(TRUE, TRUE, FALSE, {}))
  @@ ("ext" :> Var(FALSE, FALSE, TRUE, {})) @@ ("counter" :> External(Var(FALSE, FALSE, TRUE, {})))
  @@ ("g" :> Plain({"own"})) @@ ("g2" :> Plain({"hidden", "run"})) @@ ("run" :> External(Plain({}))) @@ ("total" :> External(Plain({})))
  @@ ("Ring::area" :> Fun(FALSE, {"total"}, <<"Ring", "">>, {})) @@ ("vtable Ring" :> Table(<<"Ring::area">>)) @@ ("step" :> Static({"own", "hidden"}))
  @@ ("look" :> Fun(FALSE, {"counter"}, <<"int", "">>, {})) @@ ("Square::area" :> Method("Square", ""))
  @@ ("vtable Square" :> Table(<<"Square::area">>))

Value(kind, from, uses) == [kind |-> kind, from |-> from, uses |-> uses]
Leaf(kind) == Value(kind, {}, {})

\* f and h by a phi, a choice by an address into a constant array, total, scaled, k and s
\* in a variable on the stack, late by a load.
GraphA ==
  [phi |-> Value("phi", {"f", "h"}, {"f", "h"}),
   pick |-> Value("constexpr", {"choices"}, {"choices"}),
   choices |-> Value("variable", {"list"}, {"list"}), list |-> Value("array", {"step", "run"}, {"step", "run"}),
   slot |-> Leaf("alloca"), cast |-> Value("bitcast", {"slot"}, {"slot"}),
   store1 |-> Value("store", {"total"}, {"total", "slot"}), store2 |-> Value("store", {"k"}, {"k", "cast"}),
   store3 |-> Value("store", {"scaled"}, {"scaled", "slot"}), store4 |-> Value("memcpy", {"copy"}, {"copy", "cast"}),
   copy |-> Leaf("alloca"), store6 |-> Value("store", {"s"}, {"s", "copy"}),
   late |-> Leaf("function"), cell |-> Value("variable", {}, {}), load |-> Value("load", {}, {"cell"}),
   store5 |-> Value("store", {"late"}, {"late", "cell"}),
   f |-> Leaf("function"), h |-> Leaf("function"), k |-> Leaf("function"), s |-> Leaf("function"),
   run |-> Leaf("function"), step |-> Leaf("function"), total |-> Leaf("function"), scaled |-> Leaf("function")]

GraphB == [step |-> Leaf("function"), look |-> Leaf("function"), hidden |-> Leaf("variable")]

Program ==
  [A |-> [objs |-> ObjectsA, ir |-> GraphA, jit |-> {"phi", "pick", "slot", "load"}, export |-> {"counter"}],
   B |-> [objs |-> ObjectsB, ir |-> GraphB, jit |-> {"step", "look", "hidden"}, export |-> {"g", "g2", "Ring::area"}]]

Halves == [bool |-> 1, int |-> 2, int64 |-> 4]

Heap ==
  (<<"heap", "shape">> :> [unit |-> "A", table |-> "vtable Shape"])
  @@ (<<"heap", "circle">> :> [unit |-> "A", table |-> "vtable Circle"])
  @@ (<<"heap", "poly">> :> [unit |-> "A", table |-> "vtable Poly"])
  @@ (<<"heap", "ring">> :> [unit |-> "B", table |-> "vtable Ring"])
  @@ (<<"heap", "square">> :> [unit |-> "B", table |-> "vtable Square"])

------------------------------------------------------------------------------
(* The calls. *)

Global(g) == <<"exported", g>>
Holder(n) == [is |-> "placeholder", n |-> n]
Given(v) == [is |-> "value", value |-> v]
Compiled(n, a) == [is |-> "wrapper", fun |-> n, of |-> a]
Knob(lo, hi, dflt, id) == [is |-> "knob", lo |-> lo, hi |-> hi, dflt |-> dflt, id |-> id]

Opt(is, value) == [is |-> is, value |-> value]
Tuned == << Opt("tuner_kind", "random") >>

\* The ways from the arguments of jit() to the functions.
InSlot(way) == << <<"loaded", "slot">>, <<"stored", "slot">> >> \o way
Flows ==
  [f |-> << <<"loaded", "phi">>, <<"loaded", "f">> >>, h |-> << <<"loaded", "phi">>, <<"loaded", "h">> >>,
   run |-> << <<"loaded", "pick">>, <<"loaded", "choices">>, <<"loaded", "list">>, <<"loaded", "run">> >>,
   k |-> InSlot(<< <<"stored", "cast">>, <<"stored", "store2">>, <<"loaded", "k">> >>),
   s |-> InSlot(<< <<"stored", "cast">>, <<"stored", "store4">>, <<"loaded", "copy">>, <<"stored", "copy">>,
                   <<"stored", "store6">>, <<"loaded", "s">> >>),
   total |-> InSlot(<< <<"stored", "store1">>, <<"loaded", "total">> >>),
   scaled |-> InSlot(<< <<"stored", "store3">>, <<"loaded", "scaled">> >>),
   look |-> << <<"loaded", "look">> >>, g |-> <<>>, late |-> <<>>]

Flow(unit, f) ==
  IF f # "step" THEN Flows[f]
  ELSE IF unit = "B" THEN << <<"loaded", f>> >>
  ELSE << <<"loaded", "pick">>, <<"loaded", "choices">>, <<"loaded", "list">>, <<"loaded", f>> >>

Bind(unit, fun, types, args, options) ==
  [fun |-> fun, types |-> types, args |-> args, options |-> options, unit |-> unit,
   flow |-> Flow(unit, fun[2]), virtual |-> {}]

F(args, options) == Bind("A", Global("f"), <<"int", "int">>, args, options)
H(args, options) == Bind("A", Global("h"), <<"bool", "int">>, args, options)
K(x) == Bind("A", Global("k"), <<"double">>, <<Given(x)>>, <<>>)
S(x) == Bind("A", Global("s"), <<"struct">>, <<Given(x)>>, <<>>)
Run(arg) == Bind("A", Global("run"), <<"pointer">>, <<arg>>, <<>>)
Virtual(fun, slot, type, object, options) ==
  [Bind("A", Global(fun), <<"pointer">>, <<Given(<<"heap", object>>)>>, options)
     EXCEPT !.virtual = {[param |-> 1, slot |-> slot, type |-> type]}]
Total(object, options) == Virtual("total", 1, <<"Shape", "">>, object, options)

Binds ==
  << F(<<Holder(1), Holder(2)>>, <<>>), F(<<Holder(2), Holder(1)>>, <<>>), F(<<Given(1), Given(0)>>, <<>>),
     F(<<Given(1), Holder(1)>>, << Opt("opt_level", <<2, 0>>) >>),
     F(<<Given(1), Holder(1)>>, << Opt("blocking", TRUE), Opt("feedback_kind", "total") >>) >>

Numbers ==
  << H(<<Holder(1), Holder(1)>>, <<>>), H(<<Given(1), Given(-3)>>, <<>>), H(<<Given(2), Given(3)>>, <<>>),
     H(<<Given(3), Given(2)>>, <<>>), H(<<Given(0), Holder(1)>>, <<>>),
     K("0"), K("-0"), K("nan"), S(<<1, 2>>), S(<<2, 1>>) >>

Ranges ==
  << H(<<Holder(1), Knob(-1, 1, 0, 7)>>, Tuned), H(<<Holder(1), Knob(-1, 1, 0, 8)>>, Tuned),
     F(<<Knob(0, 1, 0, 7), Knob(0, 1, 0, 7)>>, Tuned), H(<<Holder(1), Knob(-1, 1, 1, 7)>>, <<>>) >>

Pointers ==
  << Run(Given(Global("g"))), Run(Given(Global("g2"))), Run(Given(Global("run"))), Run(Given(Global("late"))),
     Run(Compiled(1, Global("g"))), Run(Compiled(1, Global("run"))), Run(Given(<<"A", "step">>)), Run(Given(<<"B", "hidden">>)),
     Bind("B", Global("look"), <<"pointer">>, <<Given(Global("counter"))>>, <<>>),
     Bind("B", Global("g"), <<"int">>, <<Holder(1)>>, <<>>),
     Bind("A", <<"A", "step">>, <<"int">>, <<Holder(1)>>, <<>>),
     Bind("B", <<"B", "step">>, <<"int">>, <<Holder(1)>>, <<>>),
     Bind("A", Global("late"), <<"int">>, <<Holder(1)>>, <<>>) >>

Virtuals ==
  << Total("shape", <<>>), Total("circle", <<>>), Total("square", <<>>),
     Total("square", << Opt("opt_level", <<0, 0>>) >>), Total("ring", Tuned), Virtual("scaled", 2, <<"Poly", "int">>, "poly", <<>>) >>

Calls == Binds \o Numbers \o Ranges \o Pointers \o Virtuals

\* They are ways: the functions of all calls but two flow to jit().
ASSUME WaysAreFlows == \A k \in DOMAIN calls : FlowsToJit(calls[k]) <=> calls[k].flow # <<>>
==============================================================================
