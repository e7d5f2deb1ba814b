--------------------------- MODULE BitcodeTracker ---------------------------
(***************************************************************************)
(* easy::BitcodeTracker, the table of all registered bitcode, filled by    *)
(* the static constructors of the units, in an order that the linker       *)
(* chooses, before main().                                                 *)
(***************************************************************************)
EXTENDS RegisterBitcode

VARIABLES
  starting,     \* units whose constructor has not run yet
  functions,    \* Functions: addresses to what is known of them
  nameToAddress \* NameToAddress

tracker == <<starting, functions, nameToAddress>>

TrackerInit == starting = DOMAIN units /\ functions = <<>> /\ nameToAddress = <<>>

\* FunctionInfo: the name, and the unit and entry that the bitcode was made from.  The
\* unit's mapping of globals comes with it.
Info(u, g) == [name |-> Name(u, g), unit |-> u, entry |-> g]

\* unordered_map::emplace(), for several keys: what is there stays.
Emplace(table, more) ==
  [k \in DOMAIN table \cup DOMAIN more |-> IF k \in DOMAIN table THEN table[k] ELSE more[k]]

\* registerFunction(), for each object of u, in u's constructor.
Register(u) ==
  LET objects == CollectObjectsToJIT(u)
  IN  /\ u \in starting /\ starting' = starting \ {u}
      /\ functions' = Emplace(functions,
           [a \in {Address(u, g) : g \in objects} |-> Info(u, CHOOSE g \in objects : Address(u, g) = a)])
      /\ nameToAddress' = Emplace(nameToAddress,
           [n \in {Name(u, g) : g \in objects} |-> Address(u, CHOOSE g \in objects : Name(u, g) = n)])

\* hasGlobalMapping(), which is what every lookup needs in order not to throw.
HasGlobalMapping(a) == a \in DOMAIN functions
=============================================================================
