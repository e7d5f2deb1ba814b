--------------------------- MODULE CompileService ---------------------------
(***************************************************************************)
(* What a client of tuner::Optimizer may count on, whatever its queues and *)
(* flags do: configurations are numbered in the order the tuner generates  *)
(* them, a call hands over the next number, never one twice and never one  *)
(* before its predecessor, and only so many are compiled ahead of time.    *)
(***************************************************************************)
EXTENDS Naturals

CONSTANT Limit \* how many versions may be made and not yet handed over

VARIABLES
  made,  \* the last version generated
  taken, \* the last version handed over
  phase  \* of the client: open, asked (in recompile), closing, closed

serviceVars == <<made, taken, phase>>

Init == made = 0 /\ taken = 0 /\ phase = "open"

\* The client asks and nothing is ready.
Ask ==
  /\ phase = "open" /\ phase' = "asked"
  /\ UNCHANGED <<made, taken>>

\* A version is generated: never before the first call, never after the end.
Generate ==
  /\ phase = "asked" \/ (phase \in {"open", "closing"} /\ taken > 0)
  /\ made - taken < Limit
  /\ made' = made + 1
  /\ UNCHANGED <<taken, phase>>

\* The next version is handed over, in a call that found it ready or waited for it.
Answer ==
  /\ phase \in {"open", "asked"}
  /\ taken < made
  /\ taken' = taken + 1
  /\ phase' = "open"
  /\ UNCHANGED made

\* The wait was given up: the process is ended.
GiveUp ==
  /\ phase = "asked" /\ phase' = "closed"
  /\ UNCHANGED <<made, taken>>

\* The destructor is called, and returns.
Close ==
  /\ \/ phase = "open" /\ phase' = "closing"
     \/ phase = "closing" /\ phase' = "closed"
  /\ UNCHANGED <<made, taken>>

Next == Ask \/ Generate \/ Answer \/ GiveUp \/ Close

Spec == Init /\ [][Next]_serviceVars
=============================================================================
