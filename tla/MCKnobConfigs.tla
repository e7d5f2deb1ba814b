--------------------------- MODULE MCKnobConfigs ---------------------------
(* Model-checking instances of KnobConfigs: one scalar knob and three loops, in a row, *)
(* one around two, and a pair beside one.                                              *)
EXTENDS KnobConfigs

MCIntKnobs == 1 :> [min |-> 0, max |-> 2, dflt |-> 2]

MCNests ==
  { (2 :> <<>>) @@ (3 :> <<2>>) @@ (4 :> <<3>>),
    (2 :> <<>>) @@ (3 :> <<>>) @@ (4 :> <<2, 3>>),
    (2 :> <<>>) @@ (3 :> <<2>>) @@ (4 :> <<>>) }

\* The source asks for the second loop to be unrolled.
MCSourceMD == [l \in 2..4 |-> IF l = 3 THEN [UnrollCount |-> 8] ELSE <<>>]

MCWalks == {<<1, 2, 3, 4>>, <<1, 4, 2, 3>>}

MCSample == {Empty, [Empty EXCEPT !.Section = {2}, !.UnrollFull = {1}]}
=============================================================================
