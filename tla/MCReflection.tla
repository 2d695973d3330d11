---------------------------- MODULE MCReflection ----------------------------
(***************************************************************************)
(* Model checking of Reflection: one agent observes another, or nobody.    *)
(***************************************************************************)
EXTENDS Reflection, TLC

CONSTANTS wise, kind

Ann == <<"ann">>
Bob == <<"bob">>

OneName    == {Ann}
PlainNames == {Ann, Bob}

Observing == {<<Ann, Bob>>}
Alone     == {<<Ann, NULL>>}

\* Other words about an agent than about a pair.
WordsByScope == [k \in Keys |-> IF k.scope = "pair" THEN {{kind}} ELSE {{wise}}]
=============================================================================
