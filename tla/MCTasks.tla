------------------------------ MODULE MCTasks -------------------------------
(***************************************************************************)
(* Model checking of Tasks with Narrative: every kind of message; two      *)
(* events of one agent share a short id, and one short id belongs to none. *)
(***************************************************************************)
EXTENDS Tasks, TLC

CONSTANTS e1, e2, e3, ann, bob, s1, s2, s3

AuthorOf == (e1 :> ann) @@ (e2 :> ann) @@ (e3 :> bob)
ShortOf  == (e1 :> s1) @@ (e2 :> s1) @@ (e3 :> s2)

AnyMessage == Message \cup {NoMessage}
=============================================================================
