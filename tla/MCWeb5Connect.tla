--------------------------- MODULE MCWeb5Connect ---------------------------
(* Instances of Web5Connect for TLC. *)
EXTENDS Web5Connect

CONSTANTS k1, k2

Item(k, n) == [key |-> k, n |-> n]

\* Two objects, one of them fetched twice.
BoxMail == {Item(k1, 1), Item(k2, 1)}
BoxGets == {Item(k1, 1), Item(k1, 2), Item(k2, 1)}

\* Two fetches of one object.
OneMail == {Item(k1, 1)}
TwoGets == {Item(k1, 1), Item(k1, 2)}
============================================================================
