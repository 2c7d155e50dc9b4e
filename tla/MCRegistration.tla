--------------------------- MODULE MCRegistration ----------------------------
(***************************************************************************)
(* A tenant with a request for each of two versions of the terms, the one  *)
(* for the second sent again when it fails, and two servers.               *)
(***************************************************************************)
EXTENDS Registration, TLC

CONSTANTS s1, s2, d1, t1, t2

const_Request == {[did |-> d1, terms |-> t1, n |-> 1],
                  [did |-> d1, terms |-> t2, n |-> 1]}

\* Any server, and any version of the terms, is as good as another.
const_Symmetry == Permutations({s1, s2}) \cup Permutations({t1, t2})

\* A tenant of servers without a terms-of-service file.
const_NoTermsRequest == {[did |-> d1, terms |-> Undefined, n |-> 1]}
==============================================================================
