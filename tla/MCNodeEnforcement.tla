------------------------- MODULE MCNodeEnforcement -------------------------
(* One cell, a pod with two cgroups and a pod with one; two strict         *)
(* policies, a standard and an open one; the policy t names the metadata   *)
(* service.                                                                *)
EXTENDS NodeEnforcement

CONSTANTS u, v, u1, u2, v1, s, t, w, o, a, b, m

PodOfCgroup == [g \in Cgroups |-> IF g = v1 THEN v ELSE u]
ClassOfPolicy == [p \in Policies |-> CASE p = o -> "open" [] p = w -> "standard"
                                       [] OTHER -> "strict"]
EgressOfPolicy == [p \in Policies |-> CASE p \in {s, w} -> {a} [] p = t -> {b, m}
                                        [] p = o -> {}]
FamilyOfAddress == [x \in Addresses |-> IF x = b THEN "connect6"
                                        ELSE "connect4"]
=============================================================================
