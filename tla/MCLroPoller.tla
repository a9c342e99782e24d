---------------------------- MODULE MCLroPoller ----------------------------
(* Two links of each kind and every kind of method for LroPoller. *)
EXTENDS LroPoller

CONSTANTS m1, m2, p1, p2

MCMonitors == {m1, m2}
MCPlaces   == {p1, p2}

DeleteMethods == {m \in Method : m.arm = "delete"}
=============================================================================
