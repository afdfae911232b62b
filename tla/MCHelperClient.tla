--------------------------- MODULE MCHelperClient ---------------------------
(***************************************************************************)
(* Two connects, and a use and a disconnect of the first one's session:    *)
(* enough for a connect that outlives its deadline while another is        *)
(* served, and for a use that is outstanding when disconnect is called.    *)
(***************************************************************************)
EXTENDS HelperClient, TLC

CONSTANTS c1, c2, u1, d1

MCConnects == {c1, c2}
MCRequest == {c1, c2, u1, d1}
MCDisconnects == {d1}
MCSessionOf == (u1 :> c1) @@ (d1 :> c1)
=============================================================================
