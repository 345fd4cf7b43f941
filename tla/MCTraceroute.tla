---------------------------- MODULE MCTraceroute ----------------------------
(* Instances of Traceroute for TLC.                                        *)
EXTENDS Traceroute, TLC

CONSTANTS t1, t2

One == {t1}
Two == {t1, t2}
OnePid == (t1 :> 5)
TwoPids == (t1 :> 5 @@ t2 :> 6)
OneFar == (t1 :> 2)
FarAndNear == (t1 :> 2 @@ t2 :> 1)
OneRoute == (t1 :> {"net", "prohibited", "port"})
SilentAndAny == (t1 :> {} @@ t2 :> {"net", "prohibited", "port"})
=============================================================================
