------------------------------- MODULE MCPool -------------------------------
(* Small instances of Pool for TLC.                                        *)
EXTENDS Pool, TLC

CONSTANTS h1, h2, h3, w1, w2

\* Two hosts start their probe at the same offset, one at offset 0.
HashColliding == (h1 :> 2) @@ (h2 :> 2) @@ (h3 :> 0)
HashPair == (h1 :> 2) @@ (h2 :> 2)
HashOne == (h1 :> 1) @@ (h2 :> 0)
OneLease == {<<1, 2>>}
TwoLeases == {<<1, 2>>, <<0, 1>>}
NothingReserved == {{}}
OneReserved == {{}, {1}}
EitherReserved == {{}, {2}}
MovingReserved == {{1}, {2}}
TwoReserved == {{2}}
WorkerSymmetry == Permutations(Workers)
=============================================================================
