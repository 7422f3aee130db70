--------------------------- MODULE MCUpdaterMuVT ---------------------------
(* Three boxes with two types, numbered differently in the last box.  One  *)
(* box has no particles of one type.                                       *)
EXTENDS UpdaterMuVT

TwoNames == {"A", "B"}
MixedNames == [p \in 0 .. 2 |-> IF p = 2 THEN <<"B", "A">> ELSE <<"A", "B">>]
FewParticles == [p \in 0 .. 2 |-> IF p = 0 THEN <<1, 0>> ELSE <<0, 0>>]
SmallVolumes == [p \in 0 .. 2 |-> IF p = 0 THEN 2 ELSE 1]
OneUp == {1}
=============================================================================
