------------------------------- MODULE MCHPMC -------------------------------
(* Small instances of HPMC. *)
EXTENDS HPMC

\* Four domains, two domains, and one rank alone.
Quarters == <<<<0, 5, 10>>, <<0, 3, 7>>>>
Halves   == <<<<0, 5, 10>>, <<0, 2>>>>
Whole    == <<<<0, 6>>, <<0, 6>>>>

\* Targets of UpdaterQuickCompress: a constant box, and one that moves back and
\* forth between two.  The third box is less than two large particles wide.
Fixed == {<<9, 10>>}
Ramp  == {<<9, 10>>, <<10, 10>>}

Setup(c, u, m, b) == [cuts |-> c, updater |-> u, max_overlaps |-> m, targets |-> b]

AllSetups == {Setup(Quarters, "BoxMC", 0, Fixed), Setup(Halves, "QuickCompress", 0, Ramp),
              Setup(Halves, "QuickCompress", 1, Fixed), Setup(Whole, "Shape", 0, Fixed)}

ShapeSetups == {Setup(Halves, "Shape", 0, Fixed)}
RampSetups  == {Setup(Halves, "QuickCompress", 0, Ramp)}

TryBoxes  == {<<10, 10>>, <<9, 10>>, <<7, 10>>}
BigBoxes  == {<<10, 10>>, <<9, 10>>}

Steps  == {<<1, 0>>, <<-1, 0>>, <<0, 1>>, <<0, -1>>}
Shift1 == {<<0, 0>>, <<1, 0>>, <<-1, 0>>}
=============================================================================
