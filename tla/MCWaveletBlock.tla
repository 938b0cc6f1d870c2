--------------------------- MODULE MCWaveletBlock ---------------------------
(* Blocks of two levels. *)
EXTENDS WaveletBlock

Low == -16
Samples == {-16, 0, 16}
None == {}
Two == {<<0>>, <<1>>, <<0, 0>>, <<0, 1>>}
Cells == {<<0, 0>>, <<0, 1>>}
Eight == {8}

=============================================================================
