------------------------- MODULE MCClusterFraming -------------------------
(* Sizes for TLC: with 2 bytes of header and chunks of 6 bytes, data of 7  *)
(* and more is divided into parts of 4; the last part may be full.         *)
EXTENDS ClusterFraming

(* With a key, 7 + 1 bytes fill two parts; without, 8 bytes do.            *)
MixedSizes == {0, 6, 7, 8}
BothKeys   == {0, 1}
=============================================================================
