------------------------------ MODULE MCPlayer ------------------------------
(* Instances of Player *)
EXTENDS Player

CONSTANTS a, b, c

TwoSongs == <<a, b>>
ThreeSongs == <<a, b, c>>
OneAlbum == {<<b>>}
=============================================================================
