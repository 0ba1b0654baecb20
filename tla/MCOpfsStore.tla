----------------------------- MODULE MCOpfsStore ----------------------------
(* The instances of OpfsStore that TLC checks.                             *)
EXTENDS OpfsStore, TLC

CONSTANTS a, b, d1, d2, i1, i2

(* One blob of two chunks.                                                 *)
OneContent == a :> {1, 2}
NoChildren == a :> {}

(* A blob of two chunks, and one of a single group which lists it.         *)
TwoContent == a :> {1, 2} @@ b :> {1}
ListingChildren == a :> {} @@ b :> {a}

Nothing == <<>>
DownloadA == d1 :> a
DownloadBoth == d1 :> a @@ d2 :> b
DownloadTwice == d1 :> a @@ d2 :> a
ImportA == i1 :> a
=============================================================================
