---------------------------- MODULE MCWebDavFile ----------------------------
(* An instance of WebDavFile for TLC. *)
EXTENDS WebDavInvariant

CONSTANTS h1, h2

Old(n) == <<"old", n>>
(* An extent longer than a chunk before a shorter; truncation empties it.  *)
OldBytes == {Old(n) : n \in 1 .. 4}
TwoExtents == {<<<<Old(1), Old(2), Old(3)>>, <<Old(4)>>>>}
OneBackOneOn == {-1, 1}
ReadOrCopy == {{"read"}, {"copy"}}
=============================================================================
