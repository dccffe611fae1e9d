--------------------------- MODULE MC_AsyncSender --------------------------
(* Three Sends, with every kind of count: once, twice, for ever. *)
EXTENDS AsyncSender

Counts == {Indefinite, 1, 2}
=============================================================================
