--------------------------- MODULE MCCatalogPrices ---------------------------
(* Model values for the run of CatalogPrices. *)
EXTENDS CatalogPrices

CONSTANTS p1, r1, w1

OneKey == {p1}
OneRequest == {r1}
OneWriter == {w1}
=============================================================================
