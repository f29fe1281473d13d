-------------------------------- MODULE MCGeo --------------------------------
(* Two checks, two addresses and a queue for one of them, for TLC.          *)
EXTENDS GeoEnricher
=============================================================================
