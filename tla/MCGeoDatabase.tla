---------------------------- MODULE MCGeoDatabase ----------------------------
(* Two lookups, the ticker and an administrator's update, for TLC.          *)
EXTENDS GeoDatabase
=============================================================================
