----------------------------- MODULE MCProxyStore -----------------------------
(* One proxy with the generic target and a named one, for TLC.             *)
EXTENDS ProxyStore
=============================================================================
