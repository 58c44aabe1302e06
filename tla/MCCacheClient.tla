--------------------------- MODULE MCCacheClient ---------------------------
(* Small instances of CacheClient for TLC. *)
EXTENDS CacheClient
=============================================================================
