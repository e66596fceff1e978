---------------------------- MODULE MCCacheWarming ----------------------------
(***************************************************************************)
(* Model values for CacheWarming: three jobs in batches of two, the first  *)
(* two of them refreshed in the background.                                *)
(***************************************************************************)
EXTENDS CacheWarming

CONSTANTS brands, statuses, fitters

MCJobs       == <<brands, statuses, fitters>>
MCBackground == <<brands, statuses>>

=============================================================================
