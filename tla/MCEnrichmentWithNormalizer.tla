--------------------- MODULE MCEnrichmentWithNormalizer ---------------------
(***************************************************************************)
(* EnrichmentWithNormalizer on small instances for TLC.                    *)
(***************************************************************************)
EXTENDS EnrichmentWithNormalizer
=============================================================================
