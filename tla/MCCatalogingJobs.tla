-------------------------- MODULE MCCatalogingJobs --------------------------
(* Small instances of CatalogingJobs.                                      *)
EXTENDS CatalogingJobs

CONSTANTS desktop, mcp
=============================================================================
