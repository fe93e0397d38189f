--------------------------- MODULE MCCreationJournal ---------------------------
(* Instances of CreationJournal: a Proxy and one resource of it, cleaned   *)
(* up by its own process and by one or two recoveries.                     *)
EXTENDS CreationJournal
=============================================================================
