--------------------------- MODULE MCStoreClient ---------------------------
(* StoreClient with one loading process and one that only reads, or with    *)
(* two that load (the second is a `smartDNS -t' next to a starting server). *)
EXTENDS StoreClient

CONSTANTS loader, tester, worker, zoneList, zoneNames, r1, r2
=============================================================================
