------------------------------ MODULE MCScrape ------------------------------
(* Scrape on small instances.                                                *)
EXTENDS Scrape, TLC
=============================================================================
