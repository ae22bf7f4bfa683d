------------------------ MODULE MCWebsiteAnalysis ------------------------
(* A small instance of WebsiteAnalysis: one client at a time asks.          *)
EXTENDS WebsiteAnalysis, TLC

CONSTANT k1
=============================================================================
