------------------------- MODULE MCMarketDataStore -------------------------
(* Small instances of the market-data store for TLC: two contents, so that *)
(* a commit supersedes the last-good object and may bring it back.         *)
EXTENDS MarketDataStore

CONSTANTS a, b

MCContent == {a, b}
=============================================================================
