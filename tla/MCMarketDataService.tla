------------------------ MODULE MCMarketDataService ------------------------
(* A small instance of the collection service for TLC: an NSE-like domain  *)
(* with one request at a time and a domain without a cap.                  *)
EXTENDS MarketDataService, TLC

CONSTANTS nse, web, a, b, c

MCRun == {1, 2}
MCDomain == {nse, web}
MCDomainCap == nse :> 1 @@ web :> 0

(* Run 1 has a reused response with two members, a fan-out of two requests *)
(* and a dependent group; run 2 asks the first domain again.               *)
MCGroup == 1..4
MCRunOf == <<1, 1, 1, 2>>
MCPhaseOf == <<"base", "base", "dependent", "base">>
MCDomainOf == <<nse, nse, web, nse>>
MCMembers == <<{a, b}, {c}, {c}, {a}>>
MCRequest == 1..5
MCGroupOf == <<1, 2, 2, 3, 4>>
=============================================================================
