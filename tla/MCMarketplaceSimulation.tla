---------------------- MODULE MCMarketplaceSimulation ----------------------
(* exp on the scale of the simulation: log-ratios are zero or beyond the    *)
(* clamp, and a weight at the clamp dwarfs the others.                      *)
EXTENDS MarketplaceSimulation

CONSTANTS w1, w2

MCExp(x) == IF x >= 200 THEN 1000 ELSE IF x <= -200 THEN 0 ELSE 1
=============================================================================
