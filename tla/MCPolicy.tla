------------------------------ MODULE MCPolicy ------------------------------
(* Narrowing over every profile and call of two tools and two regions.      *)
EXTENDS Narrowing

CONSTANT MaxAmount      \* bound on amounts, limits and thresholds

MCTools == {"payment", "quote"}
MCRegions == {"north", "south"}
MCLimits == 0..MaxAmount
MCAmounts == -1..MaxAmount
=============================================================================
