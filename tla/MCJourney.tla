------------------------------ MODULE MCJourney ------------------------------
(* Mode B with two clients of one subject, and a journey of the runtime    *)
(* for one of them.                                                        *)
EXTENDS ModeB

CONSTANTS app, sales, finance

MCThreads == {app, sales, finance}
MCClientOf == [t \in MCThreads |-> IF t = finance THEN finance ELSE sales]
MCOrder == <<sales, finance>>

\* 1 handles restricted data, 2 and 3 need no approval, 4 does.
MCNames == 1..4
MCGated == {4}
MCConsented == {2, 3, 4}
MCFinance == {3, 4}

MCCatalogs == {MCNames, {1, 4}}
MCProfiles == {sales :> {1, 2, 3} @@ finance :> {3, 4},
               sales :> {2, 4} @@ finance :> {3}}
=============================================================================
