--------------------------- MODULE MCRoutePublisher ---------------------------
(* Small instances of a publisher route. *)
EXTENDS RoutePublisher

CONSTANTS z1, app

Latched == Qos("RELIABLE", TRUE, KeepLast(2), UnsetHistory)
Volatiles == Qos("RELIABLE", FALSE, KeepLast(1), UnsetHistory)

\* No Writer, one durability or the other, both.
MCProfiles == {<<>>, <<Volatiles>>, <<Latched>>, <<Latched, Volatiles>>}

=============================================================================
