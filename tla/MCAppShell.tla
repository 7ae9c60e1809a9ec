------------------------------ MODULE MCAppShell ------------------------------
(* AppShell with every path of the application, and one that does not exist. *)
EXTENDS AppShell

LivePaths ==
  {<<>>, <<"login">>, <<"trips">>, <<"trips", "id">>, <<"trips", "id", "compare">>,
   <<"trips", "id", "routes", "id">>, <<"alerts">>, <<"terminals">>, <<"terminals", "id">>,
   <<"advanced">>, <<"ask">>, <<"profile">>, <<"profile", "eligibility">>, <<"profile", "readiness">>}

GalleryPaths ==
  {<<"showcase">>} \cup { <<"showcase", name>> : name \in
     {"plan", "results", "trips", "compare", "route-detail", "alerts", "ask", "profile", "terminals",
      "advanced", "notices"} } \cup
  {<<"showcase", "results", "refreshing">>, <<"showcase", "results", "no-route">>,
   <<"showcase", "ask", "unknown">>, <<"showcase", "profile", "eligibility">>,
   <<"showcase", "profile", "readiness">>, <<"showcase", "terminals", "detail">>,
   <<"showcase", "advanced", "desktop">>}

AllPaths == LivePaths \cup GalleryPaths \cup {<<"nowhere">>}
===============================================================================
