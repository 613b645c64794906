----------------------------- MODULE MCPipeline -----------------------------
(***************************************************************************)
(* Two payments of one merchant and one incident, which stands out as long *)
(* as the second payment fails, while the first failed outside of it, or   *)
(* only while both fail.                                                   *)
(***************************************************************************)
EXTENDS Pipeline, TLC

Alone == "A" :> {2}

OneIsEnough == "A" :> 1

Together == "A" :> {1, 2}

BothNeeded == "A" :> 2

UnitAmounts == 1 :> 1 @@ 2 :> 1

AllTrouble == Troubles

NoTrouble == {}

\* The daily quota answers with the code of a rate limit, too.
ProviderErrors == {{"perday", "ratelimit"}, {"busy"}, {"ratelimit"}, {}}
=============================================================================
