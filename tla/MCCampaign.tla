----------------------------- MODULE MCCampaign -----------------------------
(***************************************************************************)
(* Instances of Campaign: every process campaigns on the first source.     *)
(* The bounds depend on who campaigns: little goes wrong around two        *)
(* campaigns, more around the one campaign of Alone.                       *)
(***************************************************************************)
EXTENDS Campaign

CONSTANTS TheSource, Alone, FaultsAlone, SignalsAlone, ResultsAlone,
          FaultsTogether, SignalsTogether

MCSourceOf == [r \in Runner |-> TheSource]

Bound(alone, together) ==
    [campaigns \in SUBSET Runner |->
        IF campaigns = {Alone} THEN alone ELSE IF campaigns = {} THEN 0 ELSE together]

MCMaxFaults == Bound(FaultsAlone, FaultsTogether)
MCMaxSignals == Bound(SignalsAlone, SignalsTogether)
MCMaxResults == Bound(ResultsAlone, 0)
=============================================================================
