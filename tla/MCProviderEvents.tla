-------------------------- MODULE MCProviderEvents --------------------------
(* A deposit whose completion is reported twice, signed and by the trusted   *)
(* gateway, so under two keys; a forged completion of a payout, which brings *)
(* the key of the signed report; and a record of a partner without a secret. *)
EXTENDS ProviderEvents, TLC
CONSTANTS dep, out, rec, done1, done2, forged, noted, k1, k2, k3
MCDirectionOf == dep :> "IN" @@ out :> "OUT" @@ rec :> "RECORD"
Reported(m, s, k, route, genuine) ==
    [of |-> m, says |-> s, key |-> k, route |-> route, genuine |-> genuine]
MCReportOf ==
    done1 :> Reported(dep, "completed", k1, "signed", TRUE) @@
    done2 :> Reported(dep, "completed", k2, "trusted", TRUE) @@
    forged :> Reported(out, "completed", k1, "signed", FALSE) @@
    noted :> Reported(rec, "processing", k3, "open", FALSE)
Deliveries == Permutations(Call)
=============================================================================
