--------------------------- MODULE MCOrganization ---------------------------
(* Ada is the primary administrator, Ben another one and a super              *)
(* administrator of the platform as well, Sig a signatory, Fay works in       *)
(* finance, and Mia is a member.                                              *)
EXTENDS Organization
CONSTANTS ada, ben, sig, fay, mia
MCInitRole ==
    [u \in User |-> CASE u \in {ada, ben} -> "ADMIN" [] u = sig -> "SIGNATORY"
                      [] u = fay -> "FINANCE" [] OTHER -> "MEMBER"]
=============================================================================
