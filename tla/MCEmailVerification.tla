------------------------ MODULE MCEmailVerification ------------------------
(* Instances of EmailVerification for TLC.                                 *)
EXTENDS EmailVerification, TLC

CONSTANTS SendEmailMax, SendIpMax, VerifyEmailMax, VerifyIpMax

MCRateMax ==
    [s \in Scopes |-> CASE s = "send_email"   -> SendEmailMax
                        [] s = "send_ip"      -> SendIpMax
                        [] s = "verify_email" -> VerifyEmailMax
                        [] s = "verify_ip"    -> VerifyIpMax]

Symmetry == Permutations(Requests) \cup Permutations(Intents) \cup Permutations(Tokens)

=============================================================================
