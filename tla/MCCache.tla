------------------------------ MODULE MCCache ------------------------------
EXTENDS Cache, TLC

CONSTANTS p1, p2

MCMaxAge == p1 :> 1 @@ p2 :> Forever
MCAttempts == p1 :> 2 @@ p2 :> 1
=============================================================================
