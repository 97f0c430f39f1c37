----------------------------- MODULE MCIdentity ----------------------------
(* One instance for the two ways to be let in: the cookie of a browser and  *)
(* the token of a paired television.  A behaviour is of one of them, the    *)
(* variables of the other stay as they start.                               *)
EXTENDS Accounts, Pairing

CONSTANTS r1, r2, e1, e2

VARIABLE kind

-----------------------------------------------------------------------------
InitIdentity == kind \in {"browser", "tv"} /\ AccountsInit /\ Init
NextIdentity ==
    \/ kind = "browser" /\ AccountsNext /\ UNCHANGED <<kind, pairVars>>
    \/ kind = "tv" /\ Next /\ UNCHANGED <<kind, acctVars>>
=============================================================================
