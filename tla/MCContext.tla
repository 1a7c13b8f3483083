----------------------------- MODULE MCContext ------------------------------
(***************************************************************************)
(* Small instance of Context: two contexts, one of which collects more     *)
(* errors than its ring of three holds.                                    *)
(***************************************************************************)
EXTENDS Context, TLC

CONSTANTS c1, c2

MCContexts == {c1, c2}
MCCodes == {"INVALID_ARGUMENT", "CRYPTO_FAILURE"}
MCMaxErrors == (c1 :> 5 @@ c2 :> 1)
=============================================================================
