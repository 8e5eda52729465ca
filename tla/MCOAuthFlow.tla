---------------------------- MODULE MCOAuthFlow ----------------------------
(* Callbacks for the run of OAuthFlow.                                     *)
EXTENDS OAuthFlow

CONSTANTS c1, c2, c3
=============================================================================
