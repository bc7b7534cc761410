---------------------------- MODULE MCEndpoints ----------------------------
(* Two GOs with one key pair and one with another, and an IDP. *)
EXTENDS Endpoints, TLC

CONSTANTS g1, g2, g3, idp, c1, c2, k1, k2

\* g1 issues tokens itself; g2 forwards to the IDP and verifies its tokens; g3
\* trusts the IDP too but holds another key.
Deployed ==
  g1 :> [client |-> c1, tokenIDP |-> None, jwksIDP |-> None, key |-> k1] @@
  g2 :> [client |-> c1, tokenIDP |-> idp,  jwksIDP |-> idp,  key |-> k1] @@
  g3 :> [client |-> c2, tokenIDP |-> None, jwksIDP |-> idp,  key |-> k2]

Register == idp :> {c2}

S(go, url, client, enabled) ==
  [baseURL |-> go, tokenURL |-> url, client |-> client, enabled |-> enabled]

\* Settings that fit: for g1, and for g2 by way of g2 or of the IDP.  Those that
\* do not: the key of g3, its own client, a token g2 does not trust, none at all.
Saves == { S(g1, None, c1, TRUE), S(g2, None, c2, TRUE), S(g2, idp, c2, TRUE),
           S(g3, idp, c2, TRUE), S(g3, None, c1, TRUE), S(g2, g1, c1, TRUE),
           S(g1, None, c1, FALSE) }

HandlerSymmetry == Permutations(Presentments) \cup Permutations(Pays)

=============================================================================
