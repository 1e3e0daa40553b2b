---------------------------- MODULE MCDemoFund -----------------------------
(***************************************************************************)
(* A small instance of DemoFund: three calls, two at a time, either with   *)
(* one key of a session or signed by a wallet, with two keys and two       *)
(* nonces among them.                                                      *)
(***************************************************************************)
EXTENDS DemoFund

CONSTANTS k1, k2, k3

MCKeys == {k1, k2, k3}
MCSignedKeys == {k2, k3}

\* The calls are all signed or all of a session, and the names of keys and
\* nonces make no difference: the calls, which begin in order, take them up in
\* order.  Of three calls one may have another key and one another nonce, but
\* each has the key or the nonce of the first.
InOrder ==
    /\ \A c, d \in Calls : claimNonce[c] = Session <=> claimNonce[d] = Session
    /\ \A c \in Calls :
           /\ key[c] = k3 => \E d \in 1..(c - 1) : key[d] = k2
           /\ claimNonce[c] = 2 => \E d \in 1..(c - 1) : claimNonce[d] = 1
           /\ ~(key[c] = k3 /\ claimNonce[c] = 2)
    /\ Cardinality({c \in Calls : key[c] = k3}) <= 1
    /\ Cardinality({c \in Calls : claimNonce[c] = 2}) <= 1

=============================================================================
