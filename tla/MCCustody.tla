----------------------------- MODULE MCCustody -----------------------------
(* Two manifests of one id that differ in their terms alone, and two of      *)
(* another id with a limit that JSON cannot hold, for this payload and       *)
(* another.                                                                  *)
EXTENDS Custody

CONSTANTS k1, k2, s, r, i1, i2, h1, h2, t1, t2

MCRequest ==
    {[key |-> k1, body |-> [id |-> i1, sender |-> s, receiver |-> r, hash |-> h1,
                            terms |-> t, limit |-> None]] : t \in {t1, t2}}
    \union
    {[key |-> k1, body |-> [id |-> i2, sender |-> s, receiver |-> r, hash |-> h,
                            terms |-> t1, limit |-> Infinite]] : h \in {h1, h2}}
=============================================================================
