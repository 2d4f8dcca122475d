---------------------------- MODULE MCQrTransport ----------------------------
(* Small instances of QrTransport. Two capsules of the same payload, so with  *)
(* the same bundle id: five and four bytes. Packets of three and of four bytes *)
(* cut the first into two packets at different places.                         *)
EXTENDS QrTransport

CONSTANTS c1, c2, b1, b2, m

MCCapsule == {c1, c2}
MCBundle == {b1, b2}
MCByte == {m} \union (MCCapsule \X (2 .. 5))
MCLength == [c \in MCCapsule |-> IF c = c1 THEN 5 ELSE 4]
MCImageOf == [c \in MCCapsule |-> [k \in 1 .. MCLength[c] |-> IF k = 1 THEN m ELSE <<c, k>>]]
MCBundleOf == [c \in MCCapsule |-> b1]
=============================================================================
