------------------------------ MODULE MCLicense ------------------------------
(* Three licenses: one under the root key that expires after the February of *)
(* a century without a leap day, and two under a second key that is rotated  *)
(* in, one of them without a readable expiration. The stray key signed none. *)
EXTENDS License, TLC

CONSTANTS root, next, stray, p1, p2

MCLicense ==
    {[kid |-> "root", key |-> root, expires |-> DateAt(2100, 3, 1, 0), grace_days |-> 1],
     [kid |-> "next", key |-> next, expires |-> DateAt(2100, 2, 28, 0), grace_days |-> 1],
     [kid |-> "next", key |-> next, expires |-> Odd, grace_days |-> 0]}

File(k, key) == [kid |-> k, key |-> key]
Keys(etc, home) ==
    [d \in KeysDir |-> CASE d = "etc" -> etc [] d = "home" -> home [] OTHER -> {}]
MCKeySetups ==
    {Keys({}, {}),
     Keys({File("next", next)}, {File("next", stray), File("root", stray)}),
     Keys({File("next", stray), File("next", next)}, {})}

MCEnvs == {{}, {"HOME", "AEGISQR_LICENSE_PATH"}}
Processes == Permutations(Proc)
\* Half a day before the first of March, in a year without a leap day and in one with it.
MCStarts ==
    {[date |-> DateAt(2100, 2, 28, 12), days |-> 47540], [date |-> DateAt(2024, 2, 29, 12), days |-> 19782]}
=============================================================================
