------------------------------ MODULE MCLabels ------------------------------
(* Numbers of two and of three bits. Codes of eight and of fourteen digits   *)
(* that are one product, one of zeros, and with a slash or a question mark   *)
(* in them. Retail links for everybody and for associates, at addresses with *)
(* and without a path or a parameter p of their own; GS1 links at addresses  *)
(* that end in 01 or have a query; times and prices that fit or do not.      *)
EXTENDS Labels

CONSTANTS k1, k2, a, b

g8 == <<1, 2, 3, 4, 5, 6, 7, 0>>
g14 == <<0, 0, 0, 0, 0, 0>> \o g8
zeros == [i \in 1 .. 8 |-> 0]
g8slash == <<1, 2, 3, 4, Slash, 5, 6, 7, 0>>
g8question == <<1, 2, 3, 4, Question, 5, 6, 7, 0>>
drill == <<12, 13, 14>>
T(kid, key) == [kid |-> kid, key |-> key]
At(address, ai, gtin) == [address |-> address, ai |-> ai, gtin |-> gtin]

MCRetailRequest ==
    {[trust |-> T(a, k1), sku |-> drill, upc |-> None, role |-> "associate", wait |-> 1,
      base |-> At("query", FALSE, None)],
     [trust |-> T(a, k1), sku |-> drill, upc |-> g8, role |-> None, wait |-> 7,
      base |-> At("plain", TRUE, g14)],
     [trust |-> T(b, k1), sku |-> g8, upc |-> None, role |-> "customer", wait |-> 0,
      base |-> At("plain", TRUE, None)],
     [trust |-> T(a, k1), sku |-> g8, upc |-> None, role |-> None, wait |-> 0,
      base |-> At("p", FALSE, None)],
     [trust |-> T(a, k2), sku |-> g8, upc |-> zeros, role |-> None, wait |-> 2,
      base |-> At("p", TRUE, zeros)]}
G(key, gtin, sku, wait, address, lead) ==
    [trust |-> T(a, key), gtin |-> gtin, sku |-> sku, wait |-> wait, address |-> address,
     lead |-> lead]
MCGs1Request ==
    {G(k1, g14, drill, 2, "plain", FALSE), G(k2, g8, g8, 0, "plain", TRUE),
     G(k1, zeros, drill, 1, "plain", FALSE), G(k1, g8slash, drill, 0, "plain", FALSE),
     G(k1, g8question, <<1, 2, 3, 4>>, 0, "plain", TRUE), G(k1, g8, g8, 0, "01", FALSE),
     G(k1, g8question, drill, 0, "plain", FALSE), G(k1, g8, g8, 0, "query", TRUE),
     G(k1, <<1, 2, 3, 4, 5, 6, 7, 1>>, drill, 0, "plain", FALSE)}
MCEslRequest ==
    {[trust |-> T(a, k1), via |-> "cli", price |-> 3, until |-> 2],
     [trust |-> T(a, k1), via |-> "cli", price |-> 4, until |-> 0],
     [trust |-> T(a, k1), via |-> "mcp", price |-> 4, until |-> 4],
     [trust |-> T(a, k1), via |-> "mcp", price |-> 1, until |-> 5],
     [trust |-> T(a, k2), via |-> "mcp", price |-> 2, until |-> 0]}
MCCode == {g8, zeros, <<1, 2, 3, 4, 5, 6, 7, 1>>, <<1, 2, 3, 4>>}
MCSlip == (1 .. 8) \X {0, 2, 5}
=============================================================================
