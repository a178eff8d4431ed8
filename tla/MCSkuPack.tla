----------------------------- MODULE MCSkuPack -----------------------------
(* Instances of SkuPack for TLC.                                           *)
EXTENDS ObservedSkuPack, TLC

CONSTANTS s1, s2, p, q, x, a, b, r1, r2, r3, r4

\* A pack with static files, templates and a configuration, one with workflows,
\* and one that is nothing but a name.
Packs ==
    p :> [name |-> b, complete |-> TRUE, config |-> TRUE,
          roots |-> {"httpStaticRoot", "httpTemplateRoot"}]
    @@ q :> [name |-> b, complete |-> TRUE, config |-> FALSE, roots |-> {"workflowRoot"}]
    @@ x :> [name |-> b, complete |-> FALSE, config |-> FALSE, roots |-> {}]

OneSku == s1 :> [name |-> a, roots |-> {}, config |-> None]

Ask(kind, s, pack, n) == [kind |-> kind, sku |-> s, pack |-> pack, name |-> n]

\* Packs come and go on one SKU while others create, rename and delete SKUs.
Mixed ==
    {Ask("put", s1, p, None), Ask("put", s1, q, None), Ask("put", s1, x, None),
     Ask("upload", None, q, None), Ask("deletePack", s1, None, None),
     Ask("delete", s1, None, None), Ask("patch", s1, None, b),
     Ask("upsert", None, None, b), Ask("upsert", None, None, a)}

Requests == Permutations(Request)
=============================================================================
