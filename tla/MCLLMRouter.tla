----------------------------- MODULE MCLLMRouter -----------------------------
(***************************************************************************)
(* Two calls of a run on one router.  The first has two attempts at its    *)
(* primary model and a fallback on another provider, which reports no      *)
(* usage, and lists its primary among its fallbacks.  The second has no    *)
(* node entry and gets a model of the first one's primary provider, which  *)
(* in another file names a fallback that is not registered.  The last file *)
(* names one in a node entry and must be refused.                          *)
(***************************************************************************)
EXTENDS LLMUsage, TLC

CONSTANTS c1, c2, m1, m2, m3, m4, p1, p2, n1, n2

MCModel(provider, fallbacks) ==
    [provider |-> provider, max_attempts |-> 0, fallback_models |-> fallbacks]

MCFile(modelFallbacks, nodeFallbacks) ==
    [default_model |-> m1,
     providers |-> (p1 :> TRUE) @@ (p2 :> TRUE),
     models |-> (m1 :> MCModel(p1, << >>)) @@ (m2 :> MCModel(p2, << >>))
                @@ (m3 :> MCModel(p1, modelFallbacks)),
     nodes |-> n1 :> [primary_model |-> m1, max_attempts |-> 2,
                      fallback_models |-> nodeFallbacks]]

MCModelIds == {m1, m2, m3, m4}
MCConfigFiles == {MCFile(<< >>, <<m2, m1>>), MCFile(<<m4>>, <<m2>>), MCFile(<< >>, <<m4>>)}
MCPrompt == (c1 :> n1) @@ (c2 :> n2)
MCModelArg == (c1 :> None) @@ (c2 :> m3)
=============================================================================
