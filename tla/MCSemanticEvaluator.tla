------------------------ MODULE MCSemanticEvaluator ------------------------
(* Two threads, one shared and one private schema object, a cache of one    *)
(* entry, and a budget of one finding: contents with fewer, as many, more.  *)
EXTENDS SemanticEvaluator, TLC

MCContents == {"plain", "reordered", "many", "bad", "long", "exotic"}
MCCacheable == MCContents \ {"exotic"}
MCDigest == [c \in MCCacheable |-> IF c = "reordered" THEN "plain" ELSE c]
MCValid == MCContents \ {"bad"}
MCOverLong == {"long"}
MCFindings == [c \in MCContents |-> CASE c = "many" -> 2 [] c \in {"plain", "reordered"} -> 1 [] OTHER -> 0]
MCSymmetry == Permutations(Threads)
=============================================================================
