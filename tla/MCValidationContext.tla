------------------------- MODULE MCValidationContext -------------------------
(***************************************************************************)
(* A namespace for model checking ValidationContext: the anchor "ex" with  *)
(* an empty non-terminal a.ex above the secure delegation b.a.ex, the      *)
(* insecure delegation c.ex, and "org", which no anchor covers.            *)
(***************************************************************************)
EXTENDS ValidationContext

MCNames == {".", "ex", "org", "a.ex", "b.a.ex", "c.ex"}
MCParent == [n \in MCNames \ {"."} |->
               CASE n \in {"ex", "org"} -> "."
                 [] n \in {"a.ex", "c.ex"} -> "ex"
                 [] n = "b.a.ex" -> "a.ex"]
MCKind == [n \in {"a.ex", "b.a.ex", "c.ex"} |->
             CASE n = "a.ex" -> "Ent"
               [] n = "b.a.ex" -> "Signed"
               [] n = "c.ex" -> "Unsigned"]
=============================================================================
