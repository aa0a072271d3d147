--------------------------- MODULE MCJinjaLoading ---------------------------
(* Templates that include, import and extend one another, in circles too,  *)
(* and a third name that pushes one of them out of the cache.              *)
EXTENDS JinjaLoading

Inc(n, m, ignore) == [op |-> "include", names |-> <<n, m>>, ignoreMissing |-> ignore]
Imp(n, ctx) == [op |-> "import", names |-> <<n>>, withContext |-> ctx]
Ext(n) == [op |-> "extends", names |-> <<n>>]

MCNames == {"a", "b", "c"}

Src(len, body) == [len |-> len, body |-> body]

MCLoader ==
  [n \in MCNames |->
     IF n = "a"
     THEN {Src(1, <<Imp("b", FALSE), Imp("b", FALSE), Inc("b", "b", FALSE)>>),
           Src(2, <<Ext("b")>>)}
     ELSE IF n = "b"
     THEN {Src(0, << >>), Src(1, <<Inc("a", "b", TRUE), Ext("a")>>), Src(1, <<Imp("a", TRUE)>>)}
     ELSE {Src(0, << >>)}]

MCSources == UNION {MCLoader[n] : n \in MCNames}

============================================================================
