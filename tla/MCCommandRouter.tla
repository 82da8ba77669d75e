--------------------------- MODULE MCCommandRouter ---------------------------
(* The router with the program's own declarations, and with every short list  *)
(* of declarations over a few ids that begin alike.                           *)
EXTENDS CommandRouter, FiniteSets

CONSTANTS x, y

SmallId == {<<x>>, <<y>>, <<x, x>>, <<x, y>>, <<x, y, x>>}

SmallDeclaration ==
    [kind : {"button"}, id : SmallId, type : MatchType]
      \cup [kind : {"slash"}, id : {<<x>>}, type : {"EXACT"}]

MCFragment == {x, y, "|serverID"} \cup UNION {{Program[i].id[j] : j \in DOMAIN Program[i].id} :
                                      i \in DOMAIN Program}

MCId == SmallId \cup {Program[i].id : i \in DOMAIN Program}
                \cup {ConcreteId(Program[i]) : i \in DOMAIN Program}

MCDeclared == {Program} \cup UNION {[1 .. n -> SmallDeclaration] : n \in 0 .. 3}
=============================================================================
