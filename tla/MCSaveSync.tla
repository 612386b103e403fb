----------------------------- MODULE MCSaveSync -----------------------------
(* Instances of SaveSync for TLC: what the plugin makes of each content.   *)
EXTENDS SaveSync

CONSTANTS f1, f2,            \* save files
          g1, g2,            \* games
          ok1, ok2, anon, bad, alt, trim, prev, \* contents
          s1, s2,            \* sections
          v1, v2, v3,        \* section values
          n1, n2,            \* save names
          e1,                \* plugin errors
          Http               \* the local-API handler that runs UpdatePlugins

Sections(a, b) == [s \in {s1, s2} |-> IF s = s1 THEN a ELSE b]
Parsed(name, sections) == [error |-> None, name |-> name, sections |-> sections]

\* ok1 and ok2 are two states of one save that differ in one section; anon
\* names no save; trim is ok1 without its second section; prev is an older
\* session of the same save; alt is another save that agrees with ok1 in one
\* section; bad does not parse.  Version 2 of the plugin sees one section
\* differently and, unlike version 1, reads bad, as a save without the second
\* section.
ParseTable == [vc \in Version \X Content |->
  LET v == vc[1]
      c == vc[2]
      x == IF v = 1 THEN v1 ELSE v3
  IN  CASE c = ok1 -> Parsed(n1, Sections(v1, x))
        [] c = ok2 -> Parsed(n1, Sections(v2, x))
        [] c = anon -> Parsed(None, Sections(v3, x))
        [] c = prev -> Parsed(n1, Sections(v3, v2))
        [] c = trim -> Parsed(n1, Sections(v1, None))
        [] c = alt -> Parsed(n2, Sections(v2, x))
        [] OTHER -> IF v = 1 THEN [error |-> e1, name |-> None,
                                   sections |-> Sections(None, None)]
                    ELSE Parsed(n1, Sections(v2, None))]

OneGame == [f \in File |-> g1]

\* Every file may take every content.
Any == [f \in File |-> Content]
=============================================================================
