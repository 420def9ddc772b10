--------------------------- MODULE MCConfigStore ---------------------------
(* ConfigStore for TLC: two seeds and two presets of the user's.           *)
EXTENDS ConfigStore

CONSTANTS r1, r2, s1, s2, u1, u2

MCSeeds == <<s1, s2>>
MCAlphabet == <<u1, s2, u2, s1>>
MCRaw == {<<u2, u1, u2>>}
\* One command of each kind and outcome.
MCAsked ==
  {m \in Commands :
     CASE m.op = "copy" -> <<m.name, m.to>> \in {<<u1, u2>>, <<s1, u1>>, <<s1, s2>>}
       [] m.op = "rename" -> <<m.name, m.to>> \in {<<u1, u2>>, <<s1, u2>>}
       [] m.op = "delete" -> m.name \in {u1, s1}
       [] m.op = "settings" -> <<m.name, m.arg>> \in {<<u1, <<1, 1>>>>, <<s1, <<2, 1>>>>}
       [] m.op = "mcp" -> m.name = u1
       [] m.op = "sync" -> m.arg = <<1>>
       [] OTHER -> TRUE}
\* The requests of a client that has just started.
MCFirst == {m \in MCAsked : m.op \in {"list", "settings"}}
MCSymmetry == Permutations(Callers)
=============================================================================
