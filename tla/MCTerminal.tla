----------------------------- MODULE MCTerminal -----------------------------
(***************************************************************************)
(* A terminal of two or three rows, and what is printed on it: lines,      *)
(* cursor movements, editing of lines and characters, a scroll region,     *)
(* the alternate screen, and screens as Codex paints them.                 *)
(***************************************************************************)
EXTENDS Terminal

Op(k, n, m) == <<[k |-> k, n |-> n, m |-> m, ch |-> Blank]>>
Do(k) == Op(k, 0, 0)
Text(ch) == <<[k |-> "put", n |-> 0, m |-> 0, ch |-> ch]>>
Line(ch) == Text(ch) \o Do("newline")
Home == Op("position", 1, 1)
Paint(rows) == Home \o Op("eraseDisplay", 2, 0) \o rows

MCFirstSize == <<3, 3>>
MCSizes == {<<2, 3>>, <<3, 3>>, <<2, 4>>}

MCMessage == Line("s")

Enter(mode) == Op("alternate", 1, mode)
Leave(mode) == Op("alternate", 0, mode)

Lines == {Line("a"), Line("a") \o Line("b") \o Line("c"), Text("$"), Paint(<<>>)}

Moves ==
    {Op("position", 3, 3) \o Do("saveCursor"),
     Do("restoreCursor") \o Text("b"),
     Op("up", 1, 0) \o Op("eraseLine", 2, 0) \o Text("b") \o Op("down", 1, 0),
     Do("return") \o Do("tab") \o Text("b") \o Do("back")}

Edits ==
    {Op("region", 1, 2), Op("region", 2, 3) \o Op("line", 2, 0), Do("reverseIndex") \o Text("b"),
     Home \o Op("insertLines", 1, 0) \o Op("insertChars", 1, 0),
     Home \o Op("deleteLines", 1, 0) \o Op("deleteChars", 1, 0) \o Op("right", 1, 0)}

Alternates ==
    {Enter(1049), Leave(1049), Enter(1047) \o Text("b"), Leave(1047),
     Leave(1049) \o Line("a") \o Line("b") \o Line("c") \o Enter(1049)}

Codex ==
    {Paint(Line("C") \o Text("a")), Paint(Line("W") \o Text("b")), Paint(Line("a") \o Text("M")),
     Paint(Line("C") \o Text(">") \o Text("b"))}

MCChunks == Lines \cup Moves \cup Edits \cup Alternates \cup Codex
=============================================================================
