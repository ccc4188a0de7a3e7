------------------------------- MODULE MCShell -------------------------------
(***************************************************************************)
(* Instance of the shell for TLC: the welcome page, taller than the page   *)
(* area at the smaller width, and a web page that may redirect to a second *)
(* one, which cannot be laid out.                                          *)
(***************************************************************************)
EXTENDS Shell

MCEditText == [welcome |-> "about:welcome", web |-> "web:", web2 |-> "web2:"]
MCLocation == DOMAIN MCEditText
MCFinalUrls == [web |-> {"web", "web2"}, web2 |-> {"web2"}]
MCParse ==
    [t \in {"", "gopher:", "about:welcome", "web:", "web2:"} |->
        IF \E l \in MCLocation : MCEditText[l] = t THEN CHOOSE l \in MCLocation : MCEditText[l] = t
        ELSE None]
MCPage == MCLocation \cup {"error"}
MCLinksOf == [welcome |-> {"next"}, web |-> {"next"}, web2 |-> {}, error |-> {"home"}]
MCHref == {"home", "next"}
MCResolve == [l \in MCLocation, h \in MCHref |-> IF h = "home" THEN "welcome" ELSE "web"]
MCInput(cmds, keys, texts, targets, ids) ==
    [cmds |-> cmds, keys |-> keys, texts |-> texts, targets |-> targets, ids |-> ids,
     views |-> {[w |-> 1, h |-> 1]} \cup IF "Page" \in targets THEN {[w |-> 2, h |-> 1]} ELSE {}]
MCInputs ==
    {MCInput(Command, ChromeKey, {"web:"}, {}, 2),
     MCInput({"NewTab", "CloseTab", "NextTab", "MoveTabRight"}, {}, {}, {"Tab"}, 3),
     MCInput({"NextTab", "FocusAddress"}, {}, {"gopher:"}, {"Close", "NewTab"}, 2),
     MCInput({"NewTab", "PrevTab", "Back"}, {}, {}, {"Page"}, 2),
     MCInput({"FocusAddress", "NewTab", "SelectFirst", "Forward", "Reload"}, {"Enter"}, {"web:"}, {"Back"}, 2),
     MCInput({"FocusAddress", "Reload"}, {"Enter", "Escape"}, {"", "gopher:"}, {"Field", "Control", "Bar"}, 1)}
MCHeight == [p \in MCPage, w \in 1..2 |-> IF p = "welcome" /\ w = 1 THEN 2 ELSE 1]
=============================================================================
