------------------------------- MODULE Chrome --------------------------------
(***************************************************************************)
(* The browser chrome of px-ui: the tab strip, the toolbar, the address    *)
(* bar and the routing of input between them, as functions of a record     *)
(*                                                                         *)
(*     strip   [tabs, active, pressed]    TabStrip (tabs.rs)               *)
(*     nav     [back, forward]            what Toolbar may offer           *)
(*     tool    the pressed tool button    Toolbar::pressed                 *)
(*     bar     [display, editing, edited, text]   AddressBar               *)
(*     capture, focus                     Chrome (chrome.rs)               *)
(*                                                                         *)
(* An event gives an outcome [c, req, consumed]: the new chrome, the one   *)
(* request for the browser (or None) and whether the chrome kept the       *)
(* event.  Left out: what only the painting reads (hover, the cursor, the  *)
(* scroll of the strip, the caret and the selection of the address field), *)
(* and Stop, which needs a load in progress and the shell never reports    *)
(* one.  A tab is one of the strip's slots 1..n, all of them shown.        *)
(***************************************************************************)
EXTENDS Integers, Sequences, SequencesExt, Option

CONSTANTS
    MAX_TABS,    \* the longest strip
    EditText     \* the text editing starts from, for each location shown

(* Requests for the browser (AppRequest). *)
Request(kind) == [kind |-> kind]
TabRequest(kind, id) == [kind |-> kind, tab |-> id]
MoveRequest(id, to) == [kind |-> "MoveTab", tab |-> id, to |-> to]
NavigateRequest(text) == [kind |-> "Navigate", text |-> text]

Outcome(c, req, consumed) == [c |-> c, req |-> req, consumed |-> consumed]
Consumed(c, req) == Outcome(c, req, TRUE)

IdOf(c, i) == c.strip.tabs[i]
Slots(c) == 1..Len(c.strip.tabs)

-----------------------------------------------------------------------------
(* The tab strip. *)

(* The browser's truth; it ends a press or a drag in progress. *)
set_tabs(c, ids, id) ==
    LET shown == SubSeq(ids, 1, Min({Len(ids), MAX_TABS}))
        at == {i \in DOMAIN shown : shown[i] = id}
    IN  [c EXCEPT !.strip = [tabs |-> shown,
                             active |-> IF at = {} THEN None ELSE CHOOSE i \in at : TRUE,
                             pressed |-> None]]

activate(c, i) ==
    IF i \notin Slots(c) \/ c.strip.active = i THEN Consumed(c, None)
    ELSE Consumed([c EXCEPT !.strip.active = i], TabRequest("ActivateTab", IdOf(c, i)))

select_relative(c, delta) ==
    IF c.strip.active = None THEN Consumed(c, None)
    ELSE activate(c, ((c.strip.active - 1 + delta) % Len(c.strip.tabs)) + 1)

select_last(c) == activate(c, Len(c.strip.tabs))

close_active(c) ==
    Consumed(c, IF c.strip.active = None THEN None
                ELSE TabRequest("CloseTab", IdOf(c, c.strip.active)))

(* The strip reorders itself first and then tells the browser. *)
move_tab(c, from, to) ==
    IF from = to \/ {from, to} \ Slots(c) # {} THEN Consumed(c, None)
    ELSE LET id == IdOf(c, from)
             a == c.strip.active
         IN  Consumed(
                [c EXCEPT
                    !.strip.tabs = InsertAt(RemoveAt(@, from), to, id),
                    !.strip.active =
                        IF a = None THEN None
                        ELSE IF a = from THEN to
                        ELSE IF from < a /\ a <= to THEN a - 1
                        ELSE IF to <= a /\ a < from THEN a + 1
                        ELSE a],
                MoveRequest(id, to))

move_active(c, delta) ==
    IF c.strip.active = None \/ c.strip.active + delta \notin Slots(c) THEN Consumed(c, None)
    ELSE move_tab(c, c.strip.active, c.strip.active + delta)

(* The pointer is over `slot` (None: between two tabs); `past` says whether *)
(* it is further than DRAG_THRESHOLD from where it was pressed.             *)
drag_to(c, slot, past) ==
    LET p == c.strip.pressed
        target == IF slot = None THEN p.at ELSE slot
        moved == move_tab(c, p.at, target)
    IN  IF p = None THEN Consumed(c, None)
        ELSE IF p.kind # "Tab" \/ (~p.dragging /\ ~past) THEN Consumed(c, None)
        ELSE Consumed([moved.c EXCEPT !.strip.pressed = [p EXCEPT !.at = target, !.dragging = TRUE]],
                      moved.req)

Press(kind, at) == [kind |-> kind, at |-> at, dragging |-> FALSE]

strip_down(c, button, region) ==
    LET press(kind) == [c EXCEPT !.strip.pressed = Press(kind, region.at)]
    IN  CASE button = "Middle" /\ region.kind \in {"Tab", "Close"} -> Consumed(press("MiddleTab"), None)
          [] button = "Primary" /\ region.kind = "Tab" -> activate(press("Tab"), region.at)
          [] button = "Primary" /\ region.kind \in {"Close", "NewTab"} -> Consumed(press(region.kind), None)
          [] OTHER -> Consumed(c, None)

strip_up(c, button, region) ==
    LET p == c.strip.pressed
        c1 == [c EXCEPT !.strip.pressed = None]
        on(kinds) == p # None /\ region.kind \in kinds /\ region.at = p.at
        closes == \/ button = "Primary" /\ on({"Close"}) /\ p.kind = "Close"
                  \/ button = "Middle" /\ on({"Tab", "Close"}) /\ p.kind = "MiddleTab"
    IN  IF closes /\ p.at \in Slots(c) THEN Consumed(c1, TabRequest("CloseTab", IdOf(c, p.at)))
        ELSE IF button = "Primary" /\ on({"NewTab"}) /\ p.kind = "NewTab"
             THEN Consumed(c1, Request("NewTab"))
        ELSE Consumed(c1, None)

-----------------------------------------------------------------------------
(* The toolbar. *)

ToolButton == {"Back", "Forward", "Reload", "Overflow"}

enabled(c, b) == (b = "Back" => c.nav.back) /\ (b = "Forward" => c.nav.forward)

(* The overflow button asks for a menu, which the shell does not have. *)
tool_activate(c, b) ==
    Consumed(c, IF enabled(c, b) THEN Request(b) ELSE None)

tool_down(c, button, region) ==
    Consumed(IF button = "Primary"
             THEN [c EXCEPT !.tool = IF enabled(c, region.kind) THEN region.kind ELSE None]
             ELSE c, None)

tool_up(c, button, region) ==
    IF button # "Primary" THEN Consumed(c, None)
    ELSE LET c1 == [c EXCEPT !.tool = None]
         IN  IF c.tool # None /\ c.tool = region.kind THEN tool_activate(c1, c.tool)
             ELSE Consumed(c1, None)

-----------------------------------------------------------------------------
(* The address bar. *)

set_display_NoFollow(c, loc) ==  \* Mutant: a field being edited keeps the text it started from.
    [c EXCEPT !.bar.display = loc]

set_display(c, loc) ==
    [c EXCEPT !.bar = [@ EXCEPT !.display = loc,
                                !.text = IF c.bar.editing /\ ~c.bar.edited THEN EditText[loc] ELSE @]]

address_focus(c) ==
    [c EXCEPT !.bar = [@ EXCEPT !.editing = TRUE, !.edited = FALSE, !.text = EditText[c.bar.display]]]

address_blur(c) ==
    IF ~c.bar.editing THEN c
    ELSE [c EXCEPT !.bar = [@ EXCEPT !.editing = FALSE, !.edited = FALSE, !.text = None]]

(* Any key, paste or committed text that changes the buffer leaves it `text`. *)
address_edit(c, text) == [c EXCEPT !.bar = [@ EXCEPT !.text = text, !.edited = TRUE]]

(* "" stands for a text with nothing but white space. *)
address_enter(c) ==
    Consumed(address_blur(c), IF c.bar.text = "" THEN None ELSE NavigateRequest(c.bar.text))

address_escape(c) ==
    IF c.bar.edited
    THEN [c EXCEPT !.bar = [@ EXCEPT !.text = EditText[c.bar.display], !.edited = FALSE]]
    ELSE address_blur(c)

-----------------------------------------------------------------------------
(* Focus and routing. *)

(* The stops of the Tab key that exist now, in order. *)
stops(c) ==
    SelectSeq(<<"ActiveTab", "NewTab", "Back", "Forward", "Reload", "Field", "Overflow">>,
              LAMBDA s : /\ s = "ActiveTab" => c.strip.active # None
                         /\ s \in ToolButton => enabled(c, s))

traverse(c, backwards) ==
    LET order == stops(c)
        cur == IF c.bar.editing THEN "Field" ELSE c.focus
        at == {i \in DOMAIN order : order[i] = cur}
        next == IF at = {} THEN IF backwards THEN Len(order) ELSE 1
                ELSE (CHOOSE i \in at : TRUE) + (IF backwards THEN -1 ELSE 1)
        stop == IF next \in DOMAIN order THEN order[next] ELSE None
        c1 == [address_blur(c) EXCEPT !.focus = IF stop = "Field" THEN None ELSE stop]
    IN  Outcome(IF stop = "Field" THEN address_focus(c1) ELSE c1, None, stop # None)

activate_stop(c) ==
    CASE c.focus = "NewTab" -> Consumed(c, Request("NewTab"))
      [] c.focus \in ToolButton -> tool_activate(c, c.focus)
      [] OTHER -> Consumed(c, None)

(* The shortcuts work whatever has the focus. *)
run_command(c, cmd) ==
    CASE cmd = "FocusAddress" -> Consumed(address_focus([c EXCEPT !.focus = None]), None)
      [] cmd = "NewTab" -> Consumed(c, Request("NewTab"))
      [] cmd = "CloseTab" -> close_active(c)
      [] cmd = "NextTab" -> select_relative(c, 1)
      [] cmd = "PrevTab" -> select_relative(c, -1)
      [] cmd = "SelectFirst" -> activate(c, 1)
      [] cmd = "LastTab" -> select_last(c)
      [] cmd = "MoveTabLeft" -> move_active(c, -1)
      [] cmd = "MoveTabRight" -> move_active(c, 1)
      [] cmd \in {"Back", "Forward", "Reload"} -> tool_activate(c, cmd)

Command == {"FocusAddress", "NewTab", "CloseTab", "NextTab", "PrevTab", "SelectFirst",
            "LastTab", "MoveTabLeft", "MoveTabRight", "Back", "Forward", "Reload"}

(* Keys that are no shortcut.  Left and Right move from the tab stop, Enter *)
(* activates a stop or submits the field, Escape leaves either.             *)
chrome_key(c, k) ==
    CASE k \in {"Tab", "ShiftTab"} /\ (c.bar.editing \/ c.focus # None) -> traverse(c, k = "ShiftTab")
      [] c.bar.editing /\ k = "Enter" -> address_enter(c)
      [] c.bar.editing /\ k = "Escape" -> Consumed(address_escape(c), None)
      [] c.bar.editing /\ k \notin {"Tab", "ShiftTab", "Enter", "Escape"} -> Consumed(c, None)
      [] ~c.bar.editing /\ c.focus # None /\ k = "Escape" -> Consumed([c EXCEPT !.focus = None], None)
      [] ~c.bar.editing /\ c.focus # None /\ k = "Enter" -> activate_stop(c)
      [] ~c.bar.editing /\ c.focus = "ActiveTab" /\ k = "Left" -> select_relative(c, -1)
      [] ~c.bar.editing /\ c.focus = "ActiveTab" /\ k = "Right" -> select_relative(c, 1)
      [] OTHER -> Outcome(c, None, FALSE)

ChromeKey == {"Tab", "ShiftTab", "Enter", "Escape", "Left", "Right"}

(* Losing the window's focus lets go of the capture and of nothing else. *)
lose_focus(c) == [c EXCEPT !.capture = None]

InPage(region) == region.kind \in {"Page", "Outside"}

Captures(region) ==
    CASE region.kind \in {"Tab", "Close", "NewTab"} -> "Strip"
      [] region.kind \in ToolButton -> "Toolbar"
      [] region.kind = "Control" -> "Control"
      [] OTHER -> None

pointer_down(c, button, region) ==
    LET c1 == IF region.kind = "Field" THEN c ELSE address_blur(c)
        c2 == [c1 EXCEPT !.focus = None,
                         !.capture = IF region.kind = "Control" /\ button # "Primary" THEN None
                                     ELSE Captures(region)]
    IN  IF InPage(region) THEN Outcome(c1, None, FALSE)
        ELSE IF c2.capture = "Strip" THEN strip_down(c2, button, region)
        ELSE IF c2.capture = "Toolbar" THEN tool_down(c2, button, region)
        ELSE IF region.kind = "Field" /\ button = "Primary"
             THEN Consumed(IF c2.bar.editing THEN [c2 EXCEPT !.capture = "Field"]
                           ELSE address_focus(c2), None)
        ELSE Consumed(c2, None)

(* The strip hears of a move that it captured, and of one that nobody did. *)
pointer_move(c, region, slot, past) ==
    LET dragged == IF c.capture \in {"Strip", None} THEN drag_to(c, slot, past) ELSE Consumed(c, None)
    IN  Outcome(dragged.c, dragged.req, ~InPage(region) \/ c.capture # None)

pointer_up(c, button, region) ==
    LET c1 == [c EXCEPT !.capture = None]
        o == CASE c.capture = "Strip" -> strip_up(c1, button, region)
               [] c.capture = "Toolbar" -> tool_up(c1, button, region)
               [] OTHER -> Consumed(c1, None)
    IN  Outcome(o.c, o.req, ~InPage(region) \/ c.capture # None)
=============================================================================
