-------------------------------- MODULE Shell --------------------------------
(***************************************************************************)
(* The browser behind the window, px-shell's shell.rs: tabs with their     *)
(* histories, the page in each, scrolling and link clicks, composed with   *)
(* the chrome of px-ui.  Everything runs on one thread, and a load blocks  *)
(* it: an event is one step, from Shell::handle to its end.                *)
(*                                                                         *)
(* The shell is a record; its fields are those of the struct Shell, `view` *)
(* being the page area the chrome's layout leaves (`hover`, which only the *)
(* cursor shows, is left out).  A tab is                                   *)
(*     [id, history, pos, source, laid]                                    *)
(* with history a sequence of [loc, scroll], source the page it shows and  *)
(* laid the width and height of its layout, or None.                       *)
(***************************************************************************)
EXTENDS Chrome

CONSTANTS
    Location,    \* what a tab can be at
    Web,         \* the locations fetched through the network
    Welcome,     \* about:welcome
    ErrorPage,   \* the page shown instead of one that cannot be
    FinalUrls,   \* where a web location may end: itself, or a redirect's target
    Parse,       \* the location a text names, None if it names none
    Href,        \* the links of pages
    LinksOf,     \* the links of a page
    Resolve,     \* where a link leads from a location, None for nowhere
    Height,      \* the height of a page laid out at a width
    Unlayable,   \* the pages the engine cannot lay out
    Inputs,      \* bounds: the shortcuts, keys, texts, pointer targets, page areas and
                 \* tabs of a behaviour
    MaxEntries   \* bound on the entries of all histories

VARIABLES
    shell,
    hand,        \* the mouse: the button held down, the tab it went down on and
                 \* the slot the pointer went to since
    input        \* the inputs of this behaviour, [cmds, keys, texts, targets, views, ids]
shellVars == <<shell, hand, input>>

Active(s) == s.tabs[s.active]
SetActive(s, t) == [s EXCEPT !.tabs[s.active] = t]
EntryOf(t) == t.history[t.pos]
IndexOfTab(s, id) == {i \in DOMAIN s.tabs : s.tabs[i].id = id}

-----------------------------------------------------------------------------
(* Loading.  A file may be gone or unreadable, a fetch may fail or end at   *)
(* another address; a builtin page is always there.                         *)
Loads(loc) ==
    IF loc = Welcome THEN {[source |-> loc, final_url |-> None]}
    ELSE {[source |-> ErrorPage, final_url |-> None]}
         \cup IF loc \in Web THEN {[source |-> u, final_url |-> u] : u \in FinalUrls[loc]}
              ELSE {[source |-> loc, final_url |-> None]}

(* `l` is what loading the entry's location produced. *)
load_into(t, l) ==
    [t EXCEPT !.history[t.pos].loc = IF l.final_url = None THEN @ ELSE l.final_url,
              !.source = l.source, !.laid = None]

-----------------------------------------------------------------------------
(* The chrome is told everything again after each change. *)
sync(s) ==
    LET ids == [i \in DOMAIN s.tabs |-> s.tabs[i].id]
        t == Active(s)
        c1 == set_tabs(s.chrome, ids, t.id)
        c2 == set_display(c1, EntryOf(t).loc)
    IN  [s EXCEPT !.chrome = [c2 EXCEPT !.nav = [back |-> t.pos > 1,
                                                 forward |-> t.pos < Len(t.history)]]]

scroll_clamped(s, y) ==
    LET laid == Active(s).laid
        h == IF laid = None THEN 0 ELSE laid.height - s.view.h
    IN  Max({0, Min({y, h})})

ScrollNow(s) == EntryOf(Active(s)).scroll
SetScroll(s, y) == [s EXCEPT !.tabs[s.active].history[Active(s).pos].scroll = y]

(* A layout is made for a width and kept while the width is the same; a     *)
(* page that cannot be laid out is replaced by the error page.              *)
ensure_layout(s) ==
    LET t == Active(s)
        w == s.view.w
        source == IF t.source \in Unlayable THEN ErrorPage ELSE t.source
        s1 == SetActive(s, [t EXCEPT !.source = source, !.laid = [width |-> w, height |-> Height[source, w]]])
    IN  IF t.laid # None /\ t.laid.width = w THEN s
        ELSE sync(SetScroll(s1, scroll_clamped(s1, ScrollNow(s1))))

scroll_to(s, y) ==
    LET s1 == ensure_layout(s) IN SetScroll(s1, scroll_clamped(s1, y))

-----------------------------------------------------------------------------
(* Tabs and history. *)

NewTabState(id, loc) ==
    [id |-> id, history |-> <<[loc |-> loc, scroll |-> 0]>>, pos |-> 1,
     source |-> None, laid |-> None]

open_tab(s, loc, l) ==
    [s EXCEPT !.tabs = Append(@, load_into(NewTabState(s.next_id, loc), l)),
              !.next_id = @ + 1,
              !.active = Len(s.tabs) + 1]

navigate_Unpruned(s, loc, l) ==  \* Mutant: the entry is added behind the forward ones.
    LET t == Active(s)
        h == Append(t.history, [loc |-> loc, scroll |-> 0])
    IN  sync([SetActive(s, load_into([t EXCEPT !.history = h, !.pos = Len(h)], l))
                EXCEPT !.pressed = None])

navigate(s, loc, l) ==
    LET t == Active(s)
        h == Append(SubSeq(t.history, 1, t.pos), [loc |-> loc, scroll |-> 0])
    IN  sync([SetActive(s, load_into([t EXCEPT !.history = h, !.pos = Len(h)], l))
                EXCEPT !.pressed = None])

go_history(s, delta, l) ==
    LET t == Active(s)
        to == t.pos + delta
    IN  IF to \notin DOMAIN t.history THEN s
        ELSE sync(SetActive(s, load_into([t EXCEPT !.pos = to], l)))

close_tab(s, id, l) ==
    LET left == SelectSeq(s.tabs, LAMBDA t : t.id # id)
        s1 == [s EXCEPT !.tabs = left]
        s2 == IF left = <<>> THEN open_tab(s1, Welcome, l) ELSE s1
    IN  [s2 EXCEPT !.active = Min({@, Len(s2.tabs)})]

activate_tab(s, id) ==
    IF IndexOfTab(s, id) = {} THEN s
    ELSE [s EXCEPT !.active = CHOOSE i \in IndexOfTab(s, id) : TRUE]

reorder_tab(s, id, to) ==
    IF IndexOfTab(s, id) = {} THEN s
    ELSE LET from == CHOOSE i \in IndexOfTab(s, id) : TRUE
             rest == RemoveAt(s.tabs, from)
             s1 == [s EXCEPT !.tabs = InsertAt(rest, Min({to, Len(rest) + 1}), s.tabs[from])]
         IN  [s1 EXCEPT !.active = CHOOSE i \in IndexOfTab(s1, Active(s).id) : TRUE]

(* An address that names nothing shows the reason in place of the page. *)
show_error(s) == SetActive(s, [Active(s) EXCEPT !.source = ErrorPage, !.laid = None])

(* The location a request loads, None for the requests that load nothing. *)
LoadedBy(s, r) ==
    LET t == Active(s)
        at(i) == IF i \in DOMAIN t.history THEN t.history[i].loc ELSE None
    IN  CASE r.kind = "NewTab" -> Welcome
          [] r.kind = "CloseTab" /\ Len(s.tabs) = 1 -> Welcome
          [] r.kind = "Navigate" -> Parse[r.text]
          [] r.kind = "Back" -> at(t.pos - 1)
          [] r.kind = "Forward" -> at(t.pos + 1)
          [] r.kind = "Reload" -> at(t.pos)
          [] OTHER -> None

(* Shell::apply, with `l` the outcome of the load if the request makes one. *)
apply(s, r, l) ==
    sync(CASE r.kind = "NewTab" -> open_tab(s, Welcome, l)
           [] r.kind = "CloseTab" -> close_tab(s, r.tab, l)
           [] r.kind = "ActivateTab" -> activate_tab(s, r.tab)
           [] r.kind = "MoveTab" -> reorder_tab(s, r.tab, r.to)
           [] r.kind = "Navigate" -> IF Parse[r.text] = None THEN show_error(s)
                                     ELSE navigate(s, Parse[r.text], l)
           [] r.kind = "Back" -> go_history(s, -1, l)
           [] r.kind = "Forward" -> go_history(s, 1, l)
           [] r.kind = "Reload" -> SetActive(s, load_into(Active(s), l))
           [] OTHER -> s)

-----------------------------------------------------------------------------
(* Events. *)

(* Loads that the bounds of the model allow. *)
InBounds(s) ==
    /\ s.next_id <= input.ids + 1
    /\ FoldLeft(LAMBDA n, t : n + Len(t.history), 0, s.tabs) <= MaxEntries

(* What the shell may be once the request in the outcome `o` of the chrome  *)
(* is applied.  An event that the chrome did not keep then goes to the page. *)
Handled(o) ==
    LET s == [shell EXCEPT !.chrome = o.c]
        loc == IF o.req = None THEN None ELSE LoadedBy(s, o.req)
    IN  {s1 \in {IF o.req = None THEN s ELSE apply(s, o.req, l) :
                    l \in IF loc = None THEN {None} ELSE Loads(loc)} : InBounds(s1)}

Shortcut ==
    /\ \E cmd \in input.cmds : shell' \in Handled(run_command(shell.chrome, cmd))
    /\ UNCHANGED <<hand, input>>

(* While a mouse button is held, the only keys of the model are shortcuts. *)
KeyPress ==
    /\ hand.button = None
    /\ \E k \in input.keys : shell' \in Handled(chrome_key(shell.chrome, k))
    /\ UNCHANGED <<hand, input>>

Typing ==
    /\ hand.button = None
    /\ shell.chrome.bar.editing
    /\ \E text \in input.texts :
          shell' = [shell EXCEPT !.chrome = address_edit(@, text)]
    /\ UNCHANGED <<hand, input>>

LoseFocus ==
    /\ shell' = [shell EXCEPT !.chrome = lose_focus(@)]
    /\ UNCHANGED <<hand, input>>

(* The wheel, an arrow, Page Up and so on: to any offset, clamped. *)
Scroll ==
    /\ \E y \in 0..Max({Height[p] : p \in DOMAIN Height}) : shell' = scroll_to(shell, y)
    /\ UNCHANGED <<hand, input>>

Resize ==
    /\ \E v \in input.views : shell' = LET s == [shell EXCEPT !.view = v] IN scroll_to(s, ScrollNow(s))
    /\ UNCHANGED <<hand, input>>

(* A frame is drawn: the page is laid out if it is not. *)
Frame == shell' = ensure_layout(shell) /\ UNCHANGED <<hand, input>>

Slot == {[kind |-> k, at |-> i] : k \in input.targets \cap {"Tab", "Close"}, i \in Slots(shell.chrome)}
Elsewhere == {[kind |-> k, at |-> None] :
                 k \in input.targets \cap ({"NewTab", "Field", "Control", "Bar", "Page", "Outside"} \cup ToolButton)}
Region == Slot \cup Elsewhere

(* The links the pointer may be at; to look for one lays the page out. *)
LinksAt(region) ==
    IF region.kind = "Page" THEN LinksOf[Active(ensure_layout(shell)).source] \cup {None} ELSE {None}
LookAt(s, region) == IF region.kind = "Page" THEN ensure_layout(s) ELSE s

PointerDown ==
    /\ hand.button = None
    /\ \E region \in Region, button \in {"Primary", "Middle"} :
          \E over \in LinksAt(region) :
             /\ LET o == pointer_down(shell.chrome, button, region)
                    pressed(s) == IF button = "Primary" THEN [s EXCEPT !.pressed = over] ELSE s
                IN  \E s \in Handled(o) :
                       shell' = IF o.consumed THEN s ELSE pressed(LookAt(s, region))
             /\ hand' = [button |-> button, slot |-> None,
                         tab |-> IF region.kind = "Tab" THEN IdOf(shell.chrome, region.at) ELSE None]
    /\ UNCHANGED input

(* Another slot than the one pressed is further away than the threshold.    *)
(* With no tab pressed or held, a move matters to the page only.            *)
PointerMove ==
    LET idle == shell.chrome.strip.pressed = None /\ hand.tab = None
    IN \E region \in IF idle THEN {r \in Region : r.kind = "Page"} ELSE Region,
          past \in IF idle THEN {FALSE} ELSE BOOLEAN :
       \E slot \in IF region \in Slot THEN {region.at} ELSE Slots(shell.chrome) \cup {None} :
          /\ shell.chrome.strip.pressed # None /\ slot \notin {None, shell.chrome.strip.pressed.at} => past
          /\ LET o == pointer_move(shell.chrome, region, slot, past)
             IN  \E s \in Handled(o) : shell' = IF o.consumed THEN s ELSE LookAt(s, region)
          /\ hand' = [hand EXCEPT !.slot = IF past /\ hand.button = "Primary" /\ hand.tab # None
                                           THEN slot ELSE @]
          /\ UNCHANGED input

(* A release over the link that was pressed follows it. *)
PointerUp ==
    /\ hand.button # None
    /\ \E region \in Region :
          \E over \in LinksAt(region) :
             LET o == pointer_up(shell.chrome, hand.button, region)
                 down == shell.pressed
                 loc == IF over = None THEN None ELSE Resolve[EntryOf(Active(shell)).loc, over]
             IN  \E l \in IF loc = None THEN {None} ELSE Loads(loc) :
                    LET released(s) ==
                            LET s1 == LookAt(s, region)
                                s2 == [s1 EXCEPT !.pressed = None]
                            IN  IF hand.button # "Primary" THEN s1
                                ELSE IF over # None /\ over = down /\ loc # None THEN navigate(s2, loc, l)
                                ELSE s2
                    IN  /\ \E s \in Handled(o) : shell' = IF o.consumed THEN s ELSE released(s)
                        /\ InBounds(shell')
    /\ hand' = [button |-> None, tab |-> None, slot |-> None]
    /\ UNCHANGED input

-----------------------------------------------------------------------------
EmptyChrome ==
    [strip |-> [tabs |-> <<>>, active |-> None, pressed |-> None],
     nav |-> [back |-> FALSE, forward |-> FALSE], tool |-> None,
     bar |-> [display |-> Welcome, editing |-> FALSE, edited |-> FALSE, text |-> None],
     capture |-> None, focus |-> None]

(* Shell::new with no page on the command line. *)
ShellInit ==
    /\ input \in Inputs
    /\ \E v \in input.views, l \in Loads(Welcome) :
          LET s == [tabs |-> <<>>, active |-> 1, next_id |-> 1, pressed |-> None,
                    view |-> v, chrome |-> EmptyChrome]
          IN  shell = sync([open_tab(s, Welcome, l) EXCEPT !.active = 1])
    /\ hand = [button |-> None, tab |-> None, slot |-> None]

ShellNext ==
    \/ Shortcut \/ KeyPress \/ Typing
    \/ PointerDown \/ PointerMove \/ PointerUp
    \/ LoseFocus \/ Resize \/ Scroll \/ Frame

ShellSpec == ShellInit /\ [][ShellNext]_shellVars

-----------------------------------------------------------------------------
(* The chrome shows what the shell has, after every event: the tabs in their
   order up to MAX_TABS, the active one, its address (in a field that has the
   focus too, until the user changes the text) and whether there is a way back
   and forward.  Shell::sync is what keeps the mirror (shell.rs:142), and the
   strip, which reorders itself first, must come to the same order.  And the
   page a tab shows is that of its current entry, or an error page, after any
   mixture of loads, redirects, refused addresses and moves through the
   history (load_into, go_history, navigate). *)
ChromeShowsTheShell ==
    LET t == Active(shell)
        c == shell.chrome
    IN  /\ \A i \in Slots(c) : IdOf(c, i) = shell.tabs[i].id
        /\ Len(c.strip.tabs) = Min({Len(shell.tabs), MAX_TABS})
        /\ c.strip.active = IF shell.active <= MAX_TABS THEN shell.active ELSE None
        /\ c.bar.display = EntryOf(t).loc
        /\ c.bar.editing /\ ~c.bar.edited => c.bar.text = EditText[EntryOf(t).loc]
        /\ c.nav = [back |-> t.pos > 1, forward |-> t.pos < Len(t.history)]
        /\ \A i \in DOMAIN shell.tabs :
              shell.tabs[i].source \in {EntryOf(shell.tabs[i]).loc, ErrorPage}

(* What a step may do to a history: the position moves one entry at a time,
   a navigation drops the entries ahead of it and nothing else, and the
   entries other than the one left and the one reached keep their address and
   their scroll offset.  A tab that is neither left nor reached keeps all. *)
HistoryStep(t, u) ==
    /\ u.pos - t.pos \in -1..1
    /\ \/ Len(u.history) = Len(t.history)
       \/ u.pos = t.pos + 1 /\ Len(u.history) = u.pos
    /\ \A i \in DOMAIN t.history \cap DOMAIN u.history :
          i \notin {t.pos, u.pos} => u.history[i] = t.history[i]

HistoryIsKept ==
    [][shell'.tabs # shell.tabs => \A i \in DOMAIN shell.tabs, j \in DOMAIN shell'.tabs :
          shell.tabs[i].id = shell'.tabs[j].id =>
             /\ HistoryStep(shell.tabs[i], shell'.tabs[j])
             /\ i # shell.active /\ j # shell'.active => shell'.tabs[j] = shell.tabs[i]]_shellVars

(* While a tab is held and the pointer has moved past the threshold, the tab
   goes to the slot under the pointer, move after move (TabStrip::drag_to,
   tabs.rs:274). *)
HeldTabFollowsThePointer ==
    [][hand.button = "Primary" /\ hand'.slot \notin {None, hand.slot}
          => \A i \in DOMAIN shell'.tabs : shell'.tabs[i].id = hand.tab => i = hand'.slot]_shellVars
=============================================================================
