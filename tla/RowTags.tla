------------------------------- MODULE RowTags -------------------------------
(***************************************************************************)
(* The designs of Network > Interfaces and Network > Wireless:               *)
(* view/openuf-theme/network/<page>-<design>.js and fade.js.                  *)
(*                                                                          *)
(* LuCI draws a row and draws it again at every poll.  A design's script       *)
(* watches for it and, in the next frame, names the row's runs and writes its    *)
(* state on it, as attributes for the stylesheet.  fade.js watches the names      *)
(* the script marks, and measures them, in a frame of its own, whose writes it     *)
(* sees again.  One row is modelled: a network's, or a radio's with its SSID.       *)
(***************************************************************************)
EXTENDS Naturals, Sequences

CONSTANTS
  None,
  MaxDraws,   \* bound on LuCI's redraws
  MaxChanges  \* bound on changes of the network or radio

ASSUME RowTagsAssumption ==
  /\ None \notin {"", "fit", "over", "hover", "run", "reconnect", "disconnect"}
  /\ None \notin {"uptime", "error", "note", "channel", "bitrate", "inactive", "bssid"}
  /\ None \notin {"active", "live", "up", "down", "disabled", "pending"}
  /\ MaxDraws \in Nat /\ MaxChanges \in Nat

VARIABLES
  page,     \* "interfaces" or "wireless"
  design,   \* "settings", "list" or "cards": the user's choice
  net,      \* the network, or the radio and its SSID, as they are
  shown,    \* ... as LuCI drew them last
  spins,    \* the button that LuCI has spinning: "reconnect", "disconnect" or None
  busy,     \* LuCI says in the row that this is under way
  tag,      \* what the script wrote on the row
  queued,   \* a frame will tag the rows
  missed,   \* history: the row's class changed and the script was not told
  mark,     \* data-uf-fade on the name: None, "", "fit" or "over"
  seen,     \* fade.js observes the name's size
  wide,     \* the name is wider than its box
  held,     \* the name is hovered or slid by a tap, or its text has yet to slide
            \* back: "hover", "run" or None
  stale,    \* history: it changed while held
  scan,     \* a frame will measure the names
  draws,    \* bound
  changes   \* bound

choice == <<page, design>>
row == <<shown, spins, busy>>
name == <<mark, seen, wide, held, stale>>
bounds == <<draws, changes>>
vars == <<choice, net, row, tag, queued, missed, name, scan, bounds>>

-----------------------------------------------------------------------------
(* What LuCI draws                                                          *)

Networks ==
  [state : {"up", "down", "starting", "disabled", "noboot"}, error : BOOLEAN,
   changed : BOOLEAN, static : BOOLEAN]
Radios ==
  {r \in [off : BOOLEAN, netOff : BOOLEAN, on : BOOLEAN, assoc : BOOLEAN,
          changed : BOOLEAN, auto : BOOLEAN] : r.assoc => r.on}

\* The runs of a network's row: an em alone while something is under way.
Runs(n) ==
  IF busy # None THEN {"em"}
  ELSE {"protocol"}
       \cup (IF n.state = "up" /\ ~n.changed THEN {"uptime", "ipv4"} ELSE {})
       \cup (IF n.error THEN {"error"} ELSE {})
       \cup (IF n.state = "disabled" THEN {"info: disabled"} ELSE {})
       \cup (IF n.state = "noboot" THEN {"info: not on boot"} ELSE {})
       \cup (IF n.changed THEN {"changes"} ELSE {})

\* The buttons: only Stop can be pressed.
StopOnly(n) == n.state = "starting" /\ spins = None

\* The runs of a radio's row, and of its SSID's.
RadioRuns(r) ==
  IF busy # None THEN {"em"} ELSE IF r.on THEN {"channel", "bitrate"} ELSE {"inactive"}
SsidRuns(r) ==
  {"ssid", IF r.changed THEN "changes" ELSE IF r.assoc THEN "bssid" ELSE "not associated"}

-----------------------------------------------------------------------------
(* The six scripts: which changes wake one, how it names the runs, and the      *)
(* state it writes                                                          *)

\* The settings and the list designs watch for nodes alone ...
InterfacesSettingsWatches == {"children"}
InterfacesListWatches == {"children"}
WirelessSettingsWatches == {"children"}
WirelessListWatches == {"children"}
\* ... and the cards for classes as well.
InterfacesCardsWatches == {"children", "class"}
WirelessCardsWatches == {"children", "class"}

\* tagItems: by its label, information by its words, and the rest a note.
InterfacesSettingsKey(run) ==
  IF run = "info: disabled" THEN "disabled"
  ELSE IF run = "info: not on boot" THEN "noboot"
  ELSE IF run \in {"em", "changes"} THEN "note" ELSE run
InterfacesListKey(run) == InterfacesSettingsKey(run)
\* keyLines: an em is no line.
InterfacesCardsKey(run) ==
  IF run = "em" THEN None ELSE IF run = "changes" THEN "note"
  ELSE IF run \in {"info: disabled", "info: not on boot"} THEN "info" ELSE run
WirelessSettingsKey(run) ==
  IF run \in {"em", "changes", "not associated"} THEN "note" ELSE run
WirelessListKey(run) ==
  IF run \in {"em", "changes", "not associated", "inactive"} THEN "status" ELSE run
WirelessCardsKey(run) ==
  IF run = "em" THEN None
  ELSE IF run \in {"changes", "not associated", "inactive"} THEN "note" ELSE run

\* interfaces-settings: state, its word where LuCI has none, and a static network's
\* own addresses.
UpBeforeError(n, found) ==   \* mutant: an uptime is looked for before an error
  IF busy # None THEN "note" ELSE IF "changes" \in Runs(n) THEN "changes"
  ELSE IF "uptime" \in found THEN "up" ELSE IF "error" \in found THEN "error"
  ELSE IF "disabled" \in found THEN "disabled" ELSE IF "noboot" \in found THEN "noboot"
  ELSE IF StopOnly(n) THEN "starting" ELSE "down"
InterfacesSettingsState(n, found) ==
  IF busy # None THEN "note" ELSE IF "changes" \in Runs(n) THEN "changes"
  ELSE IF "error" \in found THEN "error" ELSE IF "uptime" \in found THEN "up"
  ELSE IF "disabled" \in found THEN "disabled" ELSE IF "noboot" \in found THEN "noboot"
  ELSE IF StopOnly(n) THEN "starting" ELSE "down"
InterfacesSettings(n) ==
  LET found == {InterfacesSettingsKey(run) : run \in Runs(n)}
      state == InterfacesSettingsState(n, found)
  IN [state |-> state, word |-> state \in {"disabled", "starting", "down"},
      address |-> n.static]

\* interfaces-list: a word only where the runs say nothing, the addresses only
\* while it has none.
InterfacesListState(n, found) ==
  IF busy # None \/ spins # None THEN "busy"
  ELSE IF "changes" \in Runs(n) THEN "pending" ELSE IF "error" \in found THEN "error"
  ELSE IF "uptime" \in found THEN "up" ELSE IF "disabled" \in found THEN "disabled"
  ELSE IF StopOnly(n) THEN "busy" ELSE "down"
InterfacesList(n) ==
  LET found == {InterfacesListKey(run) : run \in Runs(n)}
      state == InterfacesListState(n, found)
      said == found \cap {"uptime", "error", "noboot", "note"} # {}
  IN [state |-> state, word |-> ~said /\ state \in {"down", "busy", "disabled"},
      address |-> n.static /\ "ipv4" \notin found]

\* interfaces-cards: a word for every state.
InterfacesCardsState(n, lines) ==
  IF busy = "reconnect" \/ spins = "reconnect" THEN "restarting"
  ELSE IF busy = "disconnect" \/ spins = "disconnect" THEN "stopping"
  ELSE IF "note" \in lines THEN "pending" ELSE IF "error" \in lines THEN "error"
  ELSE IF "uptime" \in lines THEN "up"
  ELSE IF "info: disabled" \in Runs(n) THEN "disabled"
  ELSE IF StopOnly(n) THEN "starting" ELSE "down"
InterfacesCards(n) ==
  [state |-> InterfacesCardsState(n, {InterfacesCardsKey(run) : run \in Runs(n)}),
   word |-> TRUE, address |-> FALSE]

\* tagRadio: the state, and the channel it names: the one in use, the one
\* configured, or "auto".
WirelessSettings(r) ==
  LET items == {WirelessSettingsKey(run) : run \in RadioRuns(r)}
      state == IF r.off THEN "disabled"
               ELSE IF items \cap {"channel", "bitrate"} # {} THEN "active"
               ELSE IF "inactive" \in items THEN "down" ELSE None
  IN [radio |-> state, ssid |-> None, switch |-> None,
      channel |-> IF ~r.auto THEN "configured" ELSE IF state = "active" THEN "live"
                  ELSE "auto"]

WirelessList(r) ==
  LET keys == {WirelessListKey(run) : run \in RadioRuns(r)} IN
  [radio |-> None, ssid |-> None, switch |-> None,
   channel |-> IF "channel" \in keys THEN "live" ELSE IF ~r.auto THEN "configured"
               ELSE "auto"]

\* wireless-cards, tagWireless: a radio with a line under it, or without one while
\* it restarts; an SSID, and its switch, which shows the configuration.
WirelessCardsRadio(r, lines) ==
  IF busy # None \/ spins # None THEN "busy" ELSE IF "channel" \in lines THEN "active"
  ELSE IF r.off THEN "disabled" ELSE "down"
WirelessCardsSsid(r, lines) ==
  IF "changes" \in SsidRuns(r) THEN "pending" ELSE IF r.netOff \/ r.off THEN "disabled"
  ELSE IF "note" \in lines \/ "bssid" \notin lines THEN "down" ELSE "up"
WirelessCards(r) ==
  [radio |-> WirelessCardsRadio(r, {WirelessCardsKey(run) : run \in RadioRuns(r)}),
   ssid |-> WirelessCardsSsid(r, {WirelessCardsKey(run) : run \in SsidRuns(r)}),
   switch |-> IF r.netOff \/ r.off THEN "off" ELSE "on",
   channel |-> IF busy # None THEN None ELSE IF r.on THEN "live"
               ELSE IF ~r.auto THEN "configured" ELSE None]

\* The design that header.ut chose.
Script ==
  CASE page = "interfaces" /\ design = "settings" -> InterfacesSettings(shown)
    [] page = "interfaces" /\ design = "list" -> InterfacesList(shown)
    [] page = "interfaces" /\ design = "cards" -> InterfacesCards(shown)
    [] page = "wireless" /\ design = "settings" -> WirelessSettings(shown)
    [] page = "wireless" /\ design = "list" -> WirelessList(shown)
    [] OTHER -> WirelessCards(shown)
Watches ==
  CASE page = "interfaces" /\ design = "settings" -> InterfacesSettingsWatches
    [] page = "interfaces" /\ design = "list" -> InterfacesListWatches
    [] page = "interfaces" /\ design = "cards" -> InterfacesCardsWatches
    [] page = "wireless" /\ design = "settings" -> WirelessSettingsWatches
    [] page = "wireless" /\ design = "list" -> WirelessListWatches
    [] OTHER -> WirelessCardsWatches

\* fade: a name is marked once.
MarkAgain == ""   \* mutant: marked by every pass
Marked == IF mark = None THEN "" ELSE mark

\* measure: not while it is held, which lasts until its text-indent is zero again.
MarkOnce(w) == IF w \/ mark = "over" THEN "over" ELSE "fit"   \* mutant: once too long, always
MarkFor(w) == IF w THEN "over" ELSE "fit"
MeasuredHeld(w) == IF mark = None THEN None ELSE MarkFor(w)   \* mutant: ... held or not
Measured(w) == IF mark = None \/ held # None THEN mark ELSE MarkFor(w)
Stale(w) == mark # None /\ held # None /\ MarkFor(w) # mark
Rescans(w) == TRUE   \* mutant: the mark is written again, changed or not
Writes(w) == Measured(w) # mark

-----------------------------------------------------------------------------
Init ==
  /\ page \in {"interfaces", "wireless"} /\ design \in {"settings", "list", "cards"}
  /\ net = IF page = "interfaces"
           THEN [state |-> "up", error |-> FALSE, changed |-> FALSE, static |-> TRUE]
           ELSE [off |-> FALSE, netOff |-> FALSE, on |-> TRUE, assoc |-> TRUE,
                 changed |-> FALSE, auto |-> TRUE]
  /\ shown = net /\ spins = None /\ busy = None
  /\ tag = Script /\ queued = FALSE /\ missed = FALSE
  /\ mark = "" /\ seen = FALSE /\ wide \in BOOLEAN /\ held = None /\ stale = FALSE
  /\ scan = TRUE /\ draws = 0 /\ changes = 0

\* The network or the radio changes in one respect; a radio's stations come and go.
Changes ==
  /\ changes < MaxChanges /\ changes' = changes + 1
  /\ \E k \in DOMAIN net :
       /\ net' \in (IF page = "interfaces" THEN Networks ELSE Radios)
       /\ net' # net /\ \A other \in DOMAIN net \ {k, "assoc"} : net'[other] = net[other]
  /\ UNCHANGED <<choice, row, tag, queued, missed, name, scan, draws>>

\* LuCI puts other nodes into the row, the name among them or not.  The script
\* queues a frame, once, and fade.js one of its own.
Redrawn ==
  /\ draws < MaxDraws /\ draws' = draws + 1
  /\ queued' = TRUE /\ missed' = FALSE /\ scan' = TRUE
  /\ \/ UNCHANGED name
     \/ /\ mark' = None /\ seen' = FALSE /\ wide' \in BOOLEAN
        /\ held' = None /\ stale' = FALSE
  /\ UNCHANGED <<choice, net, tag, changes>>

\* The poll.  What is under way has been done by the poll after it.
Draws == shown' = net /\ busy' = None /\ spins' = (IF busy # None THEN None ELSE spins) /\ Redrawn

\* Restart: the button spins and the row says so.
Restart == spins = None /\ spins' = "reconnect" /\ busy' = "reconnect" /\ shown' = shown /\ Redrawn

\* Stop: the button spins, by its class alone, until LuCI knows that the user is not
\* cutting off himself.
Stop ==
  /\ page = "interfaces" /\ spins = None /\ spins' = "disconnect"
  /\ queued' = (queued \/ "class" \in Watches)
  /\ missed' = (missed \/ "class" \notin Watches)
  /\ UNCHANGED <<choice, net, shown, busy, tag, name, scan, bounds>>
Stops ==
  /\ spins = "disconnect" /\ busy = None
  /\ busy' = "disconnect" /\ UNCHANGED <<shown, spins>> /\ Redrawn

\* The frame: tag.  It marks the name, which fade.js sees.
TagFrame ==
  /\ queued /\ queued' = FALSE
  /\ tag' = Script
  /\ mark' = Marked /\ scan' = (scan \/ mark' # mark)
  /\ UNCHANGED <<choice, net, row, missed, seen, wide, held, stale, bounds>>

\* scan: what it writes queues another frame.
ScanFrame ==
  /\ scan
  /\ seen' = (seen \/ mark # None)
  /\ mark' = Measured(wide) /\ scan' = Writes(wide) /\ stale' = Stale(wide)
  /\ UNCHANGED <<choice, net, row, tag, queued, missed, wide, held, bounds>>

\* The window is resized: the name's size is observed once it has been scanned.
Resize ==
  /\ changes < MaxChanges /\ changes' = changes + 1
  /\ wide' = ~wide
  /\ IF seen
     THEN mark' = Measured(wide') /\ scan' = (scan \/ Writes(wide')) /\ stale' = Stale(wide')
     ELSE UNCHANGED <<mark, scan, stale>>
  /\ UNCHANGED <<choice, net, row, tag, queued, missed, seen, held, draws>>

\* The pointer comes onto the name or leaves it; a tap slides it, and slides it back.
Holds(before, after) ==
  /\ held' = (IF held = None THEN after ELSE None) /\ before
  /\ UNCHANGED <<choice, net, row, tag, queued, missed, mark, seen, wide, stale, scan, bounds>>
Hover == Holds(held \in {None, "hover"}, "hover")
Tap == Holds(held = "run" \/ (held = None /\ mark = "over"), "run")

Next ==
  \/ Changes \/ Draws \/ Restart \/ Stop \/ Stops
  \/ TagFrame \/ ScanFrame \/ Resize \/ Hover \/ Tap

Spec == Init /\ [][Next]_vars

\* The browser runs its frames.
FairSpec ==
  /\ Spec
  /\ WF_queued(queued /\ queued' = FALSE)
  /\ WF_vars(ScanFrame)

-----------------------------------------------------------------------------
\* What a network's row is meant to say, in the words the designs have in common.
Meant(n) ==
  IF busy # None \/ (spins # None /\ design # "settings") THEN "busy"
  ELSE IF n.changed THEN "pending" ELSE IF n.error THEN "error"
  ELSE IF n.state = "up" THEN "up" ELSE IF n.state = "disabled" THEN "disabled"
  ELSE IF StopOnly(n) THEN "busy" ELSE "down"
Said(word) ==
  IF word \in {"note", "starting", "restarting", "stopping"} THEN "busy"
  ELSE IF word = "changes" THEN "pending" ELSE IF word = "noboot" THEN "down" ELSE word

NetworkTold(n) ==
  /\ Said(tag.state) = Meant(n)
  /\ tag.word \/ Runs(n) \cap {"em", "uptime", "error", "changes", "info: not on boot"} # {}
  /\ n.static /\ "ipv4" \notin Runs(n) /\ design # "cards" => tag.address
RadioTold(r) ==
  /\ tag.radio # None /\ busy = None /\ ~(r.off /\ r.on)
       => tag.radio = IF r.off THEN "disabled" ELSE IF r.on THEN "active" ELSE "down"
  /\ r.auto /\ r.on /\ ~r.off /\ busy = None => tag.channel = "live"
  /\ ~r.on => tag.channel # "live"
  /\ tag.ssid # None =>
       /\ tag.ssid = "up" => r.assoc /\ ~r.changed /\ tag.switch = "on"
       /\ tag.ssid = "disabled" => tag.switch = "off"
       /\ tag.ssid = "pending" <=> r.changed

\* With no frame to come, a row says of its network or radio what LuCI drew of it,
\* whichever design names it and by whatever runs; the settings and list designs
\* after LuCI's next drawing, where a button alone has changed.
TagTellsTheRow ==
  ~queued /\ ~missed => IF page = "interfaces" THEN NetworkTold(shown) ELSE RadioTold(shown)

\* With no frame to come, a name fades if it is too long, and only then, unless it
\* has changed while it was held.
FadesIfTooLong ==
  ~queued /\ ~scan /\ ~stale => mark = IF wide THEN "over" ELSE "fit"

\* A name that is being read is not touched by a poll that leaves it there, nor by
\* a change of its width.
SlidesUndisturbed ==
  [][mark \notin {None, ""} /\ held # None /\ held' = held => mark' = mark]_vars

\* The frames end: neither script wakes itself for ever by what it writes.
Quiesces == <>[](~queued /\ ~scan)
=============================================================================
