---------------------------- MODULE RowTagsProofs ----------------------------
(* fade.js on a row of any design, through any number of redraws, resizes and    *)
(* taps: which mark a name carries depends on no bound.                          *)
EXTENDS RowTags, Integers, TLAPS

\* What holds between the frames as well: a name the script has not marked yet is
\* about to be, a mark that no frame is to look at has been measured, and its size
\* is observed from then on.
MarkInv ==
  /\ mark \in {None, "", "fit", "over"} /\ wide \in BOOLEAN
  /\ mark = None => queued
  /\ mark # None /\ ~scan => seen /\ (stale \/ mark = MarkFor(wide))

\* Every step but those of the names leaves them, and the frames that are to come.
LEMMA InvStep ==
  ASSUME MarkInv, [Next]_vars
  PROVE  MarkInv'
<1> USE RowTagsAssumption DEF MarkInv
<1>1. CASE UNCHANGED vars
  BY <1>1 DEF vars, choice, row, name, bounds, MarkFor
<1>2. CASE Changes
  BY <1>2 DEF Changes, choice, row, name, MarkFor
<1>3. CASE Draws \/ Restart \/ Stops
  <2>1. Redrawn
    BY <1>3 DEF Draws, Restart, Stops
  <2> QED BY <2>1 DEF Redrawn, name, MarkFor
<1>4. CASE Stop
  BY <1>4 DEF Stop, choice, name, bounds, MarkFor
<1>5. CASE TagFrame
  BY <1>5 DEF TagFrame, Marked, choice, row, bounds, MarkFor
<1>6. CASE ScanFrame
  BY <1>6 DEF ScanFrame, Measured, Writes, Stale, MarkFor, choice, row, bounds
<1>7. CASE Resize
  BY <1>7 DEF Resize, Measured, Writes, Stale, MarkFor, choice, row
<1>8. CASE Hover \/ Tap
  <2>1. UNCHANGED <<queued, mark, seen, wide, stale, scan>>
    BY <1>8 DEF Hover, Tap, Holds
  <2> QED BY <2>1 DEF MarkFor
<1> QED BY <1>1, <1>2, <1>3, <1>4, <1>5, <1>6, <1>7, <1>8 DEF Next

\* A name fades exactly if it is too long, once the frames are through and unless
\* it changed while it was held, however often LuCI draws the row.
THEOREM NameFades == Spec => []FadesIfTooLong
<1>1. Init => MarkInv
  BY RowTagsAssumption DEF Init, MarkInv, MarkFor
<1>2. MarkInv => FadesIfTooLong
  BY DEF MarkInv, FadesIfTooLong, MarkFor
<1> QED BY <1>1, <1>2, InvStep, PTL DEF Spec

\* No step of the system, LuCI or the scripts touches the mark of a name that goes
\* on being held.
THEOREM NameSlides == Spec => SlidesUndisturbed
<1> DEFINE Undisturbed == mark \notin {None, ""} /\ held # None /\ held' = held => mark' = mark
<1>1. [Next]_vars => Undisturbed
  <2> SUFFICES ASSUME [Next]_vars, mark \notin {None, ""}, held # None, held' = held
               PROVE  mark' = mark
    OBVIOUS
  <2>1. CASE UNCHANGED vars \/ Changes
    BY <2>1 DEF vars, Changes, name
  <2>2. CASE Draws \/ Restart \/ Stops
    <3>1. Redrawn
      BY <2>2 DEF Draws, Restart, Stops
    <3> QED BY <3>1 DEF Redrawn, name
  <2>3. CASE Stop \/ Hover \/ Tap
    BY <2>3 DEF Stop, Hover, Tap, Holds, name
  <2>4. CASE TagFrame
    BY <2>4 DEF TagFrame, Marked
  <2>5. CASE ScanFrame \/ Resize
    BY <2>5 DEF ScanFrame, Resize, Measured
  <2> QED BY <2>1, <2>2, <2>3, <2>4, <2>5 DEF Next
<1>2. [Next]_vars => [Undisturbed]_vars
  BY <1>1
<1> QED BY <1>2, PTL DEF Spec, SlidesUndisturbed

-----------------------------------------------------------------------------
(* How many frames are to come at most.                                        *)

\* The row's own, and those it may cause: a name it marks is measured, and what that
\* writes is looked at once more.
FramesLeft ==
  (IF queued THEN 3 ELSE 0)
    + (IF ~scan THEN 0 ELSE IF mark = MarkFor(wide) THEN 1 ELSE 2)

\* Each frame leaves fewer to come than there were, and only what LuCI draws, a button
\* it has spinning and a resize ask for more: neither the pointer, nor what a frame writes.
FramesRunOut ==
  /\ TagFrame \/ ScanFrame => FramesLeft' < FramesLeft
  /\ FramesLeft' > FramesLeft => Draws \/ Restart \/ Stop \/ Stops \/ Resize

LEMMA FramesType == FramesLeft \in 0..5 /\ (FramesLeft = 0 <=> ~queued /\ ~scan)
BY DEF FramesLeft

LEMMA FramesStep == ASSUME MarkInv, [Next]_vars PROVE FramesRunOut
<1>0. FramesLeft \in 0..5 /\ FramesLeft' \in 0..5
  BY DEF FramesLeft
<1>1. ASSUME TagFrame PROVE FramesLeft' < FramesLeft
  <2>1. queued /\ ~queued'
    BY <1>1 DEF TagFrame
  <2>2. FramesLeft >= 3 /\ FramesLeft' <= 2
    BY <2>1 DEF FramesLeft
  <2> QED BY <1>0, <2>2
<1>2. ASSUME ScanFrame PROVE FramesLeft' < FramesLeft
  <2>1. scan /\ queued' = queued /\ wide' = wide
    BY <1>2 DEF ScanFrame
  <2>2. ~scan' \/ (mark # MarkFor(wide) /\ mark' = MarkFor(wide))
    BY <1>2 DEF ScanFrame, Measured, Writes
  <2>3. MarkFor(wide)' = MarkFor(wide)
    BY <2>1 DEF MarkFor
  <2> QED BY <2>1, <2>2, <2>3 DEF FramesLeft
<1>3. ASSUME UNCHANGED <<queued, scan, mark, wide>> PROVE ~(FramesLeft' > FramesLeft)
  <2>1. FramesLeft' = FramesLeft
    BY <1>3 DEF FramesLeft, MarkFor
  <2> QED BY <1>0, <2>1
<1>4. CASE UNCHANGED vars \/ Changes
  BY <1>1, <1>2, <1>3, <1>4 DEF vars, Changes, name, FramesRunOut
<1>5. CASE Hover \/ Tap
  BY <1>1, <1>2, <1>3, <1>5 DEF Hover, Tap, Holds, FramesRunOut
<1>6. CASE TagFrame \/ ScanFrame
  <2>1. FramesLeft' < FramesLeft
    BY <1>1, <1>2, <1>6
  <2>2. ~(FramesLeft' > FramesLeft)
    BY <1>0, <2>1
  <2> QED BY <2>1, <2>2 DEF FramesRunOut
<1>7. CASE Draws \/ Restart \/ Stop \/ Stops \/ Resize
  BY <1>1, <1>2, <1>7 DEF FramesRunOut
<1> QED BY <1>4, <1>5, <1>6, <1>7 DEF Next

\* Neither script wakes itself for ever by what it writes (tag, and fade's scan): at
\* most five frames follow whatever LuCI draws, and none is left only when none is to
\* come.  With frames that run, that is Quiesces.
THEOREM FramesEnd ==
  Spec => /\ [](FramesLeft \in 0..5 /\ (FramesLeft = 0 <=> ~queued /\ ~scan))
          /\ [][FramesRunOut]_vars
<1>1. Init => MarkInv
  BY RowTagsAssumption DEF Init, MarkInv, MarkFor
<1>2. MarkInv /\ [Next]_vars => [FramesRunOut]_vars
  BY FramesStep
<1> QED BY <1>1, <1>2, FramesType, InvStep, PTL DEF Spec

-----------------------------------------------------------------------------
(* What a row says of its network or radio.                                    *)

\* The runs LuCI draws of a network that nothing is under way with.
LEMMA RunsOf ==
  ASSUME busy = None, NEW n \in Networks
  PROVE  /\ "uptime" \in Runs(n) <=> n.state = "up" /\ ~n.changed
         /\ "ipv4" \in Runs(n) <=> n.state = "up" /\ ~n.changed
         /\ "error" \in Runs(n) <=> n.error
         /\ "info: disabled" \in Runs(n) <=> n.state = "disabled"
         /\ "info: not on boot" \in Runs(n) <=> n.state = "noboot"
         /\ "changes" \in Runs(n) <=> n.changed
         /\ "em" \notin Runs(n)
BY DEF Runs

LEMMA RunsBusy == ASSUME busy # None, NEW n PROVE Runs(n) = {"em"}
BY DEF Runs

RowInv ==
  /\ page \in {"interfaces", "wireless"} /\ design \in {"settings", "list", "cards"}
  /\ net \in (IF page = "interfaces" THEN Networks ELSE Radios)
  /\ shown \in (IF page = "interfaces" THEN Networks ELSE Radios)
  /\ spins \in {None, "reconnect", "disconnect"} /\ busy \in {None, "reconnect", "disconnect"}
  /\ page = "wireless" /\ busy = None => spins = None

\* The three designs of a network's row.
LEMMA InterfacesSettingsTells ==
  ASSUME RowInv, NEW n \in Networks, tag = InterfacesSettings(n), design = "settings"
  PROVE  NetworkTold(n)
<1> DEFINE found == {InterfacesSettingsKey(run) : run \in Runs(n)}
           state == InterfacesSettingsState(n, found)
<1>0. StopOnly(n) = (n.state = "starting" /\ spins = None)
  BY DEF StopOnly
<1>1. /\ tag.state = state /\ tag.word = (state \in {"disabled", "starting", "down"})
      /\ tag.address = n.static
  BY DEF InterfacesSettings
<1>2. state = IF busy # None THEN "note" ELSE IF "changes" \in Runs(n) THEN "changes"
              ELSE IF "error" \in found THEN "error" ELSE IF "uptime" \in found THEN "up"
              ELSE IF "disabled" \in found THEN "disabled" ELSE IF "noboot" \in found THEN "noboot"
              ELSE IF StopOnly(n) THEN "starting" ELSE "down"
  BY <1>0 DEF InterfacesSettingsState
<1>3. CASE busy # None
  BY <1>1, <1>2, <1>3, RunsBusy DEF NetworkTold, Meant, Said
<1>4. CASE busy = None
  <2>1. /\ "error" \in found <=> n.error
        /\ "uptime" \in found <=> n.state = "up" /\ ~n.changed
        /\ "disabled" \in found <=> n.state = "disabled"
        /\ "noboot" \in found <=> n.state = "noboot"
    BY <1>4 DEF InterfacesSettingsKey, Runs
  <2>2. state = IF n.changed THEN "changes" ELSE IF n.error THEN "error"
                ELSE IF n.state = "up" THEN "up" ELSE IF n.state = "disabled" THEN "disabled"
                ELSE IF n.state = "noboot" THEN "noboot"
                ELSE IF StopOnly(n) THEN "starting" ELSE "down"
    BY <1>2, <1>4, <2>1, RunsOf
  <2> HIDE DEF found, state
  <2>3. Said(state) = Meant(n)
    BY <1>0, <1>4, <2>2 DEF Meant, Said
  <2>4. tag.word \/ Runs(n) \cap {"em", "uptime", "error", "changes", "info: not on boot"} # {}
    BY <1>1, <1>4, <2>2, RunsOf
  <2> QED BY <1>1, <2>3, <2>4 DEF NetworkTold
<1> QED BY <1>3, <1>4

LEMMA InterfacesListTells ==
  ASSUME RowInv, NEW n \in Networks, tag = InterfacesList(n), design = "list"
  PROVE  NetworkTold(n)
<1> DEFINE found == {InterfacesListKey(run) : run \in Runs(n)}
           state == InterfacesListState(n, found)
           said == found \cap {"uptime", "error", "noboot", "note"} # {}
<1>0. /\ StopOnly(n) = (n.state = "starting" /\ spins = None)
      /\ found = {InterfacesSettingsKey(run) : run \in Runs(n)}
  BY DEF StopOnly, InterfacesListKey
<1>1. /\ tag.state = state /\ tag.word = (~said /\ state \in {"down", "busy", "disabled"})
      /\ tag.address = (n.static /\ "ipv4" \notin found)
  BY DEF InterfacesList
<1>2. state = IF busy # None \/ spins # None THEN "busy" ELSE IF "changes" \in Runs(n) THEN "pending"
              ELSE IF "error" \in found THEN "error" ELSE IF "uptime" \in found THEN "up"
              ELSE IF "disabled" \in found THEN "disabled" ELSE IF StopOnly(n) THEN "busy" ELSE "down"
  BY <1>0 DEF InterfacesListState
<1>5. "ipv4" \in found <=> "ipv4" \in Runs(n)
  BY <1>0 DEF InterfacesSettingsKey, Runs
<1>3. CASE busy # None
  BY <1>1, <1>2, <1>3, <1>5, RunsBusy DEF NetworkTold, Meant, Said
<1>4. CASE busy = None
  <2>1. /\ "error" \in found <=> n.error
        /\ "uptime" \in found <=> n.state = "up" /\ ~n.changed
        /\ "disabled" \in found <=> n.state = "disabled"
        /\ "noboot" \in found <=> n.state = "noboot"
        /\ "note" \in found <=> n.changed
    BY <1>0, <1>4 DEF InterfacesSettingsKey, Runs
  <2>2. state = IF spins # None THEN "busy" ELSE IF n.changed THEN "pending"
                ELSE IF n.error THEN "error" ELSE IF n.state = "up" THEN "up"
                ELSE IF n.state = "disabled" THEN "disabled"
                ELSE IF StopOnly(n) THEN "busy" ELSE "down"
    BY <1>2, <1>4, <2>1, RunsOf
  <2>3. said <=> (n.error \/ (n.state = "up" /\ ~n.changed) \/ n.state = "noboot" \/ n.changed)
    BY <2>1
  <2> HIDE DEF found, state, said
  <2>4. Said(state) = Meant(n)
    BY <1>0, <1>4, <2>2 DEF Meant, Said
  <2>5. tag.word \/ Runs(n) \cap {"em", "uptime", "error", "changes", "info: not on boot"} # {}
    <3>1. n.state \in {"up", "down", "starting", "disabled", "noboot"}
      BY DEF Networks
    <3> QED BY <1>1, <1>4, <2>2, <2>3, <3>1, RunsOf
  <2> QED BY <1>1, <1>5, <2>4, <2>5 DEF NetworkTold
<1> QED BY <1>3, <1>4

LEMMA InterfacesCardsTells ==
  ASSUME RowInv, NEW n \in Networks, tag = InterfacesCards(n), design = "cards"
  PROVE  NetworkTold(n)
<1> DEFINE lines == {InterfacesCardsKey(run) : run \in Runs(n)}
           state == InterfacesCardsState(n, lines)
<1>0. StopOnly(n) = (n.state = "starting" /\ spins = None)
  BY DEF StopOnly
<1>1. tag.state = state /\ tag.word = TRUE
  BY DEF InterfacesCards
<1>2. state = IF busy = "reconnect" \/ spins = "reconnect" THEN "restarting"
              ELSE IF busy = "disconnect" \/ spins = "disconnect" THEN "stopping"
              ELSE IF "note" \in lines THEN "pending" ELSE IF "error" \in lines THEN "error"
              ELSE IF "uptime" \in lines THEN "up" ELSE IF "info: disabled" \in Runs(n) THEN "disabled"
              ELSE IF StopOnly(n) THEN "starting" ELSE "down"
  BY <1>0 DEF InterfacesCardsState
<1>3. CASE busy # None \/ spins # None
  <2>1. state \in {"restarting", "stopping"}
    BY <1>2, <1>3 DEF RowInv
  <2> QED BY <1>1, <1>3, <2>1 DEF NetworkTold, Meant, Said
<1>4. CASE busy = None /\ spins = None
  <2>1. /\ "error" \in lines <=> n.error
        /\ "uptime" \in lines <=> n.state = "up" /\ ~n.changed
        /\ "note" \in lines <=> n.changed
    BY <1>4, RowTagsAssumption DEF InterfacesCardsKey, Runs
  <2>2. state = IF n.changed THEN "pending" ELSE IF n.error THEN "error"
                ELSE IF n.state = "up" THEN "up" ELSE IF n.state = "disabled" THEN "disabled"
                ELSE IF StopOnly(n) THEN "starting" ELSE "down"
    <3>1. busy \notin {"reconnect", "disconnect"} /\ spins \notin {"reconnect", "disconnect"}
      BY <1>4, RowTagsAssumption
    <3> QED BY <1>2, <1>4, <2>1, <3>1, RunsOf
  <2> HIDE DEF lines, state
  <2>3. Said(state) = Meant(n)
    BY <1>0, <1>4, <2>2 DEF Meant, Said
  <2> QED BY <1>1, <2>3 DEF NetworkTold
<1> QED BY <1>3, <1>4

\* ... and of a radio's.
LEMMA WirelessSettingsTells ==
  ASSUME RowInv, NEW r \in Radios, tag = WirelessSettings(r)
  PROVE  RadioTold(r)
<1> DEFINE items == {WirelessSettingsKey(run) : run \in RadioRuns(r)}
           state == IF r.off THEN "disabled"
                    ELSE IF items \cap {"channel", "bitrate"} # {} THEN "active"
                    ELSE IF "inactive" \in items THEN "down" ELSE None
           channel == IF ~r.auto THEN "configured" ELSE IF state = "active" THEN "live" ELSE "auto"
<1>1. tag.radio = state /\ tag.ssid = None /\ tag.channel = channel
  BY DEF WirelessSettings
<1>2. /\ "channel" \in items <=> busy = None /\ r.on
      /\ "bitrate" \in items <=> busy = None /\ r.on
      /\ "inactive" \in items <=> busy = None /\ ~r.on
  BY DEF WirelessSettingsKey, RadioRuns
<1>3. state = IF r.off THEN "disabled" ELSE IF busy # None THEN None
              ELSE IF r.on THEN "active" ELSE "down"
  BY <1>2
<1>4. None # "active"
  BY RowTagsAssumption
<1> HIDE DEF items, state
<1> QED BY <1>1, <1>3, <1>4 DEF RadioTold

LEMMA WirelessListTells ==
  ASSUME RowInv, NEW r \in Radios, tag = WirelessList(r)
  PROVE  RadioTold(r)
<1> DEFINE keys == {WirelessListKey(run) : run \in RadioRuns(r)}
<1>1. /\ tag.radio = None /\ tag.ssid = None
      /\ tag.channel = IF "channel" \in keys THEN "live" ELSE IF ~r.auto THEN "configured" ELSE "auto"
  BY DEF WirelessList
<1>2. "channel" \in keys <=> busy = None /\ r.on
  BY DEF WirelessListKey, RadioRuns
<1> HIDE DEF keys
<1> QED BY <1>1, <1>2 DEF RadioTold

LEMMA WirelessCardsTells ==
  ASSUME RowInv, page = "wireless", NEW r \in Radios, tag = WirelessCards(r)
  PROVE  RadioTold(r)
<1> DEFINE radioLines == {WirelessCardsKey(run) : run \in RadioRuns(r)}
           ssidLines == {WirelessCardsKey(run) : run \in SsidRuns(r)}
           radio == WirelessCardsRadio(r, radioLines)
           ssid == WirelessCardsSsid(r, ssidLines)
<1>0. None \notin {"channel", "live", "bssid", "note"} /\ (r.assoc => r.on)
  BY RowTagsAssumption DEF Radios
<1>1. /\ tag.radio = radio /\ tag.ssid = ssid
      /\ tag.switch = IF r.netOff \/ r.off THEN "off" ELSE "on"
      /\ tag.channel = IF busy # None THEN None ELSE IF r.on THEN "live"
                       ELSE IF ~r.auto THEN "configured" ELSE None
  BY DEF WirelessCards
<1>2. "channel" \in radioLines <=> busy = None /\ r.on
  BY <1>0 DEF WirelessCardsKey, RadioRuns
<1>3. /\ "changes" \in SsidRuns(r) <=> r.changed
      /\ "note" \in ssidLines <=> r.changed \/ ~r.assoc
      /\ "bssid" \in ssidLines <=> ~r.changed /\ r.assoc
  BY <1>0 DEF WirelessCardsKey, SsidRuns
<1>4. radio = IF busy # None \/ spins # None THEN "busy"
              ELSE IF r.on THEN "active" ELSE IF r.off THEN "disabled" ELSE "down"
  BY <1>2 DEF WirelessCardsRadio
<1>5. ssid = IF r.changed THEN "pending" ELSE IF r.netOff \/ r.off THEN "disabled"
             ELSE IF ~r.assoc THEN "down" ELSE "up"
  BY <1>3 DEF WirelessCardsSsid
<1>6. busy = None => spins = None
  BY DEF RowInv
<1> HIDE DEF radioLines, ssidLines, radio, ssid
<1> QED BY <1>0, <1>1, <1>4, <1>5, <1>6 DEF RadioTold

-----------------------------------------------------------------------------
\* Once the frames are through, what is written on the row is what the script makes
\* of it now, unless LuCI turned a button's class alone and the script watches for
\* nodes.
TagInv ==
  /\ RowInv
  /\ ~queued /\ ~missed => tag = Script

LEMMA ScriptStays ==
  ASSUME UNCHANGED <<choice, row>>
  PROVE  Script' = Script
BY DEF choice, row, Script, InterfacesSettings, InterfacesSettingsState, InterfacesSettingsKey,
            InterfacesList, InterfacesListState, InterfacesListKey, InterfacesCards,
            InterfacesCardsState, InterfacesCardsKey, WirelessSettings, WirelessSettingsKey,
            WirelessList, WirelessListKey, WirelessCards, WirelessCardsRadio, WirelessCardsSsid,
            WirelessCardsKey, Runs, RadioRuns, SsidRuns, StopOnly

LEMMA RowStep ==
  ASSUME RowInv, [Next]_vars
  PROVE  RowInv'
<1> USE RowTagsAssumption DEF RowInv
<1>1. CASE UNCHANGED vars \/ TagFrame \/ ScanFrame \/ Resize \/ Hover \/ Tap
  <2>1. UNCHANGED <<choice, net, row>>
    BY <1>1 DEF vars, TagFrame, ScanFrame, Resize, Hover, Tap, Holds
  <2> QED BY <2>1 DEF choice, row
<1>2. CASE Changes
  <2>1. UNCHANGED <<page, design, shown, spins, busy>>
        /\ net' \in (IF page = "interfaces" THEN Networks ELSE Radios)
    BY <1>2 DEF Changes, choice, row
  <2> QED BY <2>1
<1>3. CASE Draws
  <2>1. UNCHANGED <<page, design, net>>
    BY <1>3 DEF Draws, Redrawn, choice
  <2>2. shown' = net /\ busy' = None /\ spins' = (IF busy # None THEN None ELSE spins)
    BY <1>3 DEF Draws
  <2> QED BY <2>1, <2>2
<1>4. CASE Restart
  BY <1>4 DEF Restart, Redrawn, choice
<1>5. CASE Stop
  BY <1>5 DEF Stop, choice
<1>6. CASE Stops
  BY <1>6 DEF Stops, Redrawn, choice
<1> QED BY <1>1, <1>2, <1>3, <1>4, <1>5, <1>6 DEF Next

\* Every design says what LuCI drew, however often it draws and the user presses.
THEOREM RowIsTold == Spec => []TagTellsTheRow
<1>1. Init => TagInv
  <2> SUFFICES ASSUME Init PROVE TagInv
    OBVIOUS
  <2>1. RowInv
    BY DEF Init, RowInv, Networks, Radios
  <2> QED BY <2>1 DEF Init, TagInv
<1>2. TagInv /\ [Next]_vars => TagInv'
  <2> SUFFICES ASSUME TagInv, [Next]_vars PROVE TagInv'
    OBVIOUS
  <2>1. RowInv'
    BY RowStep DEF TagInv
  <2>2. ~queued' /\ ~missed' => tag' = Script'
    <3>1. CASE UNCHANGED vars \/ Changes \/ ScanFrame \/ Resize \/ Hover \/ Tap
      <4>1. UNCHANGED <<choice, row, tag, queued, missed>>
        BY <3>1 DEF vars, Changes, ScanFrame, Resize, Hover, Tap, Holds
      <4>2. Script' = Script
        BY <4>1, ScriptStays
      <4> QED BY <4>1, <4>2 DEF TagInv
    <3>2. CASE Draws \/ Restart \/ Stops
      BY <3>2 DEF Draws, Restart, Stops, Redrawn
    <3>3. CASE Stop
      BY <3>3 DEF Stop
    <3>4. CASE TagFrame
      <4>1. tag' = Script /\ UNCHANGED <<choice, row>>
        BY <3>4 DEF TagFrame
      <4>2. Script' = Script
        BY <4>1, ScriptStays
      <4> QED BY <4>1, <4>2
    <3> QED BY <3>1, <3>2, <3>3, <3>4 DEF Next
  <2> QED BY <2>1, <2>2 DEF TagInv
<1>3. TagInv => TagTellsTheRow
  <2> SUFFICES ASSUME RowInv, tag = Script
               PROVE  IF page = "interfaces" THEN NetworkTold(shown) ELSE RadioTold(shown)
    BY DEF TagInv, TagTellsTheRow
  <2>1. CASE page = "interfaces"
    <3>1. shown \in Networks
      BY <2>1 DEF RowInv
    <3>2. /\ design = "settings" => tag = InterfacesSettings(shown)
          /\ design = "list" => tag = InterfacesList(shown)
          /\ design = "cards" => tag = InterfacesCards(shown)
      BY <2>1 DEF Script
    <3> QED BY <2>1, <3>1, <3>2, InterfacesSettingsTells, InterfacesListTells, InterfacesCardsTells
            DEF RowInv
  <2>2. CASE page = "wireless"
    <3>1. shown \in Radios
      BY <2>2 DEF RowInv
    <3>2. /\ design = "settings" => tag = WirelessSettings(shown)
          /\ design = "list" => tag = WirelessList(shown)
          /\ design = "cards" => tag = WirelessCards(shown)
      BY <2>2 DEF Script
    <3> QED BY <2>2, <3>1, <3>2, WirelessSettingsTells, WirelessListTells, WirelessCardsTells
            DEF RowInv
  <2> QED BY <2>1, <2>2 DEF RowInv
<1> QED BY <1>1, <1>2, <1>3, PTL DEF Spec
=============================================================================
