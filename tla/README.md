# openUF: models, checks and proofs

openUF makes an OpenWrt access point speak UniFi's inform protocol: a Lua daemon
reports to a controller every few seconds, takes the configuration it answers with and
writes it into OpenWrt's own files. With it comes a LuCI theme in the style of the
controller's own pages: scripts that redraw LuCI's tables and logs, and pages of their own for
the ports and the VLANs of the router. This directory holds TLA+ models of the parts of both
that are hard to test — the ones where a step comes between two others, a process dies
half-way, an answer is lost or late, or something has to happen in the end — the TLC runs that
check them on small instances, and TLAPS proofs of what holds for every instance.

Source paths below are relative to the repository; `inform.lua`, `state.lua` and
`hook/`, `openwrt/`, `unifi/` are under `openuf/src/`; `menu-openuf.js` and the scripts named
without a path are under `luci-theme-openuf/htdocs/luci-static/resources/`, most of them in
`view/openuf-theme/`.

## 1. The system

### Processes and what they share

| Process | Code | Shares |
|---|---|---|
| inform daemon, one loop, no threads | `inform.lua`, `openwrt/*.lua`, `unifi/*.lua` | `/etc/openuf/state.json`, `/etc/config/*`, the two copies of `/etc/config/network` |
| `syswrapper.sh` commands, run by the controller or the owner over SSH | `hook/syswrapper.lua` | `state.json`: loaded whole, changed, saved whole, no lock |
| announce daemon (UDP 10001), DAS listener | `announce.lua`, `openwrt/das.lua` | read `state.json` |
| collector of hostapd's events and the bridge's moves | `openwrt/staphase.uc` and a shell child | `/tmp/openuf-roam.log`, `/tmp/openuf-fdb.log` |
| hostapd, netifd, usteer, nft | external | ubus, UCI files, nft tables |
| procd | `openuf/files/openuf.init` | restarts a daemon that died |
| the controller | external | answers informs, opens SSH once, at an adoption |
| a browser with LuCI and the theme | `luci-theme-openuf` | the rpcd session, through which it reads the system and stages UCI changes; the page's own document, which LuCI redraws |

One heartbeat of the daemon (`_tick`): reload `state.json` if another process wrote it;
build a payload from the system; compare the clients
with what is known of them and read the collector's logs; POST; on any failure judge an open rollback window and
return; otherwise judge the window as confirmed, then hand the answer to `provision.handle`,
which applies the configuration step by step and saves at its end; then send the queued
event informs, whose answers are handled the same way. Between heartbeats the daemon waits,
looks at the collector's logs four times a second (and sends what it reports as event informs
at once) and listens for a STUN wake-up.

The theme runs one script at a time, between the browser's events. What is concurrent there is
what is asynchronous: a poll LuCI makes every five seconds, calls to rpcd that answer later or
fail, redraws of the document seen by observers, and frames in which the scripts do their work
— with a user who clicks in between. The scripts own no row they decorate: LuCI draws it again
at will.

### Components, their state and what makes them correct

| Component | State and operations | Hard behaviour | Correct when | Module |
|---|---|---|---|---|
| Network safety net (`openwrt/netmodel.lua`) | network file, running network, rollback and pristine copies, `netmodel_*` and `static_*` fields; converge, apply_addressing, check, on_start, restore_pristine | crash between commit and save; commit, write-back or save failing; second change inside a window; commands in between | a network nobody answered over can always be left again, and is | `NetModel`, `TrialNetwork` |
| Settlement of pushes (`_settle_cfgversion`, end of setparam) | `cfgversion`, `cfgversion_effective`, `cfg_retry`, `effective_before` | handlers that raise, lost answers, a rollback minutes later, the controller's ten-minute dedupe | what is reported was handled to its end; what is claimed applied; pushes stop | `ConfigPush` |
| Adoption state (`state.lua`, `hook/syswrapper.lua`, setparam/setdefault) | `adopted`, `authkey`, `inform_url`, two copies; SSH account; what a controller set up | lost updates between processes, crash inside a factory reset, full overlay | the last command wins; the key arrives; a forgotten device is bare | `Adoption` |
| Roam reports (`unifi/staevents.lua`) | `_here`, `_roamed`, the collector's ring, read position | two logs and a station list, each of another moment | departures reported happened, and happened ones are reported | `Roaming` |
| Event queues and delivery (`staevents.lua`, `_send_sta_events`) | `_queue` (200), `_roam_queue`, `_held` | lost POSTs, held successes, caps | each event at most once per success, roam reports first | planned |
| Inform cadence (`inform.lua`, `unifi/wire.lua`, `http.lua`) | interval, backoff, quick-scan and STUN wake-ups | failures, re-inform after a push | never silent, never hammering | planned |
| Roaming Assistant, Minimum RSSI, usteer (`openwrt/roamassist.lua`, `minrssi.lua`, `usteer.lua`) | per-client timers, pending causes, exemptions | a client that answers late or comes back | no client is pushed twice inside a cooldown; causes are attributed once | planned |
| Siblings, Lock to AP (`openwrt/siblings.lua`, `lockap.lua`) | sibling table, locks, exemptions | stale entries, lost broadcasts | a lock nobody holds expires | planned |
| Guest network (`unifi/guest.lua`, `openwrt/guestguard.lua`, `guestportal.lua`) | authorized clients, VAPs taken down while the controller is away | reload against hostapd's restart | an authorization outlives neither its expiry nor a reload wrongly | planned |
| Blocked clients, hardening (`openwrt/firewall.lua`, `l2guard.lua`, ...) | block list, rules re-applied | hostapd restarts lose their ACL | a blocked client stays blocked | planned |
| Port VLANs (`openwrt/switchvlan.lua`, `unifi/ports.lua`) | ledger of what was taken from br-lan | partial apply, forget | forget puts back what was taken | planned |
| Network planner (`unifi/network.lua`, `openwrt/netconfig.lua`) | pure: a push becomes bridges, VLANs and interfaces | overlapping and missing networks | the uplink keeps a management path, no port in two places | planned, as functions |
| WiFi configuration (`openwrt/ucihelper.lua`, `unifi/wlan.lua`, ...) | `openuf_` sections, `openuf_autodisabled` stamps | exclusive mode switched on and off, forget | the owner's own sections come back | planned |
| Scans (`openwrt/rrmscan.lua`, `idlescan.lua`) | scan requests and results | answer after the request's end | each request is answered once | planned |
| WLAN schedule, wireless uplink, shaping, LEDs, SNMP/cron/time, STUN, unhandled ledger, upgrade | small state of their own each | reload order, ownership stamps, bounded ledgers | what openUF changed, and only that, is put back | planned |
| Switch / VLAN page (`switch-vlan.js`, `bridgevlan.js`) | LuCI's copy of two packages with pending edits, the selection, three views of the VLANs, a chain of stashes | edits while a save is in flight, calls that fail, a stale view | what is staged is the table that is shown, and one the page can open | `SwitchVlan`, `VlanTable` |
| Log pages (`logs.js`) | rows in chunks, counts, levels read apart, mode | a log that grows, loses its oldest, is filtered and reversed while a frame and a read are out | the rows are the log; nothing is built twice or left unasked for | `LogView` |
| Row designs (`network/*.js`, `fade.js`) | attributes on LuCI's rows and names, frames queued | redraws by nodes and by a class alone; scripts that see their own writes | a row says what LuCI drew; frames end | `RowTags` |
| Port Manager (`ports.js`, `renderPorts` in `menu-openuf.js`) | the card, its tip, the focus, the open list | polls answered in part, under the pointer; five ways from a network to a port | a port is shown as what it carries on the wire; a poll keeps what the user holds | `PortMap`, `PortPanel` |
| Packet format, crypto, payload, catalogue, reporting | none, or caches | — | functions of their input; byte vectors in `openuf/tests` | not modelled |
| Discovery, DAS, LLDP, SSH shell, packaging | none of the protocol's | — | — | not modelled |
| LuCI application, theme settings, dashboard, menu | a form's values | — | — | not modelled |

`PROJECT.json` lists each with its files, and under `hazards` every place where the code is
exposed to such behaviour, at its line, with the properties that would catch it.

## 2. The plan

1. **NetModel** (with **TrialNetwork**, what it promises, and **NetModelProofs**): a mistake
   here costs the owner a walk to the access point. *Done.*
2. **ConfigPush**: the second thing every push touches; composes with NetModel by its network
   part. *Done.*
3. **Adoption**: the file two processes share. *Done.*
4. **Roaming**: two event sources against one list. *Done, without the queues.*
5. **VlanTable** and **SwitchVlan**: the page that edits the network the router is reached
   over. *Done.*
6. **LogView**, **RowTags**, **PortMap** and **PortPanel**: the theme's scripts that live beside
   LuCI's own redraws. *Done, but for PoE, the modal of one port and the station tables.*
7. **EventQueue**: `observe`, `_held`, the two queues and `_send_sta_events`; bounds of 200
   and 8; composed with Roaming's reports.
8. **RoamAssist**: `tick` and `departure_cause`, timers as ages; composed with Roaming, which
   asks it for the cause of a departure.
9. **Cadence**: interval, backoff and wake-ups of the loop; liveness of the heartbeat.
10. **GuestSelfrun** and **BlockList**: what is re-applied after hostapd restarts.
11. **PortLedger** and **WlanLedger**: apply and forget as inverse operations.
12. **NetPlan**: `network.lua`'s planner as functions over small topologies, against a
    reference definition of a plan that keeps its management path.
13. **Siblings**: lock exchange and expiry between two access points.

Abstract specifications worth stating: TrialNetwork and VlanTable (done); a "report log" that Roaming and
EventQueue together refine (what happened, in order, each at most once); a "last writer"
register that Adoption refines when commands keep to their window.

Theorems worth proving next: the safety half of `WindowCloses`, that a tick over an expired window
ends it; with EventQueue, that its log refines Roaming's.

## 3. The modules

Every module keeps the control of the code it stands for: its guards, early returns, the order
of its writes, and a step boundary wherever another process, a crash or a failure can get in
between. Data is abstracted to names.

### NetModel — `openwrt/netmodel.lua`, its callers in `provision.lua` and `inform.lua`

State. `netfile` and `live` are `/etc/config/network` and what netifd runs; `rollback` and
`pristine` the two copies in `/etc/openuf`; `disk` and `mem` the record of `state.json` and of the
daemon's table (`netmodel_pending` with its age, `netmodel_applied`, `netmodel_failed`, the
`static_*` fields as one name); `changed` what `_reload_if_changed` finds out. A network is
named by the fingerprint of the change that wrote it. `pc` is where the daemon is; `sw` another
process between its load and its save; `sent` counts the event informs since the last heartbeat, and
is `AtStart` before a daemon's first. `proven`, `lost`, `owed` and `amiss` are history: the networks over which an
inform was answered, the change rolled back last, and what is left of a failing overlay.

What fails. `state.save` may raise wherever the code calls it (`Failing` with "save"): the save of an opened
window (`SaveApplied`; the pcall around `handle_response` swallows it), of a confirmed or rolled-back one
(`SaveConfirmed`, `SaveRolledBack`; `_loop_once` ends the tick), the one at the end of a push (`EndResponse`), a
command's own, and the one after the re-apply of a static address at a start, which the daemon dies of
(`DieUnsaved`). The daemon then goes on with a record that it alone knows: `owed`, until a save works. A file
may come out short, because `_write_file` looks neither at the write nor at the close ("copy"): `Put` may put `Torn`
where a copy or the network was to be, and the code takes it for written. `amiss` says that the net is broken:
the daemon forgot a record while its save was owed, by dying (`Forget`) or by loading what a command wrote
(`StartTick`), or a file is `Torn`, or netmodel-restore did not write what it meant to.

| Actions | Code |
|---|---|
| StartTick, Answer, SaveConfirmed, NoAnswer | `_tick` up to the POST; `check(true)`; the save of `_netmodel_check` |
| WriteBack, WriteBackFails, NothingToRestore, DropCopy, ReloadRestored, SaveRolledBack | `check(false)` on an expired window, one step per write |
| NoNetwork, Refuse, AlreadyThere, KeepCopy, Commit, CommitFails, Reload, SaveApplied | the network part of a setparam: `converge` for a plan, `apply_addressing` for an address or a lease |
| EndResponse, EventAnswer | the end of a response; the informs of `_send_sta_events` |
| Crash, Reboot, DieUnsaved, Start, NothingToReapply, ReapplyStatic | death of the daemon or the board; `run`, `on_start`, `_reapply_static_ip` |
| Run, Load, Store | `syswrapper.sh` netmodel-retry, netmodel-restore, reset-inform, and ("touch") any command that only carries the fields along |
| Clock | uptime |

Abstractions. The window's `since` is kept as its age; a reboot subtracts the old uptime, so that
an age may be negative, as in the code. The save at the end of a response is a choice, because
answers without a configuration and handlers that raise do not save; that over-approximates. The
list of parked sections and the `removed` list of a takeover ride inside the network's name.
A file of a fresh install, which the first save creates, is the empty record.

### TrialNetwork — the promise

Four variables: the network that runs, whether it is on trial, the networks known to work, and whether
the promise is void. One may leave a known network for any other as a trial; an answer makes a network known; the way back
goes to a known one; a network that is not known does not stay (fairness); and a device that loses the record or the copy
a trial stands on (`Lose`) has nothing promised any more. `NetModel`
instantiates it as `Trial` with `net <- live`, `known <- proven`, `void <- amiss` and `trial <- ` the record that
counts — the daemon's while it runs, the file's while it does not. A save that merely raised voids nothing. `KeepsThePromise` is
`Trial!FairSpec`.

### ConfigPush — `_settle_cfgversion`, the setparam handler, `_netmodel_check`

State: the controller's version and what it pushed in the last ten minutes; `cfgversion`,
`cfgversion_effective`, `cfg_retry`; the network in place, its window with the `effective_before`
to go back to, and the network that failed. A version asks for a network, or for none, and may
be one of which a step always fails or always raises. `Push` is the whole handler: network part,
the other steps' verdict, settlement or a cut in the middle; with `StaEvents` it may also come in the
answer to an event inform, which judges no window. History: the clean pushes in their order (`clean`), the places of
those whose network was rolled back (`gone`), how many there were when the open window opened
(`opened`); the versions whose push ran to its end; how often the controller pushed since this
version was asked for.

### Adoption — `state.lua`, `hook/syswrapper.lua`, setparam, setdefault, `run`

State: `state.json` as a text with its writer, the daemon's table, `last_mtime` and
`last_written` (both texts in the code, whatever the names say), the controller's record of the
device, what the controller set up (`wlans`), the account's lock. A factory reset is three steps
(save, put the URL back and save, forget what was set up) because the code saves twice. A command
is one step: its load and save are adjacent, and the runs let it happen between the daemon's
steps they name. `wish` is what commands and answers, in their order, asked for; `home` the URL
a device was forgotten at.

### Roaming — `unifi/staevents.lua`, `openwrt/staphase.uc`, `_roam_poll`, `_tick`

The world is in it: where each client is, what hostapd lists, which address the bridge is about to
learn. Its lines are two sequences: `kept`, hostapd's lines up to `_roam_seq`, which the daemon has
read, and `log`, what it has not, of both files merged by uptime. A new hostapd line pushes the
oldest one out of the ring, read or not (`Announce`, `PushedOut`); the bridge's lines are in a file
of their own that the reader takes away. `OnAssoc`, `OnAuthorized`, `OnDisassoc` and
`OnUplink` are the four branches of `roam_ingest`; `Ingested` folds them over lines, and `Poll` is
`_roam_poll` over what is unread. A heartbeat is two steps, with the rest of the payload in between: `Build` reads the
stations, `Observe` is `roam_observe` and then a poll, both before the POST. A dump says of a listed client whether a
frame of it came in since its address moved, which is all that `roamed_away` computes from
`inactive_ms`. Signals are assumed known (a report without one is not sent), every BSS has its
`vap`, and the queue behind the reports is left to a module of its own.

### SwitchVlan and VlanTable — `switch-vlan.js`, `bridgevlan.js`

`VlanTable` is what the page promises: a table of VLANs with a role for every port, and one step
for every click. `SwitchVlan` is the page. Its state is what LuCI and rpcd keep for it — `session`,
the sections as staged, and LuCI's copy with the pending edits of each (`loaded`, `edit`, `crt`,
`lab`; a section is named by the number that tells its place, and `Last` is the last one) — and what is
its own: `vlans`, the `rows` in the document, the selection, the open dialog.
The chain of stashes is `queue`, `phase` (saving, loading, counting) with what a save `sent` and which
package is `flying`. User actions are the click handlers with everything they call (`Assign` is
`handleAssignToggleClick` with the conflicts it looks for and the rows it writes); `Stash`,
`SaveAnswered`, `LoadAnswered`, `Counted`, `StashFails` are the steps of `stashNetworkChanges`.
`want` is history: the table the user asked for. A port's entry is one of the eight flags
`parsePortSpec` tells apart, a label is there or not. How LuCI's `uci.js` takes an edit, sends it and
forgets a package is external, as the page relies on it.

### LogView — `logs.js`

`ring` is the system's log, `value` the text LuCI has written, in either order and with some lines
filtered out; `on`, `mode`, `want` the view; `chunks` the rows built of it. `Frame` is `update` whole:
the walk of `sync` over rows and lines (`Walked`, `Keeps`, `FirstAt`), the chunks put right
(`Settled`), the counts. `ReadAnswered` and `ReadFails` end the read of the kernel log's levels that
is in flight. A row is its line, its severity, whether its level was asked for. A line is a name with
a level; how a line is split and coloured is left out. `built` counts the rows the last frame built.

### RowTags — `network/<page>-<design>.js`, `fade.js`

One row, a network's or a radio's with its SSID. `net` is what it is and `shown` what LuCI drew;
`tag` is what the chosen script wrote on it at its last frame, by an operator per script
(`InterfacesCards` and so on) which reads the named runs of the row in that script's order. What a
script watches decides which redraws it is told of. The name's mark, its width and who holds it are
`fade.js`'s: held is hovered, focused or slid by a tap, and, once let go, until the text has slid
back (`text-indent`); `TagFrame` and `ScanFrame` are the two frames, each of which sees what the other writes.

### PortMap and PortPanel — `ports.js`, `renderPorts`

`PortMap` has no state: `readDeviceConfig`, `resolveMembers` and `collect` as operators from a
configuration and what the calls of a poll answered to the squares (`Collect`), and, apart from
them and written from how the kernel tags frames, what a network's frames look like on a port
(`Wire`). `PortPanel` is the card: a poll is asked for (`Ask`) and answered call by call (`Answer`), and
redraws the card around the square under the pointer, its tip, the focus and the open list.
Members are found by a recursive function over devices: `Leaves` is one layer, `Visited` one call, cut by `seen`
as in the code. Frames go down with their tags, outermost first, layer by layer (`Below`, `Down`).
`BoardsAssumption` and `RolesAssumption` say of a board that every port has a role, no two are listed under one
name, and the netdev of a switch is no port; `ConfsAssumption` what `readDeviceConfig` lets through.

## 4. What is checked

Each run takes less than five minutes on two cores. Properties and configurations are in the `.cfg` files.

| Run | States | Shows |
|---|---|---|
| `NetModel_trial` | 398 k | Pushes of a plan and of an address that lose the controller, and of a lease that keeps it, with failing commits, saves that raise, files that come out short, event informs, two crashes or reboots at the steps where nothing is in hand, `touch` and `netmodel-retry`. Until a record is forgotten unsaved or a file is short: an unproven network has its window, in the file or in the daemon that owes the save, and a proven copy (`UnprovenIsCovered`); a window is closed as confirmed by the network it names (`ConfirmsWhatAnswered`); the change lost last is not committed again until somebody forgives it (`NoSecondTry`); a cut-off device comes back (`StrandedRecovers`); the whole implements TrialNetwork (`KeepsThePromise`). |
| `NetModel_race` | 691 k | Every command, interleaved between load and save, crashes at every step, for a device that sends no event informs. Two things survive all of it: the record never claims a plan it refuses, and every open window closes. |
| `ConfigPush_plan` | 214 k | Five configurations, one losing its network, one never applying, one without a system part. `cfgversion_effective` is the last clean push; a version is reported only when its push ran through; pushes are bounded by `cfg_retries`; the controller ends up satisfied. |
| `Adoption_ssh` | 28 k | Adoption over SSH, rotation, Forget, set-inform between heartbeats, two restarts. A heartbeat uses what was commanded last; a forgotten device stays with its controller; the account follows the adoption. |
| `Adoption_reset` | 14 k | Forget and reset-inform against crashes while no command waits: an unadopted device is bare. |
| `Adoption_overlay` | 283 k | Saves that fail, crashes and commands at any step: the key the controller issued last still arrives. |
| `Roaming_reports` | 158 k | One client over two BSSes: nothing is reported that did not happen (`ReportsHappened`), what the client announced is reported, what is known follows the client — the first three as long as no line was lost, read twice or left unread when the stations were listed, the last in every case. |
| `SwitchVlan_edit` | 174 k | A user who waits for a save before editing what it carries, over two ports and two VLANs, with one call failing: once quiet, the session holds the table the user asked for (`StagedWhenQuiet`) and one the page would open on (`NeverLocksItselfOut`); its three views agree (`RowsAreVlans`); it implements VlanTable (`TableRefined`); a failed stash holds up nothing (`EditsReachTheSession`). |
| `LogView_follow` | 234 k | Three lines come, repeat, go, are filtered, reversed and drawn afresh. The rows are the log, their counts theirs, their chunks within bounds; a poll builds the new rows only; no kernel line is left waiting for a level nobody reads. |
| `RowTags_redraw` | 686 k | Both pages in three designs each, through three redraws, a restart, a stop, resizes, a hovered and a tapped name: no frame to come, the row says what LuCI drew; a name fades if too long and is not disturbed while it is read; the frames end. |
| `PortPanel_poll` | 198 k | Two boards in 46 configurations, a call that fails, a cable or the configuration that changes: each port is shown as what it carries on the wire; the tip, the focus and the list survive the poll; the card comes to say what is so. |

One run shows the code departing from its own words.

| Run | Property | The trace |
|---|---|---|
| `NetModel_crash` | `WindowSurvivesRestart` | Power fails between the commit of `/etc/config/network` and the save of the window: the board boots into an untried network that nothing rolls back (`state.lua:115` promises otherwise). |

### Bounds, and why they are enough

* NetModel: whether a network reaches the controller is all the code can find out about it, and whether it is
  a plan, an address or a lease decides what is recorded. `NetModel_trial` has a plan and an address that lose the
  controller, and a lease that keeps it; the other two have a plan of each kind. `Timeout` of
  one or two ticks separates "inside" from "after" the window; `MaxUptime` is the last uptime
  told apart, one beyond the timeout at most. One restart per behaviour reaches every combination of a
  step and what it finds at the next start; `NetModel_trial` has two, so that a start that re-applies an address
  may itself be followed by another. `EventsPerTick` is 1: every event inform's answer does the
  same. In `NetModel_race` it is 0: an event's answer that brings a second change opens the window anew, and
  somebody who runs netmodel-restore for ever, against a controller that pushes the change again for ever in such answers,
  keeps it open.
  `NetModel_trial` stops at `amiss` (the constraint `NotAmiss`): it is never unset, and every property of the run holds of
  what comes after by its own words, so nothing is passed over. The other two keep `Failing` empty: the properties of
  `NetModel_race` with saves that raise were checked with two of the commands at a time (`touch` and `netmodel-retry`,
  1.1 M states; `netmodel-restore` and `reset-inform`, 0.6 M), because all four are too much for five minutes, and nothing more shows.
* ConfigPush: `Retries` 2, so that a held-back push is held back again before it is given up;
  two cuts, so that the count is interrupted and resumed; two versions ask for the network that
  loses the controller, because the second is refused for the first one's sake.
* Adoption: two keys (one rotation), two URLs of the same controller (by host and by address),
  three commands, two restarts. `Adoption_overlay` has the event informs of `sta_events`; the
  other runs are of a device without them, because a push in an event's answer overwrites a
  command that waits for the next heartbeat (section 6).
* Roaming: two associations of one client, one of them possibly a return, over two BSSes; a ring of
  three lines, which one association with a band change and a renewed handshake overruns; one
  restart. With three associations and a ring of two (1.5 M states, four minutes) nothing more
  shows.

* SwitchVlan: two ports, so that a selection may be mixed; two VLANs, so that a native VLAN can
  move; two edits, so that the second meets the save of the first; one failing call. The
  sessions it opens on include an orphan label, a port native in one VLAN and tagged in the
  other, and two configurations it must refuse.
* LogView: chunks of one row, so that one line splits them; a ring of three of three lines; two
  lines logged, of which each may repeat one; two textareas.
* RowTags: three redraws see a restart through (spinning, under way, done); two changes.
* PortPanel: one change and one failing call, before, between or within the polls; the configurations name every
  way from a network to a port: bare, alias, VLAN device by section or by name, bridge filtering or
  not, native by PVID or untagged, behind the switch's CPU port tagged or not.

The symmetric sets are small, and no run uses symmetry: most check temporal properties.

### Fairness

* NetModel: the daemon's next step (`WF` — one loop, restarted by procd's respawn), the clock, the
  end of a command. `WriteBack` has strong fairness: the copy may fail to be written on some ticks,
  not on all of them. No answer of the controller is assumed: StrandedRecovers and WindowCloses
  need the clock and the loop only.
* TrialNetwork: a network nobody answered over is answered over or left, unless the promise is void.
* ConfigPush: ten minutes pass; a push that the controller can send again and again gets through
  once in a while (`SF`), as `MaxCuts` bounds only cuts; an unconfirmed window expires.
* Adoption: the loop, the end of a start, heartbeats between the event informs, and, of informs, that not every single one that could
  carry the key is lost.
* Roaming: heartbeats go on; again and again one of them lists everybody who is here as heard
  from; again and again hostapd has dropped who is gone and the bridge has told its moves. These
  are written as recurring states: each can be reached from every state.
* SwitchVlan: LuCI answers every call or reports that it failed. LogView and RowTags: the browser
  runs a frame that was asked for, and a read ends one way or the other. PortPanel: the poll comes
  and its calls end. No click is owed by anybody.

## 5. What is proved

### The network safety net

`NetModelProofs`, for all sets of plans and addresses, every `Timeout`, every set of
reachable networks and all bounds, from `NetAssumption`:

| Theorem | Statement | Further assumption |
|---|---|---|
| `TypeCorrect` | `Spec => []TypeOK` | — |
| `NeverBoth` | `Spec => []AppliedNeverFailed` | — |
| `NetworkIsCovered` | `Spec => []UnprovenIsCovered` | `Careful` |
| `ConfirmationIsEarned` | `Spec => ConfirmsWhatAnswered` | `WindowsKept` |
| `LoserStaysOut` | `Spec => NoSecondTry` | `RollbacksRecorded` |
| `ImplementsTrial` | `Spec => Trial!Spec` | `Careful` |

`Careful` says that no command interleaves with a save or drops the window (reset-inform does),
and that nothing goes down while the network is `InHand`: between a commit and the save of its
window, or between a write-back and its reload. `RollbacksRecorded` says that no command
interleaves with a save and that nothing goes down between a write-back and the save of what it
found. Both are predicates on the constants, and both are needed: section 6 has the run, or the
configuration, that breaks the property without them. Neither says anything of `Failing`: the saves may raise
at every place where the code calls them, and files may come out short. What the properties leave out is the moment from which the
daemon has *forgotten* what it could not save, or a short file stands for a whole one (`amiss`, section 3):
from then on the code has nothing to go by, and section 6 shows what happens. A save that raised and was made up for, or is still owed
by a daemon that lives, is inside all four theorems.

`UnprovenIsCovered` is not inductive: it speaks of moments when the daemon is not `InHand`, and
what it says there was prepared while it was. `Covered` follows the daemon's steps: the
running network is one that was answered over whenever an answer is being handled, so the
copy taken then is good; from the copy to the reload a copy exists; from the reload to the save
the window is in memory, and while its save is owed it stays there; and a recorded static address, which a start applies again over
whatever it finds, is only ever the network in place when that network is unproven. The conjuncts lean
on each other, so they are proved together. `CoverInv` adds what is so whatever was lost: no process is between a load and a save,
and a daemon that is down owes nothing, since what it owed is forgotten.

`NoSecondTry` needs `RefusalInv` in the same way: between a write-back and the save of the
rollback, what was lost is known from the window being closed and not from `failed`; after it, `failed` is in the daemon's table,
and in the file unless the save is owed (`Remembered`).

`ImplementsTrial` maps every step to a trial, an answer, a way back or a stutter, using
`CoverInv` for what is known at that moment.

`ConfirmsWhatAnswered` is a fact about a step; `ConfirmInv` says what makes it true: an open window,
in the file or in memory, is about the running network or about one answered over before; a commit
in hand is of what was asked for; a rolled-back change stays on record, in the daemon's table until a save works. A window
that is still in the file when the one in memory
was closed is a window of the past: it may come back only through a reload or a start, and either is `amiss` while the save is owed. `WindowsKept`
is what it needs of the commands and crashes: `Careful`, `RollbacksRecorded`, and no netmodel-restore, which puts the original network back
under an open window (section 6).

The proofs are by one step per action. Lemmas about the record (`RecordSteps`) are stated once.

### The other modules

| Theorem | Statement | Assumption |
|---|---|---|
| `ConfigPushProofs.NothingReportedEarly` | `Spec => []ReportsOnlySettled` | — |
| `ConfigPushProofs.PushesEnd` | `Spec => []PushesBounded` | `Raising = {}` |
| `ConfigPushProofs.ClaimIsTheLastClean` | `Spec => []EffectiveIsLastClean` | `Restorable` |
| `AdoptionProofs.TypeCorrect` | `Spec => []TypeOK` | — |
| `AdoptionProofs.OpenForAdoption` | `Spec => []AccountOpen` | — |
| `AdoptionProofs.AccountFollows` | `Spec => []LockedWhileAdopted` | `AdoptsOverSSH` |
| `AdoptionProofs.ForgottenInforms` | `Spec => []ForgottenStays` | no crash at `"resetting"` |
| `AdoptionProofs.LastWriterWins` | `Spec /\ NoTextComesBack => InformsAsCommanded` | `CommandsKeepApart` |
| `AdoptionProofs.NothingIsLeft` | `Spec /\ NoTextComesBack => []ForgottenIsBare` | `CommandsKeepApart`, `ResetsAreSeen` |
| `RoamingProofs.ReportsAreTrue` | `Spec => []ReportsHappened` | — |
| `RoamingProofs.WordsAreReported` | `Spec => []AnnouncedReported` | — |
| `RoamingProofs.AwayApart` | `Spec => []AwayIsNotHere` | — |
| `RoamingProofs.WhoIsHereIsKnown` | `Spec => []InTouch` | — |
| `SwitchVlanProofs.TableStaysSound` | `Table!Spec => [](Seen \in Tables /\ Table!OneNative(Seen))` | — |
| `SwitchVlanProofs.PageRefines` | `Spec => TableRefined` | `Patient` |
| `SwitchVlanProofs.LocksNobodyOut` | `Spec => []NeverLocksItselfOut` | `Patient` |
| `SwitchVlanProofs.RowsFollow` | `Spec => []RowsAreVlans` | `Patient` |
| `SwitchVlanProofs.AllIsStaged` | `Spec => []StagedWhenQuiet` | `Patient` |
| `LogViewProofs.RowsAlwaysAreTheLog` | `Spec => []RowsAreTheLog` | — |
| `LogViewProofs.CountsAlwaysAreTheRows` | `Spec => []CountsAreTheRows` | — |
| `LogViewProofs.ChunksAlwaysFit` | `Spec => []ChunksFit` | — |
| `LogViewProofs.PollTouchesJustTheNew` | `Spec => PollTouchesOnlyTheNew` | — |
| `LogViewProofs.RowsAreAskedFor` | `Spec => []AskedFor /\ [][AsksAgain]_vars` | — |
| `RowTagsProofs.NameFades` | `Spec => []FadesIfTooLong` | — |
| `RowTagsProofs.NameSlides` | `Spec => SlidesUndisturbed` | — |
| `RowTagsProofs.FramesEnd` | `Spec => [](FramesLeft \in 0..5 /\ ...) /\ [][FramesRunOut]_vars` | — |
| `RowTagsProofs.RowIsTold` | `Spec => []TagTellsTheRow` | — |
| `PortPanelProofs.PollKeeps` | `Spec => []PollKeepsTheUser` | `NoneIsNoCard` |
| `PortPanelProofs.TipStays` | `Spec => PollsLeaveTheTip` | `NoneIsNoCard` |
| `PortPanelProofs.TellsTheWire` | `Spec => [](Regular(board, conf) => PanelTellsTheWire)` | `NoneIsNoCard` |

ConfigPush. `PushesBounded` bounds the pushes by a number that is not there while they are made. `BoundInv` says
how many are accounted for at each moment (`Allowed`): none but the cuts before the first, as many as
were held back while the version is not reported, one more once it is; a version given up
and asked for again has its retries behind it. A handler that always raises is never counted, hence the assumption
(section 6). `EffectiveIsLastClean` filters a log of any length; `ClaimInv` names the place of the
last clean push that stands, and says of an open window that the claim it would go back to is the last
clean one from before it opened. `Restorable` leaves out the two departures of section 6: static addresses, and
an answer to an event inform that applies without a network.

Adoption. `LockInv`: what the daemon or the controller believes adopted is adopted in the file.
`HomeInv`: the URL in file and table on the way through the two saves of a reset. `WishInv`: the
file is what was asked for but while an answer is handled, the table too unless a command waits to be
noticed, and then the text the daemon looked at last is another one. `NoTextComesBack` is the
hypothesis for that last part: no command writes exactly the text seen before the daemon's table moved on (section 6 has the run where one
does); it is stated of behaviours and not of constants, because it is about texts. `BareInv`: what a
controller set up is there only while adopted, but for a reset that a running daemon has yet to notice.

Roaming. The properties speak of moments when every line is read, the daemon's steps of one line at
a time. `RoamInv` looks at what the daemon *will* know once it has read what is unread (`Ahead`, the
fold of `Ingested` over the log): until something is amiss, that is in step with what the client did and with
what hostapd lists, and a line more keeps it so. The folds over a log of any length are by
induction, with the lemmas at the head of the module (LogViewProofs and SwitchVlanProofs begin with the ones they
need): two recursive functions that take the same steps agree, from the well-foundedness of < on the naturals.
`InTouch` is what `RoamInv` says when there is nothing left to read: who is here is known on its BSS
and not marked as away, who is gone and dropped by hostapd is not known. It is `StayerIsKnown` and
`GoneIsForgotten` at the moments when nothing is amiss; that they hold again after something was needs the
heartbeats of `Fairness`.

SwitchVlan. `SwitchInv` has four parts. `TypeInv` is the shapes; `BlockedInv` says that a blocked page
has edited nothing; `PageInv` that the views agree, that the copy is sound (one
section per VLAN, a port native in one at most) and that `want` is what the copy means; `StashInv` that a package
without a copy has no pending edits, and that a save in flight carries its packages as they are. For a `Patient` user, that is one who does not edit
a package while its save is in flight; section 6 has what happens to the others. The refinement takes
one step per handler: the sections that a click writes mean the table that the click asks for (`Means`).
`VlanTable`'s own soundness is a theorem about the abstract table, for all ports and VLAN IDs.

LogView. `LogInv`: what is shown is the rows' lines, the chunks fit and the counts are the rows', at every
moment; and with no frame to come, what is shown is what LuCI has written. That a frame keeps it is three
arguments. Nothing is lost by the chunks: `FlattenSeq` of chunks cut, filled, split or regrouped is the rows
(`CutIs`, `FilledIs`, `SettledIs`). The walk yields the text: the lines above a kept row and the
row's own, piece by piece and with the rest, are the lines, wherever `find` sends it. The counts balance piece by
piece: each row dropped takes off what it put on, each built or answered adds its own. For
`PollTouchesOnlyTheNew` a second induction follows the walk over a log that lost its oldest lines: at each row it
stands at the row's line or one ahead of it, so none that stays is built again. None of it supposes that lines
differ. `RowsAreAskedFor` is `NoRowForgotten` without the fairness: a row that waits and is in no read
has one in flight to wait for (`AskedFor`), and the step that ends it leaves no such row (`AsksAgain`),
unless a read failed. It is inductive with the rows' types.

RowTags. `FadesIfTooLong` speaks of moments without a frame to come;
`MarkInv` says what prepares them: a name without a mark has a frame that will mark it, and a mark that no
frame will look at has been measured and its size is observed. `TagInv` likewise: a tag that differs from
what the script would write now has a frame to come, but where LuCI changed a class alone and the script is told of nodes only (`missed`).
`FramesEnd` is what `Quiesces` rests on: a number (`FramesLeft`) that every frame makes smaller, whatever it writes, that
only LuCI's drawing, its buttons and a resize make larger, and that is 0 when no frame is to come.

PortPanel. `UserInv` keeps the square under the pointer, the tip and the list apart from what a poll's calls
answer; `NoneIsNoCard` says only that no card is the value that stands for there being none.

`TellsTheWire` compares two walks down the devices, the page's and the frames'. The first is a recursion without
a bound in sight: `Fixpoint` (the least of the functions that a step keeps above themselves) shows that it has a
value at all, `ResolveIs` that this is what one step makes of the values below. `OneLayer` is the heart: a frame is
carried along with what the page knows of it, `Look`, and whatever layer it meets, the page takes it to the same ports
with the same look. `Val3` puts three layers together; since each comes closer to the ports, the list of
names already seen never cuts a walk short. The rest is `collect`: `DevicesAre` (which netdevs are ports), `ThroughCpu`
(a VLAN of the switch has the network just where the CPU port sends its frames) and `CardTells`; `CurrentInv` says that a
current card is what a load would make now. `Regular` is what the theorem asks of a configuration: each network's device is a port or lies on
at most three layers (`Three`), only the topmost of which is a bridge or a VLAN of one that filters; where a network
is on such a bridge itself, each port has one PVID; nothing untagged in a VLAN of such a bridge goes to the CPU port of a switch.
The three departures of section 6 are not regular. MCPortPanel assumes that all its
configurations are, which TLC evaluates; it also evaluates what PortMap and PortPanel assume of names, roles and what is read of a configuration.

### Model-checked only

Everything temporal beyond safety (`StrandedRecovers`, `WindowCloses`, `StopsCycling`, `KeyArrives`,
`StayerIsKnown`, `GoneIsForgotten`, `EditsReachTheSession`, `NoRowForgotten`, `Quiesces`, `CatchesUp`
and the fairness half of `KeepsThePromise`), because TLAPS does not reason about fairness and
ENABLED here. What is left of `StayerIsKnown`, `GoneIsForgotten`, `NoRowForgotten` and `Quiesces` without it
is proved (`WhoIsHereIsKnown`, `RowsAreAskedFor`, `FramesEnd`).

## 6. Where the code departs from what it should do

The violation run above, and the following, which are left out of the passing runs by their
constants. Each is reproduced by changing the named configuration as said.

| What happens | Where | To see it |
|---|---|---|
| The lost change is forgotten when the daemon dies after the write-back and before the save: it is taken again at the next push. | `netmodel.lua:784-791`, `inform.lua:1466` | `NetModel_trial`, add "dropped" and "reverted" to the set of CrashAt: `NoSecondTry` |
| netmodel-restore between a heartbeat's start and its answer puts the original network back, and the answer over it confirms the window of the change that is no longer there. | `inform.lua:1157` | `NetModel_trial`, Ops with "restore": `ConfirmsWhatAnswered` |
| The save of a window raises on a full overlay, after the commit and the reload. The pcall swallows it, the daemon goes on with the window in its memory; if it dies, or loads what a command wrote, before a save works, an untried network is left without a window. | `provision.lua:708-714`, `798`, `inform.lua:1391` | leave `amiss` unchanged in NetModel's GoDown (`Forget(FALSE)`), or in StartTick: `UnprovenIsCovered`, `StrandedRecovers` |
| The save of a verdict raises. The file keeps the window, whose copy is gone: loaded again it is confirmed by the network that was put back, or, given up, leaves a failed change that nothing remembers. | `inform.lua:1468` | the same: `ConfirmsWhatAnswered`, `NoSecondTry` |
| The save after a static address was re-applied at a start raises: no pcall is around it, and the daemon dies with the address in place and its window gone. | `inform.lua:826`, `1925` | leave `amiss` unchanged in DieUnsaved (`Forget(FALSE)`): `UnprovenIsCovered`, `StrandedRecovers` |
| `_write_file` ignores what writing and closing say, and renames what there is: a copy cut short by a full overlay counts as kept, and one written back short as restored. | `netmodel.lua:80-89` | leave `amiss` unchanged in KeepCopy: `UnprovenIsCovered`; in WriteBack: also `StrandedRecovers` |
| netmodel-restore does not look whether the file was written: it empties the record, window included, and reports the original network restored. | `netmodel.lua:906-911` | leave `amiss` unchanged in Restores, Ops = {"restore"}: `UnprovenIsCovered` |
| reset-inform inside a window empties the record, window included: a stranded board stays stranded. | `syswrapper.lua:111-118` | `NetModel_trial`, Ops = {"reset"}: `StrandedRecovers` |
| A command saved over a concurrent save of the daemon takes the window with it. | `syswrapper.lua:30-45` | `NetModel_trial`, Race = TRUE: `UnprovenIsCovered` |
| on_start re-dates a window in memory only. After a reboot, a command before the next heartbeat makes the daemon reload the old boot's `since`: the window is then measured against an uptime that restarted, and stays open for the old uptime longer. | `netmodel.lua:794-798`, `inform.lua:1923` | `NetModel_trial`, look at `mem.pending.age` after Reboot, Start, Run("touch"), StartTick: it is negative. WindowCloses shows that such a window still closes. |
| A static address that loses the controller is rolled back with no `effective_before`: `cfgversion_effective` becomes nil instead of the version that did apply. | `inform.lua:520` against `provision.lua:711-713`, `inform.lua:1470` | `ConfigPush_plan`, Addressing = {stray}: `EffectiveIsLastClean` |
| A push that changes no network and comes in the answer to an event inform applies clean inside an open window; when that window is rolled back, the claim goes back beyond it. | `inform.lua:520`, `1470` | `ConfigPush_plan`, Failing = {}: `EffectiveIsLastClean` |
| A configuration whose handler always raises cycles for good: `_settle_cfgversion` never counts it. | `inform.lua:1393-1400` | `ConfigPush_plan`, Raising = {v4}: `PushesBounded`, `StopsCycling` |
| A command saved while a heartbeat is under way, or before an event inform whose answer carries a push, is overwritten by the daemon's save, and never seen. | `inform.lua:1157`, `1427`, `provision.lua:1051` | `Adoption_ssh`, CommandAt = {"informing"} or StaEvents = TRUE: `InformsAsCommanded` |
| Adopted over the inform channel, the device leaves its bootstrap account usable: the daemon's own save is no reload. | `inform.lua:723`, `USAGE.md:685` | `Adoption_ssh`, L3 = TRUE, Ops = {}, MaxRestarts = 0: `LockedWhileAdopted` |
| A command that writes a text the daemon saw before it saved another one is taken for seen: a second reset-inform, when the device was adopted again in the very heartbeat that noticed the first. | `inform.lua:706` | `Adoption_reset`, MaxCommands = 4: `InformsAsCommanded` |
| A command that falls between the load and the noting of the text at a start is taken for known. | `inform.lua:1917-2047` | `Adoption_ssh`, CommandAt = {"starting"}: `InformsAsCommanded` |
| reset-inform while the daemon is down leaves the controller's SSIDs and VLANs: only a running daemon compares before and after. | `inform.lua:720-729` | `Adoption_reset`, CommandAt = {"off"}: `ForgottenIsBare` |
| A crash between the two saves of a setdefault loses the controller's URL. | `provision.lua:1072-1087` | `Adoption_ssh`, CrashAt with "resetting": `ForgottenStays` |
| The hook's reset goes to the built-in URL, the daemon's to the configured one. | `syswrapper.lua:115` | give BuiltinURL another value than DefaultURL |
| Restarted, the daemon reads the roam log from its first line and reports again what an earlier run reported. | `inform.lua:172`, `2146` | leave `amiss` unchanged in Roaming's Restart: `ReportsHappened` |
| A client that moves to another AP and back between two looks is, when a heartbeat lists it first, reported as having left after it returned. | `inform.lua:1278-1280` | leave `amiss` unchanged in Roaming's Dump: `ReportsHappened`, once `AnnouncedReported` is taken out |
| A client disassociates just before a heartbeat lists the stations: `roam_observe` forgets it before `_roam_poll` reads its line, and no `sta_leave` is sent (`USAGE.md:1847`). | `inform.lua:1278-1280`, `staevents.lua:506-511` | leave `amiss` unchanged in Roaming's Dump: `AnnouncedReported` |
| An edit of a package while a save of it is in flight is pending in a copy that LuCI forgets when the answer comes: it is shown and never staged. | `switch-vlan.js:1104` against `18-20` | `SwitchVlan_edit`, Patient = FALSE, MaxFaults = 0: `TableRefined`, and `StagedWhenQuiet` without it |
| Two of the oldest lines that a poll drops come again at its end, in their order: they are kept where they are now, and every row in between is built again, not only the new ones. | `logs.js:365-375` against `26-30` | `LogView_follow` with five lines in Log, RingSize = 5, Filters = {{}}, MaxLogged = 2, without the property's conjunct on the dropped lines: `PollTouchesOnlyTheNew` |
| A network on `br.10.20` over a bridge VLAN that is untagged on the port is shown with tag 10, not 20. | `ports.js:152` | add such a network to MCPortPanel: `ConfsAreRegular`, and without it `PanelTellsTheWire` |
| A network on a filtering bridge is shown untagged on a port that has no PVID there. | `ports.js:193` | add such a port to MCPortPanel: the same |
| A network on `br.1` over a filtering bridge that has the CPU port of a switch untagged is not shown on the switch's ports: only a member without a VLAN counts as untagged there. | `ports.js:409-410` | give MCPortPanel's Switched a bridge with VLANs on eth0: the same |

## 7. What is not modelled

Byte formats (`packet.lua`, `crypto.lua`, `inflate.lua`), the catalogue and model matching, and
everything that only reads the system into a payload keep no protocol state; they are functions
with vectors in `openuf/tests`. Packaging and the contributed profiles are files. hostapd, netifd,
usteer, nft, the kernel's clock, LuCI's own scripts, rpcd, the browser and the controller are
external: they appear as actions shaped by how the code uses them, and `map` marks them so.

Of the theme: the menu, the power dialogs, the dashboard's meters and the settings form are
drawing and forms, with no state from one call to the next that a property could be about; the
station tables of the wireless designs tag their rows as `RowTags` has it, by other columns.
Of the Port Manager, the modal of one port, PoE and the read of the switch's features — which is
done once, so that a failure is remembered for as long as the page lives — are left out. Of the
Switch / VLAN page, LuCI's own reset and apply with its countdown. The pages of the LuCI
application talk to the daemon through UCI and a status file only.

The remaining components of the daemon are planned (section 2).

## 8. Running it

    tlc -config NetModel_trial.cfg MCNetModel.tla     # and the other runs, listed in PROJECT.json
    tlapm NetModelProofs.tla                          # and ConfigPushProofs, AdoptionProofs, RoamingProofs,
                                                      # SwitchVlanProofs, LogViewProofs, RowTagsProofs,
                                                      # PortPanelProofs

`MC*.tla` instantiate the modules for TLC; the community modules `SequencesExt` and `Functions`
have to be on the path. `PROJECT.json` maps every definition to the lines it translates, gives a
plausible bug for each property under which the property fails, and lists hazards and findings.
