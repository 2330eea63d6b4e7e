# Outband: TLA+ models, checks and proofs

Outband is a Go + HTMX control plane for baseboard management controllers
(BMCs): IPMI/AMI, Intel AMT, HPE iLO and Dell iDRAC.  One process serves a web UI,
polls every host of its inventory, keeps the results in SQLite, and bridges KVM and
serial consoles to the browser, where a bundled noVNC shows the KVM console.
This directory holds TLA+ models of the parts whose correctness depends on interleavings, failures and long sequences of calls,
the TLC runs that check them on small instances, and TLAPS proofs for every
instance where a proof is within reach.

## 1. The system

### Parts, state, operations

| Part | Source | State | Operations |
|---|---|---|---|
| KVM bridges (AMI, AMT, iLO) | `kvm/bridge.go`, `amt/redir/bridge.go`, `ilo/rc/bridge.go` | one slot per host: `active`, `client`/`conn`, `cancel` | Acquire, Release, goroutine after Run, Status |
| KVM clients | `kvm/client.go`, `amt/redir/{session,rfbclient}.go`, `ilo/rc/client.go` | socket, web session, fragment buffer, framebuffer | Connect, Run, Close |
| iLO console channel and DVC decoder | `ilo/rc/{console,crypto,dvc}.go` | two keystreams, bit buffer, decoder state, colour cache | Send, Decrypt, SetCipher, ChangeKey, Feed |
| HID sinks | `kvm/hid.go`, `ilo/rc/hid.go` | modifiers, up to six pressed keys, paste goroutine | KeyEvent, PointerEvent, CutText |
| RFB server and frame source | `rfb/server.go`, `rfb/framesource.go` | latest frame, coalescing signal, one-place request channel, last advertised size | Serve, readMessages, Update |
| IPMI adapter | `ipmi/client.go` | shared RMCP+ client under a mutex, four timed caches, `solActive` | PowerStatus, PowerControl, MCInfo, Sensors, SEL, OpenSOL, Close |
| iLO, AMT, iDRAC adapters | `ilo/client.go`, `amt/client.go`, `idrac/*.go` | timed caches, sessions, resolved transport | the same Client interface |
| Telemetry store | `telemetry/store.go` | SQLite tables, in-memory snapshots | Record*, SetError, Latest*, LoadSnapshots, Prune, migrate |
| Collector | `telemetry/collector.go` | tickers, one goroutine per host | Run, poll* |
| HTTP API, gate, OIDC | `httpapi/*.go` | signed tokens, revocation map, login cookies | routes, power and console handlers, Middleware, login/callback |
| Inventory | `hosts/hosts.go`, `config/config.go` | host registry, default host, feature flags | Open, Get, Close |
| Process | `cmd/outband/main.go` | contexts, collectors, HTTP server | start, shutdown |
| noVNC, protocol side | `novnc/core/{rfb,websock,ra2,display,inflator}.js`, `core/decoders/` | receive and send queue, handshake step, rectangle and decoder under way, render queue | messages of the server, decodeRect, flush, authentication |
| noVNC, input side | `novnc/core/input/*.js`, `core/util/{cursor,events}.js` | keys held, AltGr timer, touches tracked, buttons, captured element | key, mouse, touch and wheel events, their timers |
| noVNC, page | `novnc/app/ui.js`, `app/webutil.js` | the RFB object, visual state, dialogs, panels, settings | connect, disconnect, reconnect, clicks, resize |
| Page scripts | `static/js/{metrics,theme,console}.js` | chart and its requests, theme in localStorage, terminal socket | form events, answers, storage events |

### Interactions

A browser opens `/h/{id}/ws/kvm`; `handleKVMWS` acquires the bridge of the host
(409 when busy), upgrades to a WebSocket and runs `rfb.Serve` between the bridge's
frame source and the browser.  The bridge's `Run` goroutine decodes BMC video into
the frame source; the RFB reader turns browser input into HID reports.  In the
browser `kvm.html` embeds noVNC with `autoconnect`, `reconnect`, `resize=scale` and
`show_dot`; its handlers run to their end one by one, and what interleaves is socket
events, decoded images, timers, promises and the user.  Meanwhile
the collector of every host calls the same adapter the HTTP handlers use and writes
into the store the pages read.

### What is hard to get right

Exclusive console slots that several goroutines free; sessions that end before the
handler that owns them; multi-step logins that fail half-way; signals and requests
coalesced in one-place channels; check-then-act caches around slow network calls;
reports built under a lock and sent after it; schema migration interrupted by a
crash; a colour cache whose replacement order must match the firmware's exactly; in
the browser, messages cut anywhere by the network, drawing that waits for images,
RFB objects that outlive their connection, keys and buttons whose release goes missing.
`PROJECT.json` lists these hazards at their lines.

## 2. Modules

Every module names its constants, its variables (with the field of the code each one
stands for) and one action per operation or exchange.  `PROJECT.json` maps every
definition that models code to its lines.  Critical sections of a mutex are one step;
a network exchange is one step; what happens between two of them can be interleaved.

| Module | Models | State and actions |
|---|---|---|
| `ExclusiveSlot` | abstract: what a console slot promises | holder and replies; Grant, Refuse, Give back |
| `KvmBridge` | the three KVM bridges with `handleKVMWS` | slot fields, one session per handler; Acquire, the exchanges of Connect and their failures, Publish, Upgrade, Release/Teardown, the goroutine after Run.  `backend` selects what differs |
| `RfbServer` | `rfb.Serve`, its reader, `FrameSource`, noVNC's requests | frame version, one-place channels, last size |
| `SolConsole` | `handleSOLWS`, `OpenSOL`, pipes and pumps | slot, pipe ends, the SOLActivate goroutine, errCh |
| `PowerPath` | power status and control of the four adapters, collector, `handlePowerAction`, `RecordPower` | chassis commands, cache, session lock, row/memory/snapshot |
| `TelemetryStore` | `telemetry.Store` and the collector's calls | memory, tables, one connection, crashes |
| `StoreMigration` | `telemetry.Open`, `migrate`, `migrateToV1` | tables and indexes statement by statement |
| `LruList` | abstract: a list of colours by recency | list, colours touched |
| `DvcCache` | the colour cache of the iLO decoder | `ccActive`, `ccColor`, `ccUsage`, `ccBlock`, the pruning loop |
| `DvcDecoder` | the decoder's state machine | state, pixels of the block, cache length, latch and refresh counter |
| `DvcBits` | its bit buffer | accumulator, zero counter, codes |
| `AmtRedir` | AMT redirection handshake | bytes on the wire cut anywhere, buffer, authentication |
| `AmtRfb`, `AmtTile` | AMT RFB client; tile decoding | requests, format, framebuffer; runs, palettes, packed pixels |
| `HidSink` | keyboard and paste of the three sinks | pressed keys, reports built under the lock and sent after it |
| `IvtpClient` | AMI video client | handshake, fragments, readLoop, keepAlive, Run |
| `IloChannel` | iLO console channel | dial with seizing, two keystreams, TCP segments |
| `OutbandProcess` | `hosts.Open`, `main`, shutdown | inventory, registry, collectors, requests |
| `LoginGate` | gate and OIDC login | session map, cookies of a browser with tabs |
| `IdracWeb` | web session of the iDRAC adapter | `logged`, `st2`, cookie jar, callers, firmware sessions |
| `AmtEnable` | `EnableKVM` | exchanges against the state of the ME |
| `NovncSession` | connection states of RFB objects, and the page that makes them | one record per RFB object, one for the page; socket events, timers, dialogs, clicks |
| `NovncUpdates` | `display.js`; FramebufferUpdate, flush, update requests | canvas, viewport, damage, render queue; one dimension |
| `NovncWire`, `NovncDecoders`, `NovncFraming` | receive queue as a reader sees it; the decoders; `_normalMsg` and rectangles; external: the byte streams servers send, with what they mean | a client record, the bytes so far, what the decoder keeps |
| `NovncHandshake` | `_initMsg`, security types, RA2; external: scripts of servers | step of the handshake, promises, prompts |
| `NovncSocket` | queues of `websock.js` | buffers with their sizes, numbered bytes |
| `NovncView` | clipping, scaling, remote resizing | settings, window, viewport, requests |
| `NovncKeyboard` | `keyboard.js`, key part of `rfb.js`, modifier buttons | keys held at three places: finger, `_keyDownList`, server |
| `NovncPointer`, `NovncCursor` | gestures, mouse, wheel; emulated capture; drawn cursor | touches with their ages, buttons, position |
| `NovncText` | `keyInput` of the hidden text field | field, last value, text at the server |
| `NovncControls` | control bar, panels, virtual keyboard, one setting | page record, timers, storage |
| `Pages` | `metrics.js`, `theme.js`, `console.js` | tabs, requests in flight, chart, storage |

Composition.  `KvmBridge` and `SolConsole` implement `ExclusiveSlot`, `DvcCache`
implements `LruList` (refinement mappings in the component or its MC module).
`MCTelemetryStore` runs `StoreMigration` before `TelemetryStore` in each life of the
process.  `PowerPath` composes adapter, collector, handler and store for power.
`NovncUpdates` drives the display, `NovncFraming` the decoders.  `MCKvmBridge`, `MCSolConsole`, `MCDvc`, `MCConsoles`, `MCWeb` and
`MCNovnc` put independent parts into one run: the rigid variable `part` chooses one of
them, so no interleaving between parts is explored that the code does not have.  The
handlers of one script are operators from a record to a record, as the script runs them
to their end.

## 3. Runs

| Run | Question | Result |
|---|---|---|
| `kvm` | Two requests per backend; BMC and browser may leave at any time. Is the slot free when nobody uses it (`SlotFreeWhenIdle`), everything closed when handler and goroutine are through (`ClosedWhenDone`), the exclusive slot implemented (`SlotImplemented`)? Behind one session, three frames of two sizes: no Raw update of a size not announced and no lost signal (`UpdatesServed`). Sessions end with their handler, `Acquire` returns, the last frame is shown (`KvmLive`) | pass |
| `kvm_one_session` | "Bridge owns at most one BMC KVM session" (the AMI bridge, whose comment this is: `AmiOwnsOneSession`) | violated: the Release of a handler whose session had ended frees its successor's slot, and a third handler connects beside it |
| `sol` | Two consoles: nothing left behind, slot implemented, handlers return wherever they block. The page scripts: one theme in all tabs, a chart exactly while the last answer has samples, also when no sensor is ticked and the server takes its default ones, that comes to show the form's sensors and range; a terminal that sends what is typed only while its banner says Connected (`PagesCoherent`, `SolLive`) | pass |
| `power` | One power request and the collector, four adapters: `ExchangeOwnsSession`, `FeedbackExplained`, and page and snapshot end with the state of the chassis (`StoreCatchesUp`) | pass |
| `store` | Two lives of the process on a new or old file: what is shown is recorded (`ShownIsRecorded`), schema and polls whole (`StoreWhole`), no step back and rows kept (`NothingUndone`), Open and all calls return (`StoreLive`) | pass |
| `migrate_drop` | "Detect legacy tables without host_id and drop them" | violated: only `samples` is looked at, and it is dropped first |
| `dvc` | Any codes, colours, bytes: no pixel outside the block, every rank addressable, ranks a permutation, fresh start after a reset and buffer equal to the stream (`NothingCarriedOver`), Feed returns and reads the first bit first (`CodesRead`), list implemented (`LruImplemented`) | pass |
| `dvc_exit` | "Returns 0=ok, 1=exit" | violated: exit returns 6 |
| `consoles` | Six wire protocols: AMT bytes intact and updates flowing, tiles decoded, AMI frames whole and iLO keystreams in step (`VideoWhole`); keys released, pasted text typed (`KeysTyped`); sessions live (`ConsolesLive`) | pass |
| `web` | Process life, UI login, iDRAC web session, AMT set-up: `WebHolds`, `WebLive` | pass |
| `novnc` | Eleven parts of the console page, see below | pass |
| `novnc_paste` | "Clipboard copy/paste with full Unicode support" | violated: `sQpushBytes` takes `subarray(offset, chunkSize)`, an end for a length, so a text longer than the free part of the send queue arrives corrupted |

The invariants of `novnc`:

- `PictureTrue`: the canvas is what the rectangles, in their order, draw, though images are
  decoded later; what the user sees is current once the update is through.
- `NeverQuiet`: an update is asked for, on its way, or asked for once the images are decoded.
- `StreamDecoded`: every stream means the same however it is cut; the receive queue, compacted
  and grown, hands on every byte in order.
- `HandshakeCompletes`: against each server the client ends as that protocol says, waiting
  only for what it should.
- `OneSession`, `PageObeys`: `UI.rfb` is the one live RFB object and the page shows its state;
  the user's no stands, and the page is never a dead end.
- `ViewFollows`: scale, clip, drag and remote size follow window and settings.
- `KeysLifted`, `LockFollows`: no key stays down at the server that no finger holds; CapsLock follows.
- `GesturesEnd`, `PointerFollows`: every gesture ends once; the server's pointer has the
  position and buttons of the local one, the drawn cursor follows it.
- `TextFollows`: the text at the server is the one the user means, and the field is ready
  for a backspace.
- `ControlsCoherent`: panels, buttons, focus, timers and the stored setting agree.

Properties with a named exception say so in their comment: the exception is a flaw or
a limit of the code, and the property shows there is no other.

- `ClosedWhenDone`: a JNLP fetch that fails loses the web session; an iLO session
  that ended by itself is forgotten by Release.  A web session counts as closed once its
  logout was asked for: Logout is best effort, and what the BMC makes of it is not known.
- `KvmLive`: the RFB handshake of the AMT bridge has no deadline.
- `UpdatesServed`: a size change between ServerInit and the first read of the source.
- `StoreCatchesUp`: an iDRAC whose detection failed stays undetected (`sync.Once`).
- `StoreWhole`: a file whose DROPs were cut off.
- `VideoWhole`: the iLO firmware changes to a cipher its session key is too short for.
- `KeysTyped`: iLO reports overtaken by a paste; a paste to an iLO loses Shift, so X is
  typed as x.
- `WebHolds`: overlapping iDRAC calls, or a lost answer to a login; another tab's OIDC
  response, expired cookies, the provider's refusal, or a restart under the callback; a
  change by another AMT console after the first read, which the PUT of the old instance undoes.
- `PictureTrue`: a queued blit ignores its offset into a larger buffer; a resize does not
  wait behind queued drawing.
- `NeverQuiet`: an image that cannot be decoded to its announced size stalls the queue; an
  update without rectangles that arrives while images are decoded forgets the request.
- `StreamDecoded`: a fence of more than 64 bytes, and a clipboard Provide in view-only mode
  or without text, leave bytes unread; a text longer than the free part of the send queue
  is the subject of `novnc_paste`.
- `HandshakeCompletes`: a server random number of RA2 that arrives in pieces; XVP, which
  needs a target that the page never gives and asks again for ever.  Both subtypes of RA2,
  with a user name and with a password only, are among the servers.
- `PageObeys`: a dialog that is asked for late opens though its connection has gone.  Three
  ways lead there: the digest of a server's key, the credentials RA2 asks for after it has
  decrypted a message, and XVP's request from the timer that resumes the handshake.  A URL
  the browser refuses leaves no panel.
- `ViewFollows`: view-only suppresses the resize request; `_handleResize` ignores a window
  that returns to the expected size.
- `KeysLifted`: a key let go while another element of the page has the focus (key events are
  heard on the canvas, and only the window's loss of focus lifts all keys); view-only set over held keys; the window left in the tenth of a second in
  which a Control may become an AltGr; a server that changes to scan codes over held keys.
- `LockFollows`: a LED report overtaken by a press; a pinch, which sends a key without the
  state of the locks.
- `GesturesEnd`: a two-finger gesture told by its timer after one finger was lifted; the tap
  after a gesture told by that timer.
- `PointerFollows`: view-only or drag mode switched in the middle of a press; a button
  released outside after another's release ended the capture; the drawn cursor puts its
  corner at a finger, and judges the place of a release until the pointer is heard of again.
- `TextFollows`: a change in front of a placeholder character types it; text typed while
  there is no RFB object is sent in the next connection; text typed while there is one that
  is not connected, or view-only, is lost for good, and a correction of it is sent as if it
  had arrived.
- `ControlsCoherent`: a click on the handle without a connection throws; another button's
  release ends the mouse capture, and the handle does not hear the left button let go
  elsewhere (both until the next click on it); view-only switched during a session leaves
  the power button.

Every property has a mutant: a definition changed as a plausible slip in the code would
change it, under which the run fails on that property.

### Bounds

- Two handlers, consoles, callers or tabs: every hazard found is between a process and
  its successor; a third one (`kvm_one_session`) only appears in the violation run.
- Three frames and two sizes (`kvm`): coalescing needs one frame shown, one overwritten
  and one pending.
- One power request and the collector: two concurrent statuses and one command; the
  counters stop at the number of requests.  The proofs cover any number.
- Two polls, two sensors, one crash and two stops (`store`): a poll to restore and one
  to record, a transaction to cut in half, a migration cut twice.
- Cache sizes 3 and 4 for 17, blocks of 4 and 2 pixels for 256 and 128, refresh marks 1,
  3, 5, 7 for 40, 11680, 120000, 12000000: order and boundaries are kept, and the
  proofs cover the code's values.  A firmware command has one or two bytes.  `Bytes` has runs of zeros
  of several lengths at either end, and `MaxZeros` passes the hunt mark of 30.
- `RunTop` = 2 stands for the continuation byte 255, `Slots` = 2 for six keys, `Limit` = 2
  for `maxFrameBytes`, `Budget` = 4 for the ME's 9216000 bytes: each is exceeded.
- `Pool` = 2 firmware sessions, five session names, one expiry (`web`): names are reused
  only when nobody holds them.
- `novnc`: two RFB objects (an old one and its successor) and four clicks; two updates of
  up to two rectangles, from eight kinds, and two user actions; a window of three
  widths and three changes; four key events over nine keys, each there for a special
  case of its platform; three fingers (the recogniser knows three kinds of gesture by
  their number; they are interchangeable, hence the symmetry) or two buttons and six
  events (the tap that `GesturesEnd` excepts takes seven, with which the property
  holds as well, in more time than the run has); seven moves of the cursor, six edits, eight clicks.  Streams put side by
  side what a decoder keeps between rectangles; they are cut at every byte.
- `RQSize` = 2, `MaxRQ` = 20 and `SQSize` = 6 for 4 MiB, 40 MiB and 10 KiB: the queue is
  compacted, grown, and refused.

### Fairness

Only steps the code takes by itself are fair: a goroutine that can go on does, and an
exchange that is bounded by a deadline or context ends.  Strong fairness is used for
Go's `select`, mutexes and the one database connection, which do not starve a waiter,
and in `power` and `store` for "polls succeed again and again", without which nothing
could catch up.  What users, BMCs, crashes and expiries do is not fair, with three exceptions that the
properties need: noVNC takes the messages of an open connection (`kvm`), the ME answers
(`consoles`), and a cached status runs out with time (`power`).  For the chart (`sol`) the
interval timer fires and an answer arrives again and again.  `novnc` has no fairness:
its properties say that whoever must act next has been asked to.  The unbounded AMT handshake has no fairness.

`CHECK_DEADLOCK FALSE` is set where a system may really stop: consoles that were closed,
streams that ended, a process that exited.

## 4. Proofs

Eight modules hold theorems, four of them after the component itself and four in a module
of their own; all are about safety and hold for all constants that
satisfy the named assumptions (`None` is no process, the cache has at most 17
entries, and the like).

- `KvmBridgeProofs`: types; `SlotNeverStuck`, from *SlotBacked*: a reservation has a
  connecting handler or a published session behind it.  `OneSession` and
  `BridgeImplementsSlot` hold until a session ends before its handler (`early`), from
  *Exclusive*: the holder is unique and Run is still running, so the goroutine cannot
  clear the slot.  `NothingLeftOpen`, from *Accounted*, follows who closes socket and
  web session on every path of the AMI and AMT bridges; the iLO bridge stays with TLC.
- `SolConsoleProofs`: types, with `errCh` never over its capacity (errors <= ended
  pumps); one owner, nothing left behind, refinement of the slot, unconditionally.
- `PowerPath`: types; an IPMI exchange holds the lock and a connected client; stale
  feedback only after a race, from *Newer*: every status on its way to the cache is at
  least as new as an acknowledged command no read overlapped.
- `TelemetryStore`: types; `HistoryComplete`, from *AllRecorded*: whatever is past its
  insert (about to be shown, shown, or in the snapshot) has its rows.
- `DvcCacheProofs`: usages of active entries are the ranks 0..active-1, through use,
  insertion and the pruning loop; the invariant carries the loop's prefix.
- `DvcDecoder`: types; pixels stay in the block; every colour of a cache of up to 17
  has a code, from: the state that reads ranks is the one for the cache's length.
- `IdracWeb`: types; a request is executed at most once (*NotYet*: a call under way
  has not been executed); one session, from *OneLogin*: a login runs alone, and calls past
  their look at `logged` carry the token of the cookie.
- `NovncSessionProofs`, for any number of connections and clicks.  `SessionAgrees`:
  `OneSession` is inductive with the types of the records.  Lemmas give the ways an object
  may move (stay, connect, or disconnect with one event told), what each handler of the
  page leaves alone, and that the page forgets an object in the turn it is disconnected;
  every action is then one of four kinds of step.  `WordStands`: `PageObeys` needs *Word*:
  after a no the object is on its way down with reconnecting inhibited (*NoHeld*); panel,
  reconnect timer and control bar timer exclude or need an object, and an open dialog is
  about the object there is or was asked for too late (*Tidy*); an object is
  awaited by a socket whose close is heard or by the disconnect timer (*Awaited*).

Only model-checked: everything temporal (fairness and ENABLED are beyond the prover),
`LruImplemented`, `BufferIsStream` and `CodeFirstBitFirst` (induction over sequences and
bits), the decoders and the handshake of noVNC (recursive over bytes), the migration, the
RFB server, the parts of `consoles`, of `web` other than `IdracWeb`, and of `novnc` other
than the session.

## 5. What is not modelled

The map covers over a third of the JavaScript and about 29 % of the Go code.  Left out, and why:

- Arithmetic on blocks and pixels, out of reach of enumeration: noVNC's ciphers and
  digests (AES, DES, MD5, RSA, DH, big numbers), base64, colour conversion, JPEG and
  the ASPEED codec with the frame it keeps.
- Tables: keysyms, XT scan codes, DOM key names; each special case has one entry in `NovncKeyboard`.
- Compression: pako is external; `NovncDecoders` keeps the position, the resets and the
  shared state of its streams and takes inflating for the identity.
- Feature tests, wording, localisation, logging, build scripts and layout of noVNC; its
  fullscreen, clipboard and quality controls, which set one property each; TightPNG,
  which overrides two methods of Tight.
- The iLO input cipher: `Send` takes keystream bytes without a lock from three goroutines,
  but when the firmware switches its receiving cipher is not in the source.  The
  decoder's command buffer: the firmware's commands are short, nothing enforces it.
- Pointer input of the bridges, which keeps no state; sensor, log and identity
  conversions; WS-MAN and Redfish documents; the merging of the configuration; page
  templates; the example host; the probe scripts.
