# Verification of thesada-app

thesada-app is the server side of a fleet of sensor units: a Go process beside
a PostgreSQL database and a Mosquitto broker. It enrols devices and issues
their certificates, ingests their telemetry and alerts over MQTT, notifies
subscribers, lets operators edit a device's files over an MQTT command line,
and serves a multi-tenant web UI and API. The pages bring their own programs:
a visual rule editor built on Blockly that generates the Lua a device runs, a
service worker, and the device tables. This directory models the parts of it in
which several actors meet (goroutines, HTTP requests, MQTT callbacks, sweepers,
devices, browser tabs and timers, crashes and failed statements), checks the models
with TLC on small instances, and proves the central results with TLAPS for
every instance.

A module's comments name the functions it models; `PROJECT.json` maps each
definition to its lines, lists the runs, the mutants that show that each
property can fail, the hazards and the findings.

## 1. Inventory

| component (source) | state | operations | meets |
|---|---|---|---|
| Alert ingest (`pkg/mqtt/mqtt_ingest.go`, `service/alert.go`, `quota.go`) | `device_alerts`, the retry slots | one goroutine per message: duplicate check, quota lock, insert, bounded background retry, dead letter | broker (QoS 1 redelivery), database, delivery |
| Alert delivery (`pkg/alerts`) | delivery columns of `device_alerts`, `alert_webhook_deliveries`, the in-flight set | `Dispatch` inline after an insert, `redispatchOnce` from a ticker | database, SMTP, Telegram, webhooks |
| Device enrollment (`service/enrollment.go`, `cert_status.go`, `api/v1/enroll.go`, `claim.go`, `web/device_claim.go`, `device_revoke.go`) | `device_enrollments`, `devices`, `device_certificates`, serial tombstones | announce, verify, claim, poll, ack, revoke, delete, prune | devices, owners, admins, boot sweep |
| Device CLI (`pkg/mqtt/mqtt_cli.go`, `mqtt_tap.go`) | a mutex per device, taps | request, paged answer, deadline | devices over QoS 0 MQTT |
| Device configuration writes (`web/admin_config.go`, `request_store.go`, `service/device_files.go`) | the write claims, the request store, `device_files` and its history | staged write, configuration read, release, polling | the CLI, operators |
| MQTT ingest gates and drift pull (`mqtt.go`, `mqtt_ingest.go`, `mqtt_snapshot.go`, `service/device.go`, `telemetry.go`) | devices, tombstones, observed shas | pairing gate, retained replay, pull of a drifted file | broker, devices |
| Certificates and admin pairing (`service/certificate.go`, `web/admin_pair.go`) | `device_certificates`, pairing columns | issue, push, confirm, revoke | devices, broker |
| Broker identity (`service/device_broker.go`, `mqtt/dynsec.go`) | broker clients and roles | reserve, create, tear down, reassign | Mosquitto dynamic security |
| Admin jobs and bulk deletion (`web/admin_job.go`, `admin_devices_bulk.go`) | the running job | start, poll, drain at shutdown | broker, database |
| Sessions (`service/auth_sessions.go`, `authmw`) | `user_sessions`, the browser's cookie | validate, rotate, impersonate, log out | browsers in parallel |
| Login (`service/auth_totp.go`, `auth_magiclink.go`, `auth_users.go`, `web/web_auth.go`, `web_totp.go`, `api/v1/auth.go`) | TOTP secret and last step, challenges, one-time links, passwords | password, JSON and link logins, challenge, reset, authenticator on and off | parallel requests, sessions |
| Waitlist and user administration (`service/auth_waitlist.go`, `auth_users.go`) | waitlist, users | sign up, approve, promote, delete | admins |
| OIDC login (`pkg/oauth`, `service/oauth.go`) | state cookie, identities | start, callback, link | identity provider |
| Secrets (`service/secret.go`, `pkg/secrets`) | per-tenant keys, sealed values | put, rotate key, rotate root key | restarts |
| Sweeps (`absence_sweep.go`, `cert_expiry_sweep.go`) | alert rules, alerts | periodic scan | ingest |
| Tenants (`service/tenant.go`), rate limiting, WebSocket hub, migrations | their own tables or maps | | |
| Rule editor (`static/js/blockly-rules.js`, `blockly/*_compressed.js`, `templates/admin-device-rules.html`) | the blocks, the event queue, undo and redo stacks, drag, field editor, clipboard, trash, the page's phase | drag, connect, heal, delete, paste, mutate, undo, redo, restore, seed, load a template, save | timers, fetches, the store |
| Generated rules (`static/js/blockly-rules.js`, `blockly/lua_compressed.js`) | on the device: streaks, sustained state, cooldowns | conditions, notify, reload; text and expressions written and read | EventBus, alert queue, Telegram |
| Devices table (`static/js/devices-table.js`, `templates/admin-devices.html`) | column choice in page and `localStorage`, filter, sort, selection | toggle, filter, sort, check, swap | htmx swaps, other tabs |
| Service worker (`static/sw.js`) | the caches of each version | install, activate, fetch, unawaited put | browser, deployments, network |
| Pages, PKI, transports, CSP/CSRF, configuration | none of their own | rendering, cryptography, I/O | |

What is hard here, and what "correct" means for the modelled parts:

* **Delivery.** Two workers may hold the same row; a send cannot be undone and
  its record is a separate statement; the process may die between them. Correct:
  exclusive claims, no send repeated unless its record was lost, "delivered"
  means delivered, every row is eventually closed.
* **Ingest.** The duplicate check, the quota count and the insert are separate
  statements of concurrent goroutines, and a commit's acknowledgement may be
  lost. Correct: one row per message, quota respected, no payload without a row or
  an error line once its handler went through, every call ends.
* **Enrollment.** Its endpoints are open to anybody, each request is several
  transactions, and the owner, an admin, a second tenant and the unit itself
  act on the same row. Correct: a certificate follows a code that was typed by
  the tenant it is issued under; nobody takes down another tenant's claim; a
  revoked serial stays revoked.
* **Device writes.** Commands and answers travel by QoS 0, chunk acks carry no
  request id, and the requests outlive the page that started them. Correct: the
  live file is never a fragment or a mixture, an answer belongs to its question,
  a stored copy is what the device holds, every request ends.
* **Sessions.** The token is replaced every four hours while parallel requests
  carry the old one, and the new one travels back in an answer that may be late
  or lost. Correct: rotation strands no browser and refuses no request in
  flight, a logout ends the session, the audit tells whom an admin acted for.
* **Login.** Codes, challenges and links are meant to work once, and each check
  is a statement that a parallel request may pass too. Correct: once is once,
  guesses are bounded, no failure skips the second factor.
* **Rule editor.** Events are queued, filtered and recorded a frame and a timer
  after the change they describe, while the user goes on, undo replays them, and
  templates and delete-all timers change the blocks meanwhile. Correct: the blocks
  stay a forest whose plugs fit, undo leads back, and the stored blocks generate
  the stored Lua.
* **Generated rules.** Readings stop and come back, sends fail, rules share keys,
  the file is reloaded. Correct: alerts are earned, none is missed, the cooldown
  holds while a file stays loaded, and what is written is read back as it was
  meant, or the file is refused.
* **Devices table.** Every live swap replaces the DOM that holds half of the
  state. Correct: no hidden row is selected, the view is what its user chose.
* **Service worker.** A new version deletes the old one's cache while the old one
  still answers and stores. Correct: offline answers come from the worker's own
  shell and are stale only after a race.

## 2. Plan

Order of work, most important behaviour first:

1. `AlertLifecycle`, `AlertDelivery` and their proofs - done.
2. `AlertIngest` - done. 3. `Enrollment` - done. 4. `DeviceCLI`,
   `DeviceWrite` (which instantiates it) - done.
5. `Session`, `Login` and the proofs of the latter - done.
6. `BlockForest` and `RuleEditor`, `RuleRuntime`, `RuleText`, `RuleLogic` and
   `LuaHelpers`, `DevicesTable`, `ShellCache` - done.
7. The proofs of delivery, ingest, enrollment, device writes, sessions, login, the
   generated rules and their text, the devices table and the service worker - done.
8. `Certificates` with admin pairing and the broker identity, at the
   granularity of statements; the bulk deletion job and its drain.
9. `Secrets`: key rotation that may be interrupted at any row and resumed.
10. `Ingest`: pairing gate, tombstones, retained replay, and the drift pull in
    chunks; the absence and certificate-expiry sweeps against ingest.
11. OIDC linking, the waitlist, tenant deletion, rate limiter window, WebSocket
    hub, migration.

## 3. Modules

Common conventions. One action is one SQL statement or transaction, one send,
or one critical section, so that everything that can interleave in the code
does. A request or goroutine is a record with a program counter; what it read
earlier is kept in the record, because the code keeps it in a local variable.
A failed statement costs one of `MaxFaults`, a dying process one of
`MaxCrashes`; with the budget spent, they no longer happen.

### AlertLifecycle, AlertDelivery (`MCAlertDelivery`)

`AlertLifecycle` is what delivery promises: a row is pending, is tried at most
`MaxAttempts` times, and ends in `delivered`, `none` or `dead`, for good.

`AlertDelivery` is the code. `row` holds the delivery columns, `hooks` the
table `alert_webhook_deliveries`, `inflight` the `Notifier` field, `worker` the
`Dispatch` call of each goroutine (one inline dispatch per alert and the
sweeper), `batch` the rows a sweep pass has still to visit. A `Dispatch` claims,
loads in three statements, sends per subscription (success, failure or panic),
records each webhook, and records the attempt; `Crash` ends all workers and
`Restart` begins with an empty in-flight set. `sent` and `lost` are history.
Rendering, transport and error texts are abstracted to the outcome of the send.
One process instance is assumed, as the code assumes: the claim is in memory.

### AlertIngest (`MCAlertIngest`)

`rows` is `device_alerts` in commit order, each row with the age class that
tells the duplicate window and the quota day apart; `call` is the handler or
retry goroutine of a message; `lock` the tenant's advisory lock; `slots` the
retry semaphore. Actions: the handler's early exits, the duplicate SELECT, the
lock, the count, the INSERT, the commit with its acknowledgement lost or not,
`scheduleInsertRetry`, the sleeps, the dead letter, `finishAlert`, and handler
panics. Retry delays and the window keep their values in seconds, so that the
assumption "the retries fit into the window" is one TLC evaluates.

### Enrollment (`MCEnrollment`)

One device id, several keys under it (the real unit's and a stranger's), the
codes (`Tokens`) each unit may show, two tenants. `enrollments`, `devices`,
`certs` and `tombstones` are the tables; `units` what the hardware stores;
`calls` the requests in flight, each stopped between two of its transactions.
Announce, the two transactions of verify, the claim form's lookup and
`ClaimInto`, the poll's read and its later issue, the ack, the revocation
status, the owner's revoke, the admin's revoke and delete, `Prune` and the boot
sweep are actions of their own. Polls and acks come from whoever presents the
code of the row (`CodeHolder`): the endpoints ask for no more, so a stranger that
read the code off the unit may have a certificate issued or acknowledge one that
the unit never heard of. `verified_at` is a logical clock. The rate
limits and the broker provisioning of a claim are not part of it.

### DeviceCLI, DeviceWrite (`MCDeviceWrite`)

`DeviceCLI` is `CLIRequest`, `CLIRequestRaw` and `awaitPagedCLIResponse`: the
mutex of a device, the command and reply channels, tap matching by `req_id` or,
for the raw commands and for old firmware (`EchoReqID = FALSE`), by command
name, the assembly of pages and the deadline. Messages may be lost, garbled and
late. `DeviceWrite` instantiates it and adds the device (`live`, `staged`), the
claim, `stagedWrite` (chunks, size, rename, clean-up), `runCLIWrite` with both
its releases, `runCLICmd`, the request store (`entry`) and `Upsert` as its read
and its commit. One device and one path, so the path part of an ack always
matches; equal-length chunks, so that sizes cannot tell two contents apart; the
tap's buffer of 64 is not modelled. Reads store their snapshot under
`config.json` and writes under `/config.json`, as the code does. `dirty` is
history: `"leavings"` when a write began while another ran, or while the staged
file of an earlier one, or a command to it, was still there; `"taken"` when the
deferred release of a write deleted the claim of a later one.

### Session (`MCSession`)

One `user_sessions` row of a super-admin and the browser that holds its cookie.
`row` has the current and the previous token, with the three clocks as flags:
`fresh` (the previous token is in its 60 s grace), `due` (the token is older
than `sessionRotationInterval`) and `expired`. `req` are the requests under way,
from the cookie they left with to the `Set-Cookie` that comes back; `lock` is the
row lock of an open transaction; `audit` the impersonation rows. `missed` is
history: tokens whose cookie never reached the browser, because the answer was
lost, the commit's acknowledgement was lost, or `APIMiddleware` refused the
request by CSRF after the rotation (it answers 403 before it sets the cookie,
where `apiauth.go` says "A rotated session cookie is refreshed on the
response."). Two assumptions about time: the grace ends before the next rotation
is due, and no answer that carries a new token is under way for four hours.
Bearer tokens are not modelled.

### Login (`MCLogin`)

One password account. `user` is its row (secret, `totp_last_step`, password),
`links` and `challenges` the one-time rows, `calls` the requests, stopped between
their transactions, and `now` the 30 s time step. A code is the secret and step
it was computed from, and is right in a window of one step either side.
`FinishTOTPLoginAny` is split where its transaction can interleave: its SELECT
takes no lock, `acceptTOTPCode` locks the users row until the commit, and
nothing it wrote is visible before. `sessions`, `told` and `resets` are history.
A transaction that fails rolls back; one that commits with its acknowledgement
lost is not modelled here (the call ends without a session). Rate limits only
refuse calls, and a refused call is one that does not arrive.

### BlockForest, RuleEditor (`MCEditor`)

`BlockForest` is the data: the block definitions (the page's own and Blockly's
logic and text blocks), the workspace as a function from block ids to records
with parent and slot, `canConnect` and its type checks, saving a block as a tree
and `appendPrivate` loading it, and `generateLua` as the tree of blocks that
generate code. `RuleEditor` is Blockly's core as the page uses it. `ed` holds what
every operation touches (workspace, `FIRE_QUEUE`, event group, `recordUndo`, drag,
field editor, delete-all, the comparison's memory); each method is an operator
from such a record to the next and each user gesture, timer or fetch an action
that applies one. So `connect` disconnects, displaces and rehomes, `dispose`
heals, `filter` merges and reorders, `flush` fires the listeners (undo stack,
comparison, trash), and `undo` takes a whole group and runs it, with the
exceptions and early returns of each. The page around it restores or seeds, may
fail to, loads templates that arrive later, and saves. `past` is history: the
workspace the record began with, whether it can still be reached, and whether an
operation was `hurried`, that is, came before the queue was flushed.

Left out: coordinates, layout, insertion markers, the moves that bump a block
aside, UI events, selection, shadow blocks and variables, collapsing, inline
inputs and comments; more than one else-if; saving and deleting of templates.
A click in the flyout is a drag and a drop, a push is a save and a write of
`DeviceWrite`.

### RuleRuntime, RuleText, RuleLogic, LuaHelpers (`MCRules`, `MCEditor`)

`RuleRuntime` is the generated file on the device: `tab` has the preamble's
tables by key, `Reading` hands one event to the subscribed conditions in file
order, each with its code (`if_temp`, `if_current`, `if_battery`, `notify`), and
`Reload` empties the tables. `Handled` runs the conditions one after the other,
each on what the ones before it left, so that a cooldown started by one silences
the next of the same key. `watch` and `acked` are what an observer of the
readings and of Telegram knows. Time is in the ratios of the code: a sustained
alert after three readings or 4 units, a cooldown of 5.

`RuleText` is the text that is written and read back: `esc` and `alert_json`
with its cut to the queue slot, against readers of Lua strings and of JSON. Text is a
sequence of byte classes (NUL, quote, backslash, line break, other control,
continuation, other); Lua's reader refuses a line break inside the quotes.
Whatever walks a text, the writers and the readers alike, is one operator `Run` that
folds a step over it, so that the module needs no recursive operator.

`RuleLogic` is `valueToCode` with its precedence numbers, against a reader of Lua
expressions.

`LuaHelpers` are the functions Blockly's list, number and text blocks write into
a file. The toolbox has none of these blocks, but they are registered, so a
stored workspace that names one runs them. Colours, random choices, the standard
deviation, prompts and the non-numeric items of a list are left out.

### DevicesTable (`MCBrowser`)

`page[t]` is a tab: the table the server last rendered, its rows in DOM order,
hidden columns and rows, selection and counter, the filter input, `sortState`,
`memoryOff`, the menu's boxes. `storage` is `localStorage`, shared by the tabs,
and `broken` says that it throws. A sort key is its number and its rank as text.

### ShellCache (`MCBrowser`)

`stored` are the caches by name, each with what it holds and with the caches
older than it, for `caches.match` asks them in the order of creation; `worker[v]` the life cycle of a version; `req` the fetch events
under way; `puts` the cache writes nobody waits for. The browser may stop a worker at
any point, and content changes with deployments.

## 4. Runs

`pass` runs:

| run | instance | shows |
|---|---|---|
| `delivery_race` | 1 alert, email and 2 webhook subscriptions, budget 2, 1 fault, 1 crash | `TypeOK`, `ClaimExclusive`, `NoResend`, `DeliveredReachesStanding`, `TerminalStable`; `ImplementsLifecycle`, the refinement of `AlertLifecycle` |
| `delivery_sweep` | 2 alerts, batch limit 1, sends may all fail, 1 crash, fair | `EventuallyClosed`: the sweep starves no row |
| `ingest_retry` | 3 messages, 2 with one payload, 1 slot, quota 2, 3 faults, 1 crash, fair | `StoredOncePerMessage`, `QuotaHeld`, `NoSilentLoss`, `EveryCallEnds` |
| `enroll_claims` | 2 keys, own and foreign code, 2 tenants, 2 requests in flight, 1 fault, 1 admin operation | `CertFollowsCode`, `OrphanHasCause`, `BackedClaimSurvives`, `RevokedForGood` |
| `write_faults` | 2 two-chunk writes, a write and a two-page read, or 3 reads; any 2 faults, fair | `HalfNeedsLeftover`, `AnswerIsOwn`, `StoredIsHeld`, `EveryRequestEnds` |
| `session_rotation` | 2 parallel requests, 2 rotations, 3 impersonation changes, 1 fault | `CookieLives`, `InFlightAccepted`, `AuditNamesTenant` |
| `login_race` | 4 requests, 2 at a time, a login and a reset link, a challenge with cap 2, 2 time steps, 1 fault | `CodeSignsInOnce`, `ChallengeSignsInOnce`, `LinkWorksOnce`, `GuessesBounded`, `SecondFactor` |
| `editor` | editor: 4 stored workspaces and a broken one, 2 templates, 3 operations (1 after the seed), 6 blocks; rules: 4 files, 2 levels, uptime 16; texts of 5 bytes, expressions of depth 3, lists of 5 | `WellPlugged`, `UndoReturns`, `StoredAgrees`; `AlertEarned`, `NoMissedAlert`, `CooldownHeld`; `TextReadsBack`; `ExprReadsBack`; `HelpersDefined` (`HelpersAgree`) |
| `browser` | tables: 2 tabs of the live list with 2 rows, or the admin list with 3; worker: 3 versions, 2 assets, 2 requests and 2 puts at once, 2 contents | `SelectionIsShown`, `ViewFollowsChoice`; `AnsweredFromOwnShell`, `StaleNeedsRace` |

Deadlock checking is off where the system may stop: all requests answered, all
messages handled, all bounded counters used up.

Four runs explore more than one situation in one instance. `write_faults`
chooses one of `Mixes` at the start. `enroll_claims` follows a behaviour while it
is in one of two bounds: `Strangers`, two keys and a wrong code around the claim
of one tenant, where anybody who holds the code polls, one at a time, with no
fault; or `TakeDown`, one unit that two tenants claim and take down, with a fault,
acks of a stranger too, and polls of one once the fault happened. `editor` and `browser` choose a
`part` at the start and stay with it, because their parts share no state: a
product of them would show nothing more. In the editor's part an operation that
does not wait for the events before it costs two of the `MaxSteps`.

`violation` runs: each shows a disagreement between the code and what the
repository says of it, a finding in `PROJECT.json` with the quoted line.

| run | instance | shows |
|---|---|---|
| `write_double_release` | 3 writes of one file that overlap, no fault | `LiveWhole` fails: the deferred release of the first write deletes the claim of the second, and the third mixes its chunks with the second's |
| `redelivery_twice` | 2 deliveries of one payload, no fault, no crash | `RedeliveryNotifiesOnce` fails: both pass the duplicate check before either row is committed, and both rows are dispatched, where `docs/invariants.md:1231-1233` says a redelivery cannot notify twice. The theorem `DuplicatesOverlap` gives the extent: without such an overlap the window holds |
| `rules_twin` | a file with one sustained condition twice | `AlertEarned` fails: both blocks compute one key, each reading counts twice, and the alert comes early, against the tooltip at `blockly-rules.js:194`. In `editor` it holds, for files whose counting blocks have keys of their own, which is also the hypothesis of its theorem |

Seen while modelling, reproducible in the modules and without a run of their own:

* *Delivery, ingest.* A webhook POST that succeeded is repeated when
  `markWebhookSent` failed after it (`NoResend` counts exactly these). An alert is
  lost with the process alive and its payload in no log line when the bump of the
  device fails (`mqtt_ingest.go:169-173`) or the handler panics
  (`mqtt.go:251-259`); `docs/runbook.md:77` names two error lines to replay from,
  neither of which these write. `NoSilentLoss` is about the calls that got past
  both.
* *Enrollment.* Proving oneself again moves `verified_at`, so the first unit
  loses its place. A poll reads `cert_delivered_at` in one transaction
  (`enroll.go:275`) and issues in a later one (`enrollment_policy.go:205`), so it
  may issue after the acknowledgement of another poll, and revoke the
  certificate the unit stored.
* *Device writes.* Also one write at a time may leave a half-written file: the
  first write's `fs.write` ack is late, its clean-up `fs.rm` is lost or never sent
  because its deadline passed while it waited for the CLI lock
  (`mqtt_cli.go:186`), the second write's `fs.write` is lost, and the late ack is
  taken for it, as raw acks carry no `req_id` (`mqtt_cli.go:132`). The leftover is
  not simply overwritten, as `admin_config.go:491` has it; `HalfNeedsLeftover`
  says that nothing but a leftover or an overlap can do it. An unanswered rename
  is reported as a failure though it happened. With firmware that echoes no
  `req_id` (`EchoReqID = FALSE`) a late page answers the next read. Two concurrent
  `Upsert`s name the same predecessor in the history.
* *Sessions, login.* A logout whose own validation rotates the token deletes by
  the old token and the session stays (`web_auth.go:112`, `117`).
  `handleTOTPConfirm` replaces a stored secret without looking.
* *Rule editor.* Undoing a change of an if block's arms drops the blocks of arms
  that stay; the filter moves the mutation out of its group to the queue's front.
  An undo that follows an operation whose events were not flushed may plug a block
  below itself, and the page hangs (`WellPlugged` says when). The comparison's
  put-back may take a block out of a drag. Loading a template is not recorded but
  clearing the workspace for it is. A template that fails to load leaves a
  half-filled workspace with saving enabled, `recordUndo` off until the next undo
  and its group open; a failed restore leaves `recordUndo` off for good. The timers
  of delete-all close the group of a drag under way. The trash gives disabled
  blocks back enabled. `generateLua` always returns the preamble, so "nothing to
  push" never shows. A notify block under an if outside any condition has a nil
  `key`: the tooltip at `blockly-rules.js:341` counts on an enclosing condition.
* *Generated rules.* A field with a line break in it, which the editor's inputs
  do not take but a stored workspace or template may hold, makes Lua refuse the
  whole rules file: `esc` (`blockly-rules.js:108-110`) leaves the break as it is,
  where Blockly's own `quote_` (`lua_compressed.js:376`) escapes it.
  `TextReadsBack` says so: a field is read back exactly when it has none. In an
  alert a line break is escaped and survives. A reload forgets when Telegram last
  took an alert, so `CooldownHeld` is about one load of the file.
  `list_string_split` and `text_replace` never end on an empty delimiter or needle,
  the former searches by Lua pattern, and `text_titlecase` takes a second space in
  a row for the beginning of a word.
* *Devices table.* The comparator is cyclic on "9", "10", "1a", and the order
  then depends on the sort; of two tabs that change columns the last one wins.

Why the bounds are enough. Every race in these components is between two actors
on one row, lock or file, with a third only where one must take what the second
lost (`write_double_release` has three writers). A retry budget of two has a
first, a last and a repeated attempt, and a cap of two wrong codes a last guess
with another in parallel. A second tenant, key, code or payload is
there where a property tells one's own from a foreign one. Two lost messages
are what a half-written file takes with one write at a time, and three versions
of the worker what a put into a deleted cache takes. Three operations are a
change, one that meets its queued events, and an undo or redo; the stored
workspaces are chosen so that one operation is enough to displace, heal, mutate
or mismatch. Three readings fill a streak, a gap and a cooldown of the instance
end within its uptime, and a text of five bytes holds an escape, a continuation
and more than the slot has room for.

## 5. Fairness

* A goroutine that can run does: weak fairness on each worker's or call's next
  step. Locks are released in a `defer`, so weak fairness of the holder is
  enough for the others.
* Tickers fire, sleeps end, deadlines come, backoffs elapse: weak fairness.
* The service manager restarts a dead process (`Restart`, weak).
* Nothing is assumed of sends, devices, networks, users or the arrival of
  messages; the browser modules have no liveness property.

## 6. Proofs

Eight modules prove every property of `delivery_race`, `ingest_retry`,
`enroll_claims`, `write_faults`, `session_rotation`, `login_race` and
`browser` that is a safety property, and the four of `editor` that speak of
the running file and of its text, for every value of the constants that the named
ASSUMEs of the modules allow. Each defines an inductive invariant, shows that every
action keeps it, and derives the properties.

`AlertDeliveryProofs` (any sets of alerts, devices and subscriptions, any budget,
batch limit and number of faults and crashes):

* `TypeCorrect`: `Spec => []TypeOK`;
* `ClaimsExclusive`: `Spec => []ClaimExclusive`;
* `TerminalIsStable`: `Spec => TerminalStable`, an action property;
* `RefinesLifecycle`: `Spec => ImplementsLifecycle`, every step maps to a step or
  a stutter of `AlertLifecycle`.

They rest on one inductive invariant, `CoreInv`: types; `Working`, a worker that
is past `claim` works on a stored alert while the process is up;
`ClaimExclusive`; `Budget`, a worker that will write an attempt has one left;
and `SnapCurrent`, the attempt count and status the worker loaded are still the
row's. The last is the point of the argument: the UPDATE that records an attempt
is computed from a value loaded several statements earlier, and it is exact only
because the claim kept every other writer away in between. `ClaimExclusive`
alone does not say so and is not inductive without `Working`.

* `NoResendHolds`: `Spec => []NoResend`. `ResendInv` adds `CallsOK`, what a call
  in progress knows of its channel's flags and of each webhook's record, and
  `Counted`, which balances sends, records and losses per subscription at every
  program counter: a send is known to the database, fresh in the claimed call, or
  lost.
* `DeliveredReaches`: `Spec => []DeliveredReachesStanding`. `ReachInv` says that the
  recipients a call counted include every subscription that was there all along,
  and that a flag, in the call or in the row, means that somebody on that channel
  was reached; so "all sent" means all of them even when the loaded snapshot is
  stale.

`AlertIngestProofs` (any messages, payloads, quota, retry limits, faults, crashes):
`QuotaIsHeld`, `StoredOnce`, `NothingLostSilently` (of the calls that end as
stored, duplicate or failed), `SlotsNeverLeak` (the slots in use are the retry
goroutines that run) and `DuplicatesOverlap`, which bounds what `redelivery_twice`
shows: a second row of a payload in the window had its duplicate check before
the first row was committed. `IngestInv`
is made of

* `SlotsOK`, with the cardinality of the goroutines; `LockOK`: under a quota whoever
  is about to insert holds the advisory lock, and then there is room - the count
  alone would be stale by the time of the INSERT;
* `DupOK`: the rows a call had before its duplicate check hold nothing it
  duplicates in the window, so a duplicate was committed after the check;
* `StoredOK`, for `StoredOnce` only: a retry's own row is still in the window when
  the retry looks for it. It needs `RetrySpan < DedupWindow`, which the theorem has
  as its hypothesis and the delays of the code satisfy.

`EnrollmentProofs` (any keys, codes, tenants, users and calls):
`CertificateIsAuthorised`, `OrphansAreExplained`, `ResetsSpareOthers` and
`RevocationIsFinal` (two action properties), on `EnrollmentInv`. `CodesOK` follows
the authorisation through the tables and through what each call carries between
its transactions: rows, claims, and calls that are about to issue. `SerialsOK`
keeps serials fresh, without which a revoked one could be handed out again.
`OrphanHasCause` is kept because no step forgets a reset it owes. `NoneIsNoRow`
only says that the model's "no row" is not a row.

`DeviceWriteProofs` (any writers, readers, chunks, pages and faults):
`AnswersAreOwn`, `HalfFilesNeedLeftovers` and `RowIsWhatIsHeld`, under the
hypothesis `EchoReqID`: the firmware echoes `req_id`, as it does since the version
the code names for it; without it a late page may be taken for another's.
`AnswerInv` types the two channels and says that an enveloped request took only
answers of its own, though a raw one may have taken another's. The invariant of
the file is about a writer that nobody overtook: the queue and the staged file hold
only its chunks, in order and none twice (`QueueOK`, `StagedOK`), so that as many
bytes as it sent are its whole content (`SizeTold`, `RenameWhole`), whichever ack
it was told. An ack may be late and belong to an earlier chunk, and the size check
is what makes up for it. Writing the proof showed that `StoredIsHeld` does not
follow from the absence of leavings: with three writers the deferred release of
the first deletes the claim of the second (the cause of `write_double_release`), a
third write starts, and the second stores a row that the device no longer holds.
The property names that case now (`"taken"`).

`SessionProofs` (any requests, tokens, tenants, audit entries and faults):
`CookieStaysAlive`, `GoodRequestsAccepted` and `AuditTellsTenant`. `SessionInv`
relates the browser, the row and the answers under way: `TokensOK` (an answer that
carries a token carries the row's own, since a row that is due has neither grace
nor such an answer left - the two assumptions about time), `CookieOK` (the cookie
is the row's own token, or that token is on its way or was missed; the previous
token never has to save it), `InFlightOK`, and `LockOK` (who is about to clear the
tenant holds the row and knows the tenant).

`BrowserProofs` holds the proofs of two specifications that share nothing.

`ShellCache` (any versions, assets, requests, puts and contents):
`OwnShell` and `BehindNeedsRace`, on `ShellInv`. When a version reads the names to
delete, every cache older than its own is among them, and a cache that a late put
creates again, at whatever moment, is younger; so once the deletions are done no
cache is asked before the version's own (`OwnCache`). `InStep`: an asset that no
race has touched has one request or one put under way, the put has the newest
answer, and when there is none the cache has it.

`DevicesTable` (any rows, columns, filters, tabs and sort keys; `TableAssumption`:
the columns hidden by default are columns, a list is a sequence of rows, a sort key
is a pair of numbers): `BulkSeesSelection`, that is `SelectionIsShown`, and `ChoiceIsShown`,
that is `ViewFollowsChoice`. Between two handlers a page's selection is counted
and shown, and its own choice of columns is the one last made on it, also when
`localStorage` refused to keep it (`TableInvariant`). Every handler, and every swap of the
table by the server, ends in `apply`, which makes the view agree with the choice
from any page that meets these two, whatever order the new rows come in: the
comparator never says of two rows that each comes before the other, which is all
that the sort needs. It need not be transitive, and is not (section 4).

`RuleProofs` (any rules files, delays, limits and uptimes, any text):

* `CooldownIsHeld`: `Spec => CooldownHeld`, for every file and while it stays
  loaded. `Tables` says that a cooldown started exactly when Telegram last took
  an alert of the key, and `Cooled` follows that through the handlers of one
  event, which share the row;
* `AlertIsEarned` and `NoAlertMissed`, for the files with `CountersApart`: two blocks
  that count readings do not have the same key. It is a real hypothesis: `rules_twin`
  violates it, and with it `AlertEarned`. `Follows` relates the row, which is cleared after
  an alert and counts on while the key cools down, to what the observer saw of the
  rule: the row's streak is part of the observer's run, never longer and never
  older, and the silences are measured alike; and the readings that brought no
  alert are never more than the row has counted.

`Handled` is recursive over the rules of the file. The induction is over the
sets of rule numbers that are not reached, by `CountUp`, which is proved from the
well-foundedness of the subsets of a finite set.

* `TextIsReadBack`: `TextSpec => TextReadsBack`, for every text and wherever it is
  cut into key and message, and for all sizes with room for a code of full length
  (`TextAssumption`: `FRAME + CODE_MAX <= ALERT_MAX`). A fold over a text with one
  byte more takes one more step (`RunAppend`), so that what holds of every text is
  shown byte by byte (`SequencesUp`, by `CountUp` over the lengths). `esc` writes a text
  byte by byte, since its two replacements, one after the other, come to one
  literal per byte (`EscEach`), and `LuaRead` undoes each (`EscIsRead`) up to the
  first line break, at which it breaks off for good (`LuaRefuses`), so that a field
  is read as entered exactly when it has none (`FieldIsRead`). The
  characters of a text joined again are the text (`CharsEach`). The loop of
  `json_body` keeps that its body is a run of whole characters that fits and that, once
  one was refused, the next one does not (`Filled`); with the size growing by every
  character (`SizeGrows`) that run is the longest. `JsonRead` undoes each
  escaped character (`CharIsRead`);
* `PrimesHaveTwoDivisors`, for every number: the trial division of `math_isPrime` says
  prime exactly of the numbers with two divisors. Each composite number has a
  divisor up to its root (`SmallDivisor`), the loop runs past the root, and a divisor
  it skips is a multiple of 2 or 3, which were tried before. TLC checks the same
  within `HelpersAgree`, for the numbers that a list of ternary digits writes.

`LoginProofs` proves every property of `login_race` for any numbers of requests,
secrets, links, challenges, time steps and faults and any cap (`LoginAssumption`):
`LoginTypeCorrect`, `CodesSignInOnce`, `ChallengesSignInOnce`, `LinksWorkOnce`,
`GuessesAreBounded` and the action property `SecondFactorHolds`. They rest on the
inductive invariant `LoginInv`, whose parts lean on one another:

* `LockOK`: the call that has updated `users` in its open transaction is the one
  that holds the lock, and the step it will store is still newer than the stored
  one, since nobody else could write in between;
* `StepsOK`: the step of every session, and of every call that is about to open
  one, is at most `totp_last_step`, and no two are equal; that is why accepting
  only newer steps makes a code work once;
* `ChallengesOK`: a challenge that signed in, or is about to, is deleted;
* `LinksOK`: a used login link is held by at most one of a call, a challenge and
  a session, and moves from one to the next;
* `GuessesOK`: codes rejected equal attempts counted, and a challenge that still
  exists has one left;
* `FactorOK` and `CallsOK`: what the place a call has reached says of the secret
  it read and of its other fields.

Most actions have one of three shapes - a request arrives, a call reads and goes
on, a call ends - and each shape is shown to keep the invariant once; the actions
that write `users`, a link, a challenge or a session have a lemma of their own.

Only model-checked:

* liveness (`EventuallyClosed`, `EveryCallEnds`, `EveryRequestEnds`), which is
  outside TLAPS; the refinement is of the safety of the lifecycle;
* `BlockForest`, `RuleEditor` (`WellPlugged`, `UndoReturns`, `StoredAgrees`) and
  `RuleLogic` (`ExprReadsBack`), which walk trees with recursive operators that the
  prover does not handle;
* `LuaHelpers` (`HelpersAgree`) but for the primes: sorting and folding in the
  community modules are defined by a choice among functions, about which nothing can
  be proved without induction over the data.

## 7. Not modelled

Message rendering, transports and page templates; a webhook payload that cannot
be marshalled; a load that panics for ever; several server processes; rate
limits; broker provisioning during a claim and its identity conflicts; lock
order deadlocks inside PostgreSQL; panics outside `Upsert` in a device write.
Of Blockly, what the page does not reach or shows only on the screen: rendering
and layout, the zoom and scroll of the workspace, the keyboard cursor, XML, the
definitions of blocks the toolbox lacks, and the message table `msg/en.js`.
The components marked `not_modelled` in `PROJECT.json` with "Planned" are the
rest of the plan above; the others are rendering, cryptography or I/O.
