# Verification of Guardiana

Guardiana watches what the devices of a home ask the network for. It is a DNS
resolver that keeps an extract of every query, lets the household cut some of
them by rule, and puts the computer's DNS settings back when it leaves. Around
that core the repository also has a panel, a licence, an encrypted
conversation (SECURE), a relay and a confinement runtime (ZERO).

This directory holds TLA+ modules of the core, of the relay and of the
protocols of SECURE, TLC configurations that check them on small instances, and proofs that TLAPS checks for every value of the
constants. Paths below are relative to `src/`.

1. [Inventory](#inventory)
2. [The modules](#the-modules)
3. [Runs](#runs)
4. [Bounds and fairness](#bounds-and-fairness)
5. [Proofs](#proofs)
6. [What the checks showed](#what-the-checks-showed)
7. [Not modelled](#not-modelled)
8. [Plan](#plan)

To check a run: `tlc -workers 2 -config EngineRecord_all.cfg MCEngineRecord`.
To check proofs: `tlapm EngineRecordProofs.tla`.

## Inventory

`PROJECT.json` lists the same components with their source files, and the
hazards with the line where each one bites.

### The core: the path of a query

| Component | State it keeps | Operations | What makes it correct |
|---|---|---|---|
| **Extract chain** (`crates/core/src/ledger.rs`, `retention.rs`) | rows of `events`, each naming the hash of the one before; in `settings` the anchor, the head, the count ever appended, the pruned rows; the schema mark | append, prune, wipe, verify | a spoiled file never verifies again by itself; a whole file is never accused |
| **Rules** (`crates/core/src/rules.rs`, `crates/lists`) | none: pure functions | decide, cut by alias, cutting rules, for a level | one deciding rule, what a device needs is protected, an allow stands |
| **Rule writers** (`crates/panel/src/api.rs`, `contratos.rs`, `reglas_cmd.rs`) | the table `rules`, the age of each device | create from the panel or a device's page, maximum protection on and off, a contract's cut, undo, undo of today, wipe | what is listed as cut is cut; a device's page does not lift what the household cuts |
| **Resolver engine** (`crates/cli/src/engine.rs`) | `RuleCache` (rules, version, when looked at), `devices_seen`, one mutex | start a pass, decide, decide again by alias, refresh, stop | every change reaches the resolver; 24 hours are watched before a wide cut |
| **Recording** (`engine.rs`) | table of pending queries, queue of those waiting for their program, what the writer task has in hand | decide, record, tick, drain, wipe | no query lost, none written twice, in the order they came |
| **System DNS** (`crates/service/src/sysdns`, `engine.rs`, `dns_cmd.rs`, `api.rs`) | `settings.dns_backup`, the resolvers of every interface, `Aparte`, the mutex `CAMBIO` | apply, restore, watch of every minute, step aside, come back, give back on stop | no interface is left asking a port that nobody answers or without a way back |

How they meet. The DNS server calls the engine's `decide` before it asks
upstream and `record` when the answer comes; a task of the engine writes to the
extract a second later. The panel runs inside the same process and writes the
same SQLite file through a connection of its own, and so do the commands of
`guardiana` from *another* process: the engine learns of it only through
`settings.rules_version`. The DNS of the computer is a third shared state:
panel, watch and stop exclude each other with a mutex of the process, and the
terminal is not part of it.

Hard: a request checked under one hold of the ledger and written under another,
two statements that read rules and version with a writer between them, a change and its version being separate commits, a copy of the DNS read before
the lock and used after it, a process that dies between two settings, rows out
of the queue and not yet in the file, a wipe that meets rows on their way.

### The rest of the engine's house

| Component | State, operations, hard behaviour | What would make it correct |
|---|---|---|
| **DNS server** (`crates/dns`) | sockets, cached upstreams, probe of port 53; concurrency limits, timeouts, retries between upstreams | an answer belongs to its question; a silent upstream does not silence the house |
| **Classifier** (`crates/classify`) | pure: a domain to a category, plus features of a name | deterministic and bounded |
| **Devices** (`crates/devices`) | readings of the ARP table and of names | a device keeps its identity across addresses |
| **Licence** (`crates/license`) | token, high-water clock, grace, trial; renewals over the network | the clock never goes back, grace ends, no answer is not a refusal |
| **Command line** (`crates/cli/src/*_cmd.rs`) | none of its own; opens the ledger beside the service | same rules as the panel |
| **Panel server** (`crates/panel`) | sessions, request bodies, files of cases and revisions | a request that fails leaves nothing half done |
| **Contracts and watch** (`contratos.rs`, `vision.rs`, `vigilancia.rs`) | contract of each program: learning, sealed, warnings, cuts | a warning is given once and is not lost |
| **Reports and measures** (`report.rs`, `stats.rs`, `export.rs`, `medidas.rs`, ...) | pure readings of the extract | counts agree with the rows |
| **Programs** (`crates/apps`) | who owns a socket, per system | best effort |
| **Verifier** (`crates/verify`) | pure: walks an exported chain | agrees with `Ledger::verify_chain` |
| **Home network and daemon** (`crates/service/src/home`, `daemon`) | firewall rules, hotspot, service registration | what it opens it closes |
| **Decoy server, lists data, build scripts** | TypeScript worker, vendored lists, scripts | not part of the running resolver |

### SECURE, the relay and ZERO

| Component | State, operations, hard behaviour | What makes it correct |
|---|---|---|
| **Relay** (`crates/rele/src/lib.rs`; the end that knocks, `crates/zero/src/rele.rs`) | three tables under three locks: `esperando`, `moviles`, `activas`; a task for each connection, a sweep, requests for TURN credentials; an end may be gone without the relay's knowing | two ends that keep knocking at one room are joined; the count of a room is its bridges; a room in use is known |
| **SECURE, the layer** (`secure/src/cuantico.rs`, `pausa.rs`; `zero/src/secure.rs`) | for each side a root, two chains and the end of the chain before; an offer without answer; a link that drops and is found again; a watch that stops a side | the two sides mix the same secrets in the same order; a renewal in the middle of a talk refuses nothing |
| **SECURE, the files** (`secure/src/archivo.rs`, `zero/src/secure.rs`) | the file going out and the one coming in, blocks that wait for their key, what was confirmed; resumed after a drop by name and number | a file arrives once and whole, and is said to be there only when it is; a drop is not a forgery |
| **SECURE, the Sala de entrega** (`secure/src/entrega.rs`, `zero/src/entrega.rs`) | for each delivery its rules, keys, sealed files, a saved state, a thread at the relay and two queues between program and thread | one receiver; a receipt only for what was received; the end of a delivery leaves nothing that opens |
| **SECURE, the rest** (`secure/src/agenda.rs`, `verificar.rs`, `sframe.rs`, `tarjeta.rs`; groups, halls, calls, the phone) | contacts pinned by key, the short code, one hall of many | a changed key is not used without a new check |
| **ZERO** (`crates/zero`, `zero/navegador`) | sessions, mandates, decisions, ink, redaction, cuts; the shell of the browser | an agent does only what a mandate in force allows; every decision is in the book |

Hard here: an offer, its answer and the payloads sealed before or after them
cross on a link that may lose the tail of what it carries; files are resumed by
a name that two of them may share; an answer of the program to a tab waits in a
queue while that tab's link is replaced by another's; the program acts first
and saves after, and may die between the two.

## The modules

| Module | Lines of code it is about | Role |
|---|---|---|
| `LedgerChain` | `core/src/ledger.rs` append, verify, prune, wipe | state machine |
| `Rules` | `core/src/rules.rs`, `lists/src/lib.rs` | pure operators |
| `HouseholdRules` | `panel/src/api.rs` rules, maxima, `contratos.rs`, `reglas_cmd.rs` | state machine over `Rules` |
| `EngineRules` | `cli/src/engine.rs` refresh and decide, `ledger.rs` version | interleaving of engine, panel and terminals |
| `EngineRecord` | `engine.rs` record, queue, vaciador, close | interleaving of answers, writer task, stop, wipe |
| `ExtractPromise` | what the comments of `record` and of the vaciador promise | abstract specification that `EngineRecord` implements |
| `DnsGuard` | `engine.rs` watch and stop, `dns_cmd.rs`, `api.rs` DNS, `sysdns` | interleaving of service, panel and terminal |
| `Relay` | `rele/src/lib.rs`, `zero/src/rele.rs` | interleaving of connections, bridges, sweep and a TURN request |
| `SecureLayer` | `cuantico.rs`, `pausa.rs`, `zero/src/secure.rs` | two sides over a link that drops |
| `SecureFiles` | `archivo.rs`, `zero/src/secure.rs` | sender and receiver over a link that drops |
| `Delivery` | both `entrega.rs` | program, thread and tabs; crash and restart |
| `MC*` | | model values for TLC |
| `*Proofs` | | theorems |

`HouseholdRules` EXTENDS `Rules`; `EngineRecord` instantiates `ExtractPromise`.
The other machines meet through what they share rather than through a joint
state: `EngineRules` sees a rule only as by name or wide, which is what
`Rules!IsWide` tells apart; `EngineRecord` sees a row only as its query, which
`LedgerChain` takes as one append; the link of `SecureLayer` and of `SecureFiles`
is what `Relay` promises to a pair that keeps knocking.

Operators named as mutants are plausible bugs of the definition that follows
them; no specification uses them, and each shows that a property would notice.

### LedgerChain

Variables are the table and the settings by their names. `AppendRow` is
`Ledger::append` with the choice of what to follow (`HeadGone`), the count and
the schema mark; `OldAppend` is what version 1.0.1 did on the same file;
`Prune` and `Wipe` are their functions. `Check` is `verify_chain`: the walk,
then the head. A hash is a fresh number, so collisions do not exist; ids and the
reported position are left out.

The world acts too: `LoseRows`, `LoseHead`, `LoseCount` and `AlterField` are
what the chain is there to show. `gone`, `vanished` and `harm` remember what
really happened, which the file cannot know; the properties compare `Check`
with them.

### Rules and HouseholdRules

A name is the sequence of its labels from the root, so that "under it" is being
a prefix. `Decide` states what `rules::decide` documents (the highest rank and,
among equals, the newest); `DecideLoop` is the pass over the table as it is
written, and `LoopAgrees` compares the two, together with `Cuts`, in every
reachable table.

A step is one hold of the ledger, one `with_ledger` (`api.rs` 48-60), and not a
whole request: `create_rule` takes the ledger to look at the device or the
household and again to add the rule (3008), and the level's check is a reading of
its own. What a request has passed waits in `calls`, and anything may be written
before it goes on. A cut of a name is `AsksNameCut` and then `Inserts`; a cut of a
category, `AsksCategoryCut` (the level), `ChecksCategoryCut` and `Inserts`; a
page's allow, `PageAsksAllow` (the household's blocks of that moment,
`HouseBlocks`) and `Inserts`; the panel's allow looks at nothing and is one step,
`PanelAllows`; «Protección máxima» is `AsksMaxima` (the middleware of the plan)
and then one hold. `CutAllowed` has the refusals of a cut. `late` is history: the
household wrote after the page had looked. Time is the age of a device: unknown,
new, a day.

Every device has a page, this computer too, and its rules are of any kind: only
`panel/static/app.js` keeps a page to exact names, `mi_nueva_regla` takes what it
is sent and `*.x` becomes a suffix (2885).

Abstractions: the form has already been normalised; a rule's expiry is left out,
since the program never sets one; undoing a contract's cut is `UndoRule`; the
statements inside one hold are one step. Another *program* (a terminal) may write
between those statements, and so may anybody between the reading and the insert of
`corta_aviso`: what that can do is to add a row the table already has, or to undo
one that is undone.

### EngineRules

Each commit and each read under no transaction is a step: a writer changes the
table, reads the version, writes it (`bump_rules_version`), and may fail between
them; a pass reads the rules and then the version (`run_once`; with none if they
cannot be read, when `StartFails` says so); a query holds
the engine's mutex from `Ask` to `DecideQuery` and in between looks at the
version (at most every two seconds; one that cannot be read counts as 0) and
loads the rules, which may fail too.
`AnswerDressed` is the second decision, when an answer came through an alias,
with the first sighting noted before the upstream was asked.

`early` counts wide cuts by a rule in force while the file has less than a day
of the device. `Stop` is atomic: what is between is `DnsGuard` and `EngineRecord`.

### EngineRecord and ExtractPromise

`Decide`, `Miss`, `Enqueue` and `WriteNow` are the two ends of a query in
`decide` and `record`; `Take` and `WriteTaken` are a tick of the vaciador, which
takes rows out before it opens its connection; `Close`, `ResolverGone`, `Drain`
and `Down` are the end of a pass in its order. The vaciador ends only between
ticks (`VaciadorGone`), as an aborted task without an await does. `entered`,
`hurt` and `erased` are history: the order of waiting, the queries that waited
when something failed, the queries answered before the last wipe.

`ExtractPromise` is what recording means without knowing how rows wait: an
answered query is written at once or stands in one line, the line is written
from its front, and a failure takes only from the front. The refinement maps the
line to `taken \o queue`. Every step of the table, of the close and of the
vaciador maps to a step of the promise or to a stutter.

Abstractions: a row is its query; how long a query has waited is left out, so
any front of the queue may be ripe; each query has its own key; the handlers of
queries without an answer end with the resolver, which is the external server's
behaviour as the code uses it; the levels that do not look at other devices are
not told apart.

### DnsGuard

An actor runs one task at a time, and a task goes by steps: `Point` (what
`reapuntar` adds to the copy), `KeepCopy`, `ApplyLink`, `ClearCopy`, `UndoLink`.
The tasks are those of `Tasks`: the watch, coming back, stepping aside, giving
back, apply and restore. In the service `CAMBIO` makes them one actor; the
panel reads the copy (`PanelAsks`) before it has the lock (`PanelBegins`). The
terminal is the second actor. Crashes, failing commands, dropped leases,
interfaces that appear and upstreams that fall silent are actions of the world,
each with a constant that allows it.

Abstractions: the copy is the set of links it can put back; one resolver list
per link, Guardiana or its own, as on Windows; failures of writing a setting,
interfaces that vanish and stepping aside at the end of a licence are left out;
the copy in the file and the one beside it are one.

### Relay

A connection is an end and the number of its link. A greeting that was read is
in `line` until its task has the lock of the table: `Meet` is
`atiende_flujo`'s critical section (take the one that waits, or sit down and
wait), `MeetPhone` is `llega_movil`'s, where the newest of a kind replaces the
older. A bridge is a guard (`Enter`, `Leave`) around the copying; the one who
waited may turn out to be gone when the relay says OK. `Asked` follows one TURN
request through three tables under three locks; `seen` is the history that says
whether its room was there the whole time. The ends knock, break and give up as
`zero/src/rele.rs` makes them do. Left out: TLS, WebSocket framing, the bytes,
which relay of the list is tried.

### SecureLayer

A layer's root is the sequence of the secrets mixed into it, so that equal keys
are equal roots and the epoch is the length. `Say`, `MayOffer` and `Renew` are
`manda_olm`, `cuantico_empieza` and the clock of `tic`; `ReadKey` and
`ReadAnswer` are the two halves of `carga`; `Passes`, `Discard` and `Refuse` are
`cuantico_abre` with `Capa::abre` (current chain, previous chain, skipped
numbers). `Drop`, `Notice`, `Meet` and `Resume` are a link that falls, is
noticed and is found again; `Pause` and `Continue` are the watch. A link keeps
the order and loses a tail. `perdidas`, `alarma` and `tirado` are history.

### SecureFiles

One direction: `From` sends, `To` receives. A block is its file and its number
and opens only under its own key and as the next one, which is what the code's
AEAD gives. The sender's actions are the page's (start, push, close), the
confirmations it hears and what it does after a new link; the receiver's are
the start, a block with or without its key, the end, and the announcement of
what it has. Blocks leave a stopped side as they are; all other messages go
inside Olm, which says nothing while stopped. The conversation is over for both
as soon as one closes it; failing to create a file, the cap of rows kept, sizes,
speeds and the phone are left out; a piece may come while paused.

### Delivery

Three actors. The *program* does one thing at a time: what the page asks
(`Archivo`, `Trozo`, `Lista`, `Revoca`, `Olvida`), and its tick, which takes what
the thread said (`Toma`), handles the events one by one (`Codigo`, `Recibido`,
`Acuse`, `Manipulado`) and looks at its clocks (`Caduca`, `Espera`,
`AcuseVence`). Where the code acts and saves after, `paso` holds what is not
saved yet and `Guarda` is the save, so that `Muere` can come between. The
*thread* waits at the relay, serves one tab and rests (`fase`); what the program
says while nobody is there is thrown away and ends the wait (`Ignora`), as both
`select!` do. The *tabs* are the receiver's page, which is outside the
repository, modelled from what the thread reads and from the tests.
`Vuelve` is `abre_con`: what `estado.bin` holds, one that was being filled
withdrawn, one that waits or is open back at the relay.

Abstractions: a file is one piece and its keys exist or do not; time is when an
expiry or the two minutes of a signature are noticed; the write of `estado.bin`
succeeds and is whole; the room of the relay admits one tab at a time; the cap
of deliveries and a missing signing key are left out. `Puntual` says that the
thread's pause (one or three seconds) outlasts a tick of the program (0.2 s).

`sellados` is the set of the `f{n}.bin` on the disk. `Archivo` creates the file
before the delivery lists it, which `Trozo` does with its last piece
(`zero/src/entrega.rs` 569). `Closes` is what `borra_contenido` does in memory, and
`Forget` adds its loop over the delivery's list (309-311): a file that was still
going in is not on it and stays. Only `Olvida` takes the whole directory.

## Runs

All are listed in `PROJECT.json`, and every property there has a mutant: a
plausible bug of the code under which TLC finds that property violated.

| Run | Asks | Properties |
|---|---|---|
| `ledger_file` | a file that 1.0.1 and this version write, pruned and wiped, with rows, head, count or a field spoiled | `TypeOK`, `NoFalseAlarm`, `LossStaysVisible`, `TruncationCounted` |
| `household_table` | everyone who writes the table, by every form, two requests in flight at once | `TypeOK`, `LoopAgrees`, `ListedCutsCut`, `LetThroughFrees`, `PageLiftsNothing` |
| `engine_panel` | the panel alone writes; bumps and starts fail; two queries at once | `TypeOK`, `SameVersionSameRules`, `EarlyCutsBounded`, `ChangesArrive` |
| `engine_start` | a terminal undoes while a pass starts | `SameVersionSameRules` **violated** |
| `record_all` | answers, ticks, stop, crash, wipe, failures | `TypeOK`, `NothingLost`, `WaitEnds`, `KeepsThePromise` |
| `dns_alone` | the service alone, with crashes, failures and dropped leases | `GuardTypeOK`, `NothingWithoutCopy`, `StopGivesBack` |
| `dns_both` | service and terminal, interfaces that appear | `PointedAgain` |
| `dns_stale` | an interface appears while the panel waits for the lock | `NothingWithoutCopy` **violated** |
| `relay_rooms` | three ends in one or two rooms, tables of one room, dead links, a TURN request | `TypeOK`, `CountIsBridges`, `TurnSeesSteadyRoom`, `TheyMeet` |
| `secure_talk` | offers, answers and payloads that cross, links that drop, a stop | `TypeOK`, `RootsNeverFork`, `NothingRefused`, `OfferAnswered` |
| `secure_files` | two files, of one name or of two, with drops, stops and a full disk | `TypeOK`, `OnceOnly`, `SaidIsHere`, `DropsAreNoTampering`, `NothingGivenUp`, `FileArrives` |
| `delivery_once` | two tabs, two files, any codes, a broken link, a crash, an altered frame | `TypeOK`, `OneReceiver`, `ReceiptIsEarned`, `EndForgets`, `FinishesAndSigns` |

What the less obvious ones mean:

- `LossStaysVisible`: an append after a loss follows the recorded head and not
  the surviving end, so the gap stays until a wipe or until it is pruned.
- `TruncationCounted`: the number of missing rows the panel tells is exact.
- `ListedCutsCut`: a cut the panel shows as active is never silently held back
  by the protection of expected names, because the "yes" was asked for first.
- `PageLiftsNothing`: an action property over two tables, before and after. A
  page's insert lifts a cut of the household only if the household wrote after the
  page had looked, or with an allow by suffix or category: then of a name that was
  not looked up and that the household does not cut by that very name. A page's
  undo of its own cut lifts only what such an allow, already there, let through.
  Both exceptions are what the code does, and are read below.
- `SameVersionSameRules`: with nobody in the middle of a change, an engine that
  holds the file's version applies the file's rules. `ChangesArrive` is the
  liveness that follows.
- `EarlyCutsBounded`: after a wipe at most the queries in flight are cut by a
  wide rule before the day has passed.
- `NothingWithoutCopy`: when nobody is in the middle of a change, every link that
  points here can be put back.
- `PointedAgain`: once faults stop, the upstreams answer and a copy stands, every
  link ends up pointed here, whatever the terminal did before.
- `NothingLost`: relates an answered query to table, queue and extract across
  every way a pass ends. `KeepsThePromise` is the refinement of `ExtractPromise`.
- `TurnSeesSteadyRoom`: a request that reads three tables one after another says
  OK for a room that held a place throughout, however the room moved between them.
- `TheyMeet`: two ends that can be joined and keep knocking are, although the
  tables fill, waits run out and links die unseen.
- `RootsNeverFork`: side 1 is never behind nor more than one secret ahead, which
  is also why a byte is enough to name an epoch. `NothingRefused` says when a
  message may be taken for a repeated one: only after an answer was lost.
- `DropsAreNoTampering`: a block that does not open destroys the conversation, so
  no drop may lead to one. `NothingGivenUp`: what the other side lacks is still
  held by the sender.
- `OneReceiver`: an answer is never handed to a tab that gave no code, and "a new
  device" is not said of the only device there is unless its answer was lost.
- `ReceiptIsEarned`: whoever signs, one tab that gave the code has every file,
  and both sides keep the same receipt. `EndForgets`: no order of events, several
  in one tick included, leaves behind an end the program handles a key in memory,
  or on the disk once it is saved, or a sealed file of the delivery's list; of one
  that was signed or destroyed no file is left at all.

## Bounds and fairness

| Bound | Why it is enough |
|---|---|
| `MaxAppends = 5` | two appends before a loss, one in it, two after; a loss needs one recorded row and an append that could hide it |
| `MaxRules = 2` rows of the table and requests in flight together, two calls (symmetric), one phone, three names | two rules are what a tie, an outranking, a protection and a page against the house take; a request in flight with a row that comes before it, or two that cross, are the race; an expected name below a plain one is the shape of the refusals. What a page's undo may lift takes three rows: that half of `PageLiftsNothing` is exercised here only as "nothing", and its exception is the proof's |
| 1-2 queries, `MaxChanges` 2 or 3, `MaxDays = 1` | a change before, during and after a refresh; a day that has passed and one that has not |
| two links | one that works and one that does not; nothing else bounds `DnsGuard` |
| 3 own queries and a phone's, `PendingCap = QueueCap = 2` (10 000 in the code) | both caps are exceeded; order needs two that wait and one that does not |
| three ends, two rooms, `MaxSalas = 1` (10 000 in the code), `MaxDrops = 1` | a pair and a third that competes for its room or for the table; each table is full with one room; one link of any end dies unseen |
| `MaxData = 3`, `MaxOffers = 3`, `MaxDrops = 2`, `MaxPauses = 1` | payloads before, between and after an offer and its answer; a second exchange on top of the first; a drop in each |
| two files, two blocks, `Every = MaxPend = 2` (64 and 256), `MaxFaults = 3` | a confirmation before the end, more blocks waiting than fit, a file after another; any three faults: a file that starts over twice, or a full disk between two drops, takes three |
| two tabs, two files, `INTENTOS = 2` (3), `MCFaults` | a receiver and another; a delivery confirmed by halves; a code that may fail and one that may not; a break and a crash in either order, or an altered frame |

A larger instance of `Delivery` (any two of the three kinds of fault) keeps its
invariants and takes longer, as do larger ones of `SecureFiles`: two files of three
blocks with three faults, one file with six faults, three files with two.

Fairness, and where the code gives it:

- `EngineRules`: a writer goes on with its next statement, a start goes on, the
  home keeps asking, two seconds pass (weak); reading the version and the table
  succeeds now and then (strong): `refresh_rules` tries again two seconds after a
  failure.
- `EngineRecord`: the vaciador ticks four times a second and a close goes on
  (weak).
- `DnsGuard`: tasks go on and a stop is carried out (weak); the minute comes
  round and the panel gets the lock although the other takes it too (strong:
  `CAMBIO` is a `std` mutex and promises no order, but one side is a person's
  requests and the other waits a minute between its turns, so it is mostly free);
  a command that may fail works now and then on each link (strong). Its liveness properties also have `Calm` in front: from some
  moment no command fails and the network drops nothing, because no code can
  keep a lease from being renewed for ever.
- `Relay`: an end without a link knocks again (`zero/src/rele.rs` tries every few
  seconds), handlers and bridges go on, waits grow old and the sweep runs. A
  minute passes only when nobody that could be paired is on the way: pairing takes
  milliseconds.
- `SecureLayer`, `SecureFiles`: the tick of each side reads what came, notices a
  dead link and meets the other at the relay; which is `Relay`'s `TheyMeet`.
- `Delivery`: the program ticks and comes back when it died, the thread runs, and
  a tab that gave the right code keeps at it (all weak). The last is a person's:
  the properties speak of a receiver who stays.

`LedgerChain` and `HouseholdRules` have no liveness: nothing there runs by
itself. Deadlock is looked for in all of these up to `DnsGuard`; in `Relay`,
`SecureLayer`, `SecureFiles` and `Delivery` ends give up, conversations close and
deliveries end, so their configurations turn it off.

## Proofs

| Theorem | Statement | Assumption |
|---|---|---|
| `LedgerChainProofs!TypeCorrect` | `Spec => []TypeOK` | |
| `HeadLossNeverHeals` | `Spec => []HeadLossStays` | |
| `LossNeverHeals` | `Spec => []LossStaysVisible` | |
| `NeverAccusesAWholeFile` | `Spec => []NoFalseAlarm` | |
| `TruncationTellsHowMany` | `Spec => []TruncationCounted` | |
| `HouseholdRulesProofs!TypeCorrect` | `Spec => []TypeOK` | |
| `ListedCutsAreReal` | `Spec => []ListedCutsCut` | |
| `AllowAlwaysStands` | `Spec => []AllowStands` | |
| `LoopFindsTheRule` | `Spec => []LoopAgrees` | |
| `LetThroughAlwaysFrees` | `Spec => []LetThroughFrees` | |
| `PagesLiftNothing` | `Spec => PageLiftsNothing` | |
| `EngineProofs!TypeCorrect` | `Spec => []TypeOK` | |
| `VersionStandsForRules` | `Spec => []SameVersionSameRules` | `PanelAlone` |
| `VersionNeverReturns` | `Spec => VersionGrows` | `PanelAlone` |
| `DayIsCountedAgain` | `Spec => []EarlyCutsBounded` | |
| `GuardTypeCorrect` | `GuardSpec => []GuardTypeOK` | |
| `NeverWithoutCopy` | `GuardSpec => []NothingWithoutCopy` | `NobodyElse` |
| `AStopGivesBack` | `GuardSpec => []StopGivesBack` | `NobodyElse` |
| `EngineRecordProofs!TypeCorrect` | `Spec => []TypeOK` | |
| `RecordedIsKept` | `Spec => []NothingLost` | |
| `ImplementsThePromise` | `Spec => KeepsThePromise` | |
| `NoRowTwice` | `Spec => []NeverTwice` | |
| `RowsKeepTheirTurn` | `Spec => []WaitInOrder` | |
| `PromiseKept` | `Promise!Spec => [](Promise!RowsOnce /\ Promise!RowsInTurn)` | |
| `RelayProofs!TypeCorrect` | `Spec => []TypeOK` | |
| `SteadyRoomIsTold` | `Spec => []TurnSeesSteadyRoom` | |
| `CountsAreBridges` | `Spec => []CountIsBridges` | |
| `SecureLayerProofs!TypeCorrect` | `Spec => []TypeOK` | |
| `SecretsStayTogether` | `Spec => []RootsNeverFork` | |
| `NothingIsRefused` | `Spec => []NothingRefused` | `Reach` |
| `SecureFilesProofs!TypeCorrect` | `Spec => []TypeOK` | |
| `SaidAndHere` | `Spec => []SaidIsHere` | |
| `ReceivedOnce` | `Spec => []OnceOnly` | |
| `NoFalseAlarm` | `Spec => []DropsAreNoTampering` | |
| `NoFileGivenUp` | `Spec => []NothingGivenUp` | |
| `DeliveryProofs!TypeCorrect` | `Spec => []TypeOK` | |
| `EndAlwaysForgets` | `Spec => []EndForgets` | |
| `OneReceiverOnly` | `Spec => []OneReceiver` | `Puntual` |
| `EarnedReceipt` | `Spec => []ReceiptIsEarned` | `Puntual` |

`EngineProofs` is about the two machines of the resolver's engine, its rules
(`EngineRules`) and the DNS it watches (`DnsGuard`, whose `Init`, `Next`, `Spec`
and `TypeOK` are called `GuardInit`, `GuardNext`, ... so that both can be
extended).

They hold for every number of rows, rules, names, devices, calls, queries, links, ends,
rooms, payloads, offers, files, blocks, drops, full disks and caps, and every table and list of categories
the constants allow. Every module's assumption on its constants is evaluated by
its runs; among them, that the set of queries is finite, without which
`Cardinality(Queries)` bounds nothing. The last column is what a theorem supposes
besides: `PanelAlone` and `NobodyElse` are read below with the
counterexamples that make them necessary; `Reach` and `Puntual` under **Layer**
and **Delivery**.

**Extract.** `ChainInv` says how hashes are ordered: the rows increase strictly
between the anchor and `next`, and no broken row and no vanished end is newer
than the head. `LossTraced` says what a vanished end leaves: a missing head, a
head outside the chain, or a row that follows an end which is gone. That last
case is what makes an append harmless: it follows the head, so the break is
written into the file. It fails when the count is deleted (the append then
starts anew from the table's end), which is why `LossStaysVisible` speaks of a
readable count. `NeverAccusesAWholeFile` adds that the head is where the table
ends unless a program without heads writes too, which is what a prune could cut
off. `Accounted` is the sum that `TruncationCounted` reads: while nobody took the
head or its count and no 1.0.1 program wrote, the count is what was pruned, what
is in the table and what vanished; a head that is not in the chain stays out of
it, so no append begins to count afresh.

**Household.** `ListedCutsCut` is inductive rule by rule (`HasItsYes`): a cut was
confirmed or reaches no expected name, which `GuardGivesTheYes` draws from
`CutAllowed` and undoing keeps; a request in flight has passed that guard, so the
invariant is of the waiting calls as well. `AllowStands` (neither a category nor an alias
cuts a name let through by name) follows from the ranks alone: a
rule by name outranks every category. `PageLiftsNothing` compares two tables.
Its invariant is `LookStands`: a page's allow that has been checked and not been
overtaken is one the household's rules of *now* still do not block. A page's own
writes leave those rules as they are (`OnlyPagesWrite`, `SameHouse`), and whoever
else writes marks the waiting calls late. Adding such an allow cannot lift the
pattern it was looked up with, nor, by rank, a name the household cuts by itself
(`ExactCutHolds`); a cut added by a page lifts nothing (`CutsSurviveAppend`). A
page's undo is of a row of its own: what its cut was holding is lifted only where
an allow of the page stands under it, and by rank only a wide one can have been
outranked. `LoopAgrees` is the one
induction over data: `BestFrom(b, table, q, lo)` says that the loop, having read
from the end down to `lo`, holds the best rule of that part; the induction is over
how many rows it has read, in a set form that needs no operator as argument
(`SetInduction`: a subset of `Nat` with 0 and closed under successor is `Nat`).
`LetThroughFrees` follows from the ranks: what still cuts the name by its name
would be one of the rules just undone.

**Engine.** With the panel as the only writer (`PanelAlone`) a change, its two
version statements and a wipe are ordered. `VersionInv` says that no version in
the engine is ahead of the file's, that the panel writes only while a pass is up
and from the version of the file, and that a copy with that version is the table
unless the panel is between its change and its bump. The property itself speaks
only of quiet moments, so it is not inductive. `EarlyCutsBounded` needs no such
assumption. `EarlyInv` counts `Suspects`, the queries asked under another first
day than the row has: an early cut is of one of them and ends it. A wipe makes
suspects of all that are under way, but leaves no rule in force (`FreshStart`),
and a rule made later reaches the engine with a load that forgets the devices
(`Remembers`), so no new suspect comes.

**DNS.** With the service alone the copy is of no link or of all of them, and
`GuardInv` ties every step of a task to what it may count on (`StepInv`): every
plan is all the links, a task that points has its copy, an undo that has not
failed leaves pointing here only what is still to do, an empty copy under an
undo belongs to the restore that cleared it. A request that waits for the lock
saw what is still so (`PanelInv`), and the phase tells which task may run and
what an orderly end left (`PhaseInv`). `NobodyElse` is no terminal, no interface
that appears and no crash in the middle of a restore; the next section says why
each one is needed.

**Recording.** `NothingLost` is nearly inductive: each step moves a query from
queue to hand to extract, or into `hurt` or `erased`. What is missing is that
nothing is thrown away with the queue of a finished pass: `WaitInv` says that a
pass that is down has nothing waiting, and one that drains has an empty queue.
"Once" and "in order" are proved where they are easy, in `ExtractPromise`
(`OnceInv`: line and extract repeat nothing and hold only what was answered;
`TurnInv`: what waited and was written, followed by the line, keeps the order of
`entered`), and come down to `EngineRecord` by the refinement: initial states map
to initial states, and `PromiseStep` has one case for each action.

**Relay.** The tables are proved functions from rooms, bridges are records of
links and no count goes below zero. `TurnInv` says, for each table the request
has still to read, that a steady room is found there or in one of the later
ones: a room moves only towards `activas`, which is read last. `CountIsBridges`
needs to know that a bridge that begins is none of those counted already:
`PlaceInv` says that a link is in one place, waiting on one table or in one
bridge, and `CountInv` follows from it one bridge at a time.

**Layer.** `Exchange` says where an exchange stands while both sides are in: `Even`
(roots equal, no answer on the way, at most the pending offer) or `Ahead` (side 1
has one more secret, the one of the pending offer, whose answer is the only one on
its way, if it was not lost). Each action keeps it or moves from one to the other,
and `RootsNeverFork` follows. It says what travels as well, because a side renews
on what it reads. `NothingRefused` adds `InTime`: until an answer is lost, what
travels to a side is sealed with rising numbers none of which it has passed
(`Rising`, `Below`), under the secret it has or under the next one once the answer
that carries it comes first. That is not enough alone: a number may be too far.
`Numbers` bounds a side's next number by what was said, offered and dropped, and
`Reach` says that this fits the 4096 that `abre` skips to. Without it the property
is false: a message past the window is refused, which a talk reaches by losing more
than 4096 sealed messages in one epoch. The run's bounds satisfy it.

**Files.** None of the four properties is inductive. For `SaidIsHere` the reason is
the «it is here» of a file that shares its way with another: `Held0` says that what
is said to be there is there (`Truthful`), and that while a file is held back no
other answer travels than the receiver's own account of what it has, which nothing
that is still on its way can make old (`Linked`, `Waits`). It needs no other
hypothesis than the property's own, that names differ. The other three need the
order of what goes out. `Tidy` says that the channel to the receiver is one run of
files, each its key, its blocks in order and its end (`Joined`), that it begins
with what the receiver can take next (`Lined`) and ends where the sender stands
(`Goes`); that all that was received is behind it (`Ahead`), that it is no more than
what went out (`OfFile`), and that the sender lets go only of what the receiver has
(`Kept`). From `Ahead` the received rise strictly, which is `OnceOnly`; from `Lined`
the next block is the one expected, which is `DropsAreNoTampering`; from `Kept` what
is missing is here, which is `NothingGivenUp`. A full disk and an announcement that
a stopped side did not send break `Tidy` for good, and the code does not mend them:
`Neat` claims it only of the conversations without (`Clean`), and the three
properties name that exception (`Keyless`). `Ended` (a closed file has a block) and
`Over` (nothing received outlives the conversation) are about all of them. The
waiting blocks are taken by a recursive function: `PassExists` builds it and
`TakenKeeps` carries a fact from block to block, both by `SetInduction`.
TLC checked every part of `IInv` on the run's instance before it was proved.

**Delivery.** The proof follows the message. `Idle` says that a delivery being
filled has nobody at its door and that a dead program left nothing on its way;
`ForgetsInv` that an end keeps no keys and none of its listed files, nor the saved
copy of an end that was saved its keys, which is what a restart would bring back.
"No file at all" of one that was offered needs `Listed`: while nothing is going in,
and from the moment it is offered for good, every file on the disk is on the
delivery's list, in memory and in the saved copy. `Turns` says that a tab has one question or one
answer on its way while a code may be tried, and `Owners` that what is on its way is
of the tab at the other end of the link: this is where `Puntual` is used, in
`Despierta`, and nowhere else. `Tokens` adds whose each token is: the disk is behind
by a step at most (`Behind`), one tab holds or is being told each token (`Given`),
nobody has the one the next right code makes unless the program died with the first
not saved (`Fresh`), and the receiver a delivery names is known (`Met`).
`OneReceiver` follows. `Confirmations` says that what was confirmed, on its way, in
memory or on disk, is at the tab with the receiver's token, and `Receipts` that the
receipt on its way or at a tab is the one kept here; `ReceiptIsEarned` follows. Each
group is proved over every action, with the earlier groups as hypotheses. With
`Puntual = FALSE` TLC refutes both `OneReceiver` and `ReceiptIsEarned`, so the
hypothesis is needed; the code justifies it with its pauses (`zero/src/entrega.rs`
916-922) against the program's tick.

Every invariant that a passing run checks is stated by a theorem, and so are the
action property `PageLiftsNothing` and the refinement `KeepsThePromise`. Only
model-checked: liveness (`ChangesArrive`, `PointedAgain`, `WaitEnds`, `TheyMeet`,
`OfferAnswered`, `FileArrives`, `FinishesAndSigns`), which rests on fairness and is
out of the prover's reach, as is `ENABLED`.

## What the checks showed

Two runs end in a violation, each one of what a comment of the repository says:

1. **`engine_start`.** `run_once` reads the rules and then the version
   (`engine.rs` 1876). `guardiana reglas deshacer` between the two leaves the
   engine with the old rules under the new version until the next change.
2. **`dns_stale`.** `dns_restaurar` reads the copy before it takes `CAMBIO`
   (`api.rs` 543). The watch may add an interface and point it here in between:
   the restore undoes the older list and empties the copy.

The others below were met as counterexamples of stronger properties, while the
properties that hold were being found.

*Extract, rules, engine, DNS.*

- A 1.0.1 program on the same file plus pruning makes a whole file look
  truncated (`ledger.rs` 733). The program never prunes today: `prune` is called
  from tests only.
- A deleted count lets the next append heal a loss (`ledger.rs` 438-442).
- A pass that starts while the rules cannot be read has none
  (`unwrap_or_default`, `engine.rs` 1876); if its version was read, it keeps none
  until the next change. `PanelAlone` takes this away, as it takes away:
- a bump that fails after its change (`ledger.rs` 1095) leaves the engine with
  the old rules, and two writers bumping together, which can write one version twice.
- The first query after a wipe may be decided with the first sighting from
  before it (`engine.rs` 653, against the comment at 547-549); `EarlyCutsBounded`
  says how far that goes.
- `create_rule` checks a page's allow against the household's rules (`api.rs`
  2907) and adds it under another hold of the ledger (3008). A block that the
  household commits in between is lifted by the insert, against the comment at
  2899-2904, "it cannot lift what the household decided for it".
  `PageLiftsNothing` excepts a call overtaken like that (`late`) and no other.
- The check looks up the pattern only. A page's allow by suffix (`*.x`, or sent as
  one) or by category lifts the household's cuts of names under it, by suffix or by
  category, that are not the pattern itself, against the same comment; what the
  household cuts by the exact name stays. Only the page's own script keeps it from
  asking for more than one name.
- A block made by the household *after* a page's allow of the same name does not
  lift that allow, which outranks it. `PageLiftsNothing` is about what a page's
  step does and not about this.
- `guardiana dns --restore` beside the watch: the watch has read the copy, the
  terminal clears it and restores, the watch points again (`dns_cmd.rs` 351-363).
- A crash between clearing the copy and undoing it (`api.rs` 565) leaves links
  pointing here with no copy, and nothing brings them back. No property holds of
  such a machine, nor of the one the terminal leaves above: `PointedAgain` speaks of
  a standing copy.
- Once aside, a minute gives the DNS back again only if *every* link points here
  (`engine.rs` 2322). After an undo that failed on one link of two, no later
  minute tries again.
- «Borrar todo» empties the extract and not the queue of `engine.rs` 895, so
  queries of the last second are written after it.
- Rows taken out of the queue are dropped if the extract does not open
  (`engine.rs` 2100-2104); past 10 000 pending queries the table is emptied
  (`engine.rs` 732) and those answers are not recorded.

*Relay.*

- The module's comment speaks of "`LLENO\n` to a third one" (`rele/src/lib.rs`
  21-22); nothing sends it: the third one waits or its link is closed.
- A TURN request may miss a room that gave a place up and took another between
  two reads (against lib.rs 32-34, "when the room is known right now"); what holds
  is `TurnSeesSteadyRoom`.

*The layer.*

- If side 1's answer is lost with its link, side 1 has renewed and side 0 never
  will: `cuantico_empieza` returns while an offer waits (`secure.rs` 2317) and a
  drop does not clear it. Side 1's next message names an epoch that side 0 does
  not have, and side 0 destroys the conversation for a repeated or altered message
  (2367), though 2313-2314 says the key is offered "again after every link".
- In the first exchange every sealed message of side 1 that comes before side 0
  has its layer is thrown away in silence (`Discard`).
- An offer made by the clock while the link is looked for, or while stopped,
  never leaves, and no other is made.
- A send on a writer that died closes the conversation instead of looking for a
  new link (`manda`, then `cerrar`).
- A secret that cannot be encapsulated closes the conversation and leaves `capa`.

*Files.*

- A block that cannot be written to the disk drops the entry; the blocks behind
  it make one without a key, the final key makes them look altered, and the
  conversation is destroyed (`secure.rs` 2789-2852).
- A full disk has a longer tail: the entry that was thrown away leaves the next
  blocks and their end without the key that goes before them, and within three
  faults in all a file may be received twice, or given up because the block the
  other side asks for was let go. An announcement that a stopped sender did not
  send (`archivo_empieza` sends it by `manda_olm`, which says nothing while stopped,
  and the blocks by `manda`, which does) leads to the same. `OnceOnly`,
  `DropsAreNoTampering` and `NothingGivenUp` hold of all other conversations.
- With two files of one name, after a drop the second may be taken for the first,
  or be marked as arrived by the first's confirmation (3495); late confirmations
  release blocks of the second.
- The page starts the next file when the bytes of the one before were written, not
  when they arrived (`secure.js` 570-598): a file whose tail was lost is then lost
  in silence.
- `envio` is not cleared by `cerrar`, against the comment at 3603.
- A stop of the receiver at the moment of a reconnection loses `archivo_tengo`;
  the sender stays paused until another drop.
- The guard `n < r.bloques()` of the receiver is never what decides.
- `limpia_nombre` is not idempotent (". a").

*The Sala de entrega.*

- `intenta` looks at the clock itself (`secure/src/entrega.rs` 287). An expiry
  first noticed by a late code marks the delivery `caducada` there; the tick's own
  `e.tic` (`zero/src/entrega.rs` 733) then returns false, so keys, sealed files,
  saved state and the note in the chain do not change, against the test at 1241,
  "an expired … delivery loses its keys and files and the chain says so".
  `EndForgets` allows for it by the mark `"tarde"`.
- A delivery withdrawn or expired while a file is going in (starting another one
  withdraws it, too) leaves that file's `f{n}.bin` on the disk: `borra_contenido`
  goes over the delivery's list, which the file joins only with its last piece
  (`zero/src/entrega.rs` 309-311 and 569), against "the keys and the sealed files
  go" at 299. The file's key was never saved, so it cannot be opened; it goes when
  the person deletes the delivery. `EndForgets` speaks of the listed files there.
- A crash while the first file goes in leaves a directory without `estado.bin`,
  which no delivery names.
- An answer lost with its link costs the delivery: the same tab comes back with
  no token and is "a new device". The properties except it.
- Without `Puntual` the answer may reach another tab: no frame says which link it
  is for.
- A crash after the answer and before its save forgets the token, and a second
  receiver may come. One between erasing and saving brings the delivery back open
  and without files.
- A restart between the last confirmation and the signature leaves the delivery
  delivered, unsigned, with keys and files; one while it is being filled leaves it
  withdrawn, with keys and files.
- A frame that does not open, handled in the same tick after the end, notes
  "destruida" of a delivery that ended otherwise.

## Not modelled

- **Pure or pure I/O:** classifier, reports, measures, exports, apps, decoy
  server, list data, build scripts. Nothing there has a history that an
  interleaving could spoil.
- **DNS server:** the listening, truncation and upstream races belong to the
  `hickory` library; from the code here only `probe` and the choice of upstream
  would be left.
- **Devices, panel sessions, command line:** single statements over the ledger,
  beyond those that `HouseholdRules`, `EngineRules` and `DnsGuard` take.
- **Licence:** one process that reads a clock, a token and a file. Its hazard, a
  date moved forward and back against the latest of three clocks
  (`license/src/lib.rs` 545), is arithmetic over one sequence of readings.
- **Contracts and watch:** one statement per change over one row; the cut, where
  it meets the other writers, is in `HouseholdRules`.
- **SECURE, the rest:** groups, halls, calls, the phone, contacts and the short
  code. A session stopped for one reason keeps it (`pausa.rs` 103): a key that
  changes meanwhile is not asked about; that is one field and no interleaving.
- **ZERO:** decisions over a request, and the shell of a browser.
- **Cryptography:** a key is fresh, a frame opens under its own key and as the
  next one, a signature is right or not.

The map covers the code whose order of events matters; most of the repository's
lines are views, I/O, wording, the browser and vendored data.

## Plan

Order was by what the program's user would miss most: the record, the rules,
the engine that applies them, the DNS of the machine, then what two machines
say to each other.

| Module | What it asks | State |
|---|---|---|
| `LedgerChain` | does a loss show, is a whole file accused | checked, safety proved |
| `Rules`, `HouseholdRules` | does the table mean what is listed | checked, safety proved |
| `EngineRules` | do changes reach the resolver | checked, versions and early cuts proved |
| `DnsGuard` | is the machine ever left without a way back | checked, safety proved |
| `EngineRecord`, `ExtractPromise` | is a query lost, repeated or out of order | checked, safety and refinement proved |
| `Relay` | do two ends find each other | checked, safety proved |
| `SecureLayer` | do two sides keep the same secrets | checked, safety proved |
| `SecureFiles` | does a file arrive once and whole | checked, safety proved |
| `Delivery` | is there one receiver, and nothing left behind | checked, safety proved |

Left, in the order of what it would add: the composition of `Relay` with the links
of `SecureLayer`, whose `Meet` is taken from it; a hall of many
(`zero/src/sala.rs`, `grupo.rs`) with its own ratchet; the licence's clock;
mandates of ZERO.
