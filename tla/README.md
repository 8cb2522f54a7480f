# Verification of the Agricom CRM backend

TLA+ models of the Agricom CRM backend (NestJS, Sequelize, PostgreSQL), the TLC configurations
that check them on small instances, and TLAPS proofs, for instances of any size, of every safety
property those runs check. Paths are relative to the repository (`src/src/...` is its `src` directory).

## The system

The backend keeps the trade of an exporter: an **enquiry** becomes a **sales contract** with a
list of **shipments**; the goods are bought with **purchase contracts**, which share those
shipments out; cargo is allocated, loaded and stuffed; logistics takes the transport over.
Everything that belongs to one trade carries one **business reference** (`REF-000001`).
Beside this core stand HR (leave, attendance, the organisation), follow-ups, tasks, chat,
notifications, sessions and master data.

Each HTTP request runs a handler that awaits one SQL statement after another. Two handlers
interleave at every `await`, in one process or in several. What keeps them apart is only what
the database is asked for: transactions at READ COMMITTED (no statement sees uncommitted rows,
but two statements of one transaction may see different states), row locks, unique indexes,
foreign keys and one trigger. Where a handler tests something with one statement and relies on
it in a later one, nothing orders the two unless it has taken a lock. That is the hard part of
this code, and unit tests, which run one handler at a time, do not reach it.

| Component | State | Operations | Talks to | Hard behaviour | Correct when |
|---|---|---|---|---|---|
| business references (`system/services/business-transaction.service.ts`, migrations phase-48, phase-49) | counter row, `business_transactions`, the reference column of every record | allocate for a root, propagate to children, the trigger | called inside the transactions of enquiries, sales and purchase contracts | lock order, rollback after a number was taken, records moving between roots | one reference per root, no gaps, children carry their root's reference for ever |
| sales contracts (`sales-contracts/sales-contract.service.ts`, `utils/contract-number.util.ts`) | contract rows, contract numbers | create, update, updateStatus, remove | enquiries, business references, shipments | `SELECT ... FOR UPDATE` protects rows that exist, not the maximum; an edit moves a contract to another seller and keeps its number | sequences without skips, and unique per seller for the contracts that stay; an order is converted once |
| shipments of a contract (the same service's `update`, `shipment.service.ts`) | shipment rows: number, reference, status | write a list over the rows, edit one, cancel or delete | purchase links, cargo | instances read before raw SQL changed the rows; references read before the delete | the rows are the list; what is referred to stays |
| purchase contracts (`purchase-contracts/services/*.ts`) | purchase rows, links to shipments, transport queue | ensureExists, create, update, updateStatus, remove, clearDrafts, reallocate, sync the queue | shipments (which call it), business references, logistics | every check is a read without a lock; statements on a second connection | no overbooking, one purchase contract per shipment, one queue record each |
| cargo, loading, stuffing (`cargo-availability/*.ts`, `shipment.service.ts`) | allocation, loadings, the stuffing job, the shipment's status | createLoading, updateLoadingStatus, saveStuffingExecution, update, ensureExecutionRecords, sync | shipments | opposite lock orders; statuses written by five handlers; a job without a transaction | what is accepted fits; statuses move backwards only where the code means it; requests end |
| leave (`hrms/services/leave-*.ts`) | requests, approval steps, the balance | apply, approve, reject, cancel, recount after a holiday change and at night | attendance rows, holidays, leave types | a recount races an approval; effective and stored remaining differ | the balance accounts for every request once and is never overdrawn |
| attendance (`attendance/services/*.ts`) | the row of a day, break logs, correction requests | punches, override, an administrator's entry, three jobs, asking for and approving a correction | leave | jobs write rows by id that they read earlier; three writers that state times compare them differently | a day closed by a punch or a job has its times, in order; a correction is applied once |
| freight quotes (`logistics/services/logistics.service.ts`) | quotes, the selected one, freight of the shipment | enter, edit (replacing all lines, or moving to another shipment), delete, select, generateShipment | shipments, whose freight sales contracts write too | an instance loaded before the transaction is saved in it | of the quotes that stay one is preferred, and charged as quoted until something is changed; one shipment generated; the lines of one edit |
| follow-up reminders (`follow-up-management`, `masters/partner`) | follow-ups, FOLLOW_UP notifications | enter, complete (with any status), remove, update, reschedule, the job of eight o'clock, login | notifications, enquiries | look and make without a unique index; an unchecked delete; a refused INSERT that is only logged | what is due has a reminder, one |
| tasks (`tasks/services/*.ts`) | tasks, sequence row, dependencies | create, subtask, template, rewrite a subtask, delete with cascade, restore, depend | notifications | counting instead of a sequence; a body that is not validated; cascade after the commit; cycle test by single queries | codes unique, no dependency cycle |
| employees and organisation (`hrms/services/employees*.ts`, `departments`, `designations`) | managers, parents, status, isActive | hire, change manager, update, dismiss, move and deactivate units | leave approval, dashboards (recursive queries) | cycle test over part of the tree, then a write | the recursive queries end |
| sessions (`auth/services/*.ts`) | `user_sessions` | login, refresh, logout, logoutAll, purge | users | two exchanges of one token; logout overlapping a refresh | a token is exchanged once |
| notifications (`notifications/services/*.ts`) | `notification_logs` | dispatch, retry every minute | WhatsApp, e-mail, sockets | crash between mark and send, a refused save, overlapping ticks | each settles; none is sent twice without cause |
| enquiries (`enquiries/**`, `masters/partner/*.ts`) | enquiries with their turnover, closure, bid, price log; reports and places | create, update, the status a follow-up sets, entries in the log, the partner's turnover, replacing lists | partner, business references, follow-ups | a copy of another row's value; mark the old, insert the new | the copies agree; one report is the latest |
| chat: messages (`chat/services/message.service.ts`, `scheduled-message`, `unread`, `poll`, `thread`) | messages, versions, read states, counters, scheduled messages, votes | send, poll, reply, edit, delete, clear, markRead, vote, close, schedule, cancel, the timer | sockets, notifications, policies | row locks in opposite order; writers that do not count; a run of the timer overlapping a slow one, and reading a bounded batch in no order; four statements without a transaction | counters count what is counted; a scheduled message is posted once; what is hidden stays hidden |
| chat: conversations (`conversation`, `member`, `conversation-admin`, `erp-discussion`) | conversations, memberships and roles | create, find or create, add, remove, change roles, transfer, rules, archive, repair at start | policies, sockets | find, then create; rows loaded and saved later; a repair that destroys | only broken conversations are destroyed; each has its owner |
| chat: gateway (`chat/gateways/chat.gateway.ts`, `chat/listeners/chat-events.listener.ts`) | maps of sockets, presence, typing timers, batched receipts, all in memory | connect, disconnect, subscribe, status, typing, receipts | policies, messages | handlers that await different numbers of checks; several tabs of one user; two timers | online while a tab is open; nobody is shown typing for ever; receipts arrive |
| monthly stock reports (`logistics/services/monthly-stock-summary.service.ts`) | reports, countries, sections, columns, rows, cells | create (also as a copy), update, publish, delete, edit, save a section, copy a section | - | a test for draft, then writes statement by statement; operations that never test which report a section is of; a copy made row by row | cells stand in their section but for those a save puts elsewhere; one set of countries; copies are complete |
| quotations, rbac, users, clients, companies, masters, the stock dashboard, reports, targets, audit, attachments, migrations and scripts | their tables | forms, queries, files | - | little: one row per request | not modelled (below) |

`PROJECT.json` lists every component with its files and status, and every hazard at its line.

## Modules

| Module | What it is |
|---|---|
| `BusinessReference` | allocation and propagation of references with PostgreSQL's row locks |
| `ReferenceRegistry` | what that service promises, abstractly; `BusinessReference` implements it |
| `BusinessReferenceProofs` | the theorems about `BusinessReference` |
| `SalesContracts` | sales contracts and their numbers |
| `SalesContractsProofs` | the theorems about `SalesContracts` |
| `ContractShipments` | the shipments of one sales contract |
| `PurchaseContracts` | the purchase contracts of one sales contract, their links and queue records |
| `PurchaseContractsProofs` | the theorems about `PurchaseContracts` |
| `CargoExecution` | loadings, stuffing job and allocation of one shipment |
| `CargoExecutionProofs` | the theorems about `CargoExecution` |
| `LeaveWorkflow` | leave requests, balance and attendance rows of one employee |
| `LeaveLedger` | what the leave service promises of a balance; `LeaveWorkflow` implements it |
| `LeaveWorkflowProofs` | the theorems about `LeaveWorkflow` |
| `AttendanceDay` | the attendance row of one employee and day |
| `AttendanceCorrections` | correction requests for one employee and day |
| `FreightQuotes` | the quotes of one logistics workspace |
| `QuoteLines` | one freight quote and the lines its edits replace |
| `FollowUpReminders` | follow-ups of one user and their reminders |
| `TaskWork` | codes, cascade and dependencies of tasks |
| `Organisation` | the trees of employees and of units |
| `AuthSessions` | the sessions of one user |
| `NotificationDelivery` | the notification log and its retry worker |
| `ChatConversation` | one conversation and its timer |
| `ChatContent` | one message, what a member hides, one poll |
| `ChatRooms` | conversations and their members |
| `ChatPresence` | what the gateway shows of people: presence, typing, read receipts |
| `EnquiryDesk` | the enquiries of one partner, its turnover, reports and places |
| `StockReports` | monthly stock reports with their sections, columns, rows and cells |
| `MCBusinessReference`, `MCSalesContracts`, `MCPurchaseContracts`, `MCCargoExecution`, `MCLeaveWorkflow` | one instance each: symmetry, small sets of inputs, what holds for one request at a time |
| `MessagingProofs` | the theorems about `NotificationDelivery`, `ChatConversation`, `ChatPresence`, `ChatContent`, `ChatRooms`, `FollowUpReminders`, `AuthSessions`, `EnquiryDesk`, and about `MCMessaging`, which puts them side by side |
| `RecordsProofs` | the theorems about `ContractShipments`, `AttendanceDay`, `AttendanceCorrections`, `FreightQuotes`, `QuoteLines`, `StockReports`, `TaskWork`, `Organisation`, and about `MCRecords`, which puts them side by side |
| `SetLemmas` | lemmas the proofs share: sums over finite sets, minima and maxima, the levels of a tree, sequences that grow at their end |
| `MCMessaging`, `MCRecords` | several components that share no row in one run: a behaviour exercises one of them (`part`), so the states are the sum and not the product |

In all models a worker (request, handler, call, run, device ...) is a request handler or a job;
its record says which statement it runs next and holds its local variables, in particular what
it has **read earlier and will use later**. An action is one SQL statement, or a run of
statements that no other handler can observe or disturb (they touch rows this worker has
locked, or commit together). A crash action (`Crash`, `RunStops`, `FailRequest`, `AbandonCall`
...) may strike at any point of any request: the open transaction is undone, what was committed
stays.

### BusinessReference

`row` is the committed version of each record, `cur` the newest (the same unless a transaction
is writing it), `lock[w][r]` the mode of the row lock. The four PostgreSQL modes are numbers
that conflict when they add up to 4: KEY SHARE (what a foreign key takes on the parent) 1,
NO KEY UPDATE (an UPDATE) 2, UPDATE (`FOR UPDATE`) 3. `Wanted` says what each statement locks,
`Acquire` waits for it, and `DeadlockVictim` is PostgreSQL's deadlock detector. `ticket` is the
newest version of the counter row, whose lock is held by whoever has uncommitted rows in
`alloc`. `AllocateReference` is `nextReference` with the inserts after it, `CheckRelated` and
`LinkRelated` the read and the UPDATE of `setRelatedRecords`, `TriggerAllows` the trigger of
migration phase-49. Requests are those that call the service: an enquiry's status
(`SyncEnquiryStatus`), a sales contract's creation and edit, a purchase contract's.

Left out or abstracted: statuses are reduced to live and not live for each kind of root; the
children that cannot themselves be parents and have no handler of their own here (documents,
logistics rows) are not rows of the model; `business_transactions.id` and the reference number
are one number. All locks on an enquiry are taken as `FOR UPDATE`. An UPDATE of several rows
locks them at once. The unique indexes and the immutability trigger are **not** in the model:
the properties hold without them, so they are a second line of defence, as intended.

### SalesContracts

The number of an automatic seller's contract holds the seller, for some sellers the buyer's
initial, and a sequence that advances by 4. `TakeSnapshot` and `LockAndNumber` are the two
moments of one `SELECT ... FOR UPDATE`: PostgreSQL fixes which rows it will return, then waits
for their locks and re-reads those rows; a row inserted meanwhile is not among them. `Insert`
is the second look-up, the INSERT under the unique index and the commit. `update`,
`updateStatus` and `remove` differ in what they test when the instance is loaded (`Load`) and
share `Save`, which writes the fields that differ from the loaded instance, as Sequelize does.
The update's DTO is a partial form of the create's, so that an edit may give a contract to another
seller or buyer while its number stays (`Changes` is what edits write). Two histories: `issued` keeps
every sequence ever carried, `moved` the contracts an edit has given to another seller. The
financial year is fixed.

A number a user types is what `parseSequenceFromContractNumber` makes of it: the seller, the
initial and the sequence. The parser ignores case and a missing dot, the unique index compares
text, so a typed number may repeat a generated sequence in another `spelling`; the properties
about uniqueness therefore speak of sequences that no user typed. A contract that leaves its seller
takes its sequence out of the maximum the next create reads, which then generates it again: what is
said of a seller's maximum and of serial uniqueness is said of the contracts that stay. The first sequence is the
seller's own (`InitialSequence`).

### ContractShipments

`Update` is `SalesContractService.update` with a list of shipments: the header is written (if
it changes, the contract's row is locked from there on), the rows are read (`ReadShipments`),
then what refers to them (`ReadReferences`), then all rows get temporary negative numbers
(`Negate`), the list is matched with the rows that were read (`Match`: by id, by number, any
referenced row, any row) and everything is written (`Write`). `Saved` is Sequelize's rule that
a value equal to the one read is not written. `Edit` and `Save` are `ShipmentService.update`;
`Refer` is purchase contracts and cargo beginning or ceasing to refer to a shipment. A
shipment's reference string is represented by the number inside it, since that is what the two
have to agree on; quantities, dates and freight are left out.

### PurchaseContracts

One sales contract with its quantity, its shipments in order and its purchase contracts, all
quantities counted in shipments (a shipment carries the contract's quantity per count).
`Ensure ... MarkExecuted` is `ensureExists` statement by statement, `ReadAllocation`,
`DestroyLinks`, `Commit` is `reallocateSalesContractShipments`, `LookUpQueue`, `Enqueue` is
`syncTransportQueue`. `holder` is the transaction that has written a purchase contract's row:
the only lock there is. `WriteDate` needs that lock from a **second connection**: `create` with
a changed header and a purchase date waits for itself, which the instances therefore do not
ask for together. `SetSalesQuantity` and `SetShipmentStatus` are what other services write. The
two reads at the start of `ensureExists` are one step; `addShipment` always refuses and is not
an action; documents and the items of manual contracts are left out; the connection pool is
unlimited.

### CargoExecution

One shipment with its allocation, its truck loadings and its stuffing job. `Proceed` runs the
handlers statement by statement: `updateLoadingStatus` locks the loading, then the shipment;
`createLoading`, `update` and `saveStuffingExecution` the shipment, then loadings and job; so
`DeadlockVictim` is needed here too. What a transaction writes before its last statement is
invisible and its rows are locked, so the last step (`WriteLoading`, `SaveShipment`, `Commit`)
writes it all. `syncExecutedShipmentLoadings` has no transaction: `SyncLoading`, `SyncStuffing`
commit one by one. `Enter` and `Draft`/`Complete` of the MC module are what users fill in. An update
may send the truck empty (`cleared`), which clears it; the unique index on loadings without a truck
then refuses a second one that waits (`TrucklessTwice`).
Freight and manual readiness, the duplicate tests of truck and container numbers, photos and
documents are left out; there is one cargo.

### LeaveWorkflow and LeaveLedger

Requests of one leave type, the balance of the year and the attendance rows of the days, in
half days. `Wanted` and `Acquire` give every handler the row locks it takes, in its order:
applyLeave employee then balance, approve request then balance then records, manualAttendance
record then balance. The INSERT of a balance or a record locks its unique key. A recount
(`Recalculate`) is started for a request by a changed calendar, or every night (`Nightly`);
A half day may leave open which half it is (`Halves` has "null"), since `halfDayType` is optional.
`Skip` is the handler that finds the request in another state than the one it was called for.
`Allowed` and `Throw` are the tests and the errors that roll back. `LeaveLedger` has one entry
per request: opened once, recounted, settled from pending to used as a whole, closed by giving
back what it holds, and days marked by an administrator. `LeaveWorkflow` implements it under
the mapping in `Ledger`. Handover, policies, several approval levels (the code
always writes 1) and carry-forward (always 0) are left out.

### AttendanceDay and AttendanceCorrections

`AttendanceDay`: punches and what states the times of the row lock it and write it in one
transaction: one step each. An override compares the two times and derives the state
(`ManualOverride`), an approved correction derives the state and compares nothing
(`ApplyCorrection`), an administrator's entry closes the day with whatever times it has, or none
(`ManualAttendance`). `Stated` are the instants they may name besides those of the row, future ones
included; `wrote` remembers whether a punch, a statement or an entry wrote the times last. The jobs (automatic breaks, automatic check-out, the nightly run)
read rows first (`ReadForBreaks`, `ReadForCheckout`, `ReadForNight`) and write them by id later
(`WriteBreak`, `CloseBreak`, `AutoCheckout`, `NightCreate`, `NightCheckout`), whatever they have
become. Time is a small number of instants: those before `Midnight` belong to the row's date.
Hours, grace and status are left out; leave is in `LeaveWorkflow`. `PolicyAssumption` says which
working days are meant: the break and the two hours in which its end is noticed are over, and
the shift too, before a missing check-out is supplied (an hour after the shift, unless the
company's policy says earlier), and the shift ends fourteen hours or less before the night that looks at
the day, as one that ends at noon or later does. The nightly run looks at three days back; its
third night is outside the assumption, since it could find a check-in that an administrator
entered for a time after the end of the next day's shift.

`AttendanceCorrections`: `requestCorrection` reads the pending requests, then inserts
(`LookForPending`, `Ask`); `approveCorrection` locks the request, then the record, and writes
record, request and log in one transaction (`LockCorrection`, `LockRecord`, `Approve`).
`rejectCorrection` has no action: it locks the request with the employee joined, PostgreSQL
refuses FOR UPDATE on the nullable side of an outer join, and everything rolls back.

### FreightQuotes

An edit may move a quote to another shipment, its preferred mark included (`moved`), and an update of
the sales contract writes the freight of its shipments (`ChargeFreight`); what is said of the preferred
quote is said of those that stayed (`Settled`) and of shipments nothing else has changed (`touched`).

A handler loads its quote (or the workspace) before it opens its transaction (`LoadTo...`) and
Sequelize then writes the columns that differ from the loaded instance. A selection un-marks
the rivals with one UPDATE (`UnmarkOthers`, which holds their rows), then marks its own and
writes the shipment's freight (`Mark`). Waiting for row locks is first come first served, and
the bulk UPDATE sees the rows as they are when it gets them. `generateShipment` reads, numbers
and inserts in separate steps under the unique index of contract and number. Routes, rates,
documents and the status of the workspace, which no handler tests, are left out.

A deleted quote is kept and marked (the model is paranoid): an edit or a selection that loaded
it before still writes its row, so a selected quote may be a deleted one, and the header that
names it makes `generateShipment` refuse (`LoadToGenerate` looks among the others).

### QuoteLines

An edit replaces all lines below a quote: `WriteHead` is the first UPDATE of the quote, which a
workspace's edit always sends (its version differs), and a direct one only when a column has
changed; `FindRoutes`, `DeleteRates` are the two statements only a direct quote has; `BeginDelete`
is the snapshot of the DELETE of all lines, `DeleteLines` the DELETE when it has its rows;
`CommitLines` the inserts, the version and the commit. `lines` are the edits whose lines stand.
`RollBackEdit` is the victim of a deadlock, `EditStops` a stopped process.

### FollowUpReminders, TaskWork

`FollowUpReminders`: every statement commits on its own. Whatever looks for reminders, the job,
a login or a request that entered or moved a follow-up, runs `ReadDue`, then `LookForReminder`
and `MakeReminder` for each; an INSERT that is refused is logged, and the next follow-up is served.
`CompleteOrRemove` completes with whatever status the request names, 'Pending' included, and looks
for nothing; `Reschedule` is also the general update. `missed` remembers the follow-ups whose request was
cut short, whose reminder was refused, or that were "completed" as pending.

`TaskWork`: `LockSequence` ... `InsertTask` is the numbered creation under the lock of the
sequence row, `CountSubtasks` ... `InsertSubtask` the lettered one without any lock, `FindSubtask`
and `RewriteSubtask` the update of a subtask, whose body is of any type and may write code and parent
(`CodesSent`; the histories `rewritten` and `bereft` are the subtasks written so, and the tasks that lost
one), `DeleteTask`
followed by `HideSubtasks` and `DestroySubtasks` the deletion and its cascade, one query per
level, `Walk` one query of the search for a cycle and `Depend` the insert after it. Status,
archiving, assignees, comments, time logs and recurrence are left out.

### Organisation

Both trees are read and then written: `CheckChange` (`changeManager`) and `CheckUpdate`
(`updateEmployee`) test, `WriteManager` writes; `CheckUnit`, `WriteUnit` the same for
departments and designations, whose code is alike. `Level` and `SubUnits` are the recursive
queries, `DepthAllowed` the depth limit, which only `changeManager` applies. `Dismiss` sets the
manager of the subordinates to null, as the foreign key does. What links a unit to employees
and keeps it from being deactivated is free.

### AuthSessions

`Exchange`, `CheckOwner`, `Renew` are `refresh`: the session row is locked, the user read on
another connection, the old session revoked and the new one inserted with the commit.
`LoadLogout`/`LoadLogoutAll` and `Logout` are the two statements of the logouts. The session and
its refresh token are one; access tokens, passwords and roles are left out.

### NotificationDelivery, ChatConversation

`NotificationDelivery`: `CreateLog` and the first attempt by the request, then the tick that
reads a batch (`StartTick`) and takes it row by row (`TakeLog` marks the row pending and counts
the attempt before it is made, `AttemptSend`, `RecordSuccess` / `ScheduleRetry` /
`MarkExhausted`). `isRunning` keeps ticks of one process apart. `Restart` loses what is in
memory and keeps the rows. `MaxFaults` bounds restarts and refused saves.

`ChatConversation`: a send locks its member row, then the others in the order of the scan
(`LockOwnRow`, `LockOtherRow`), and commits message and counters together; `RollBackSend` is the
deadlock's victim. `LoadMember` and `SaveRead` are markRead. The timer reads what is due
(`StartPoll`), posts each (`NextDue`, a send) and marks it (`MarkSent`); nothing keeps two runs
of the timer apart. A run reads `BatchLimit` due messages of all conversations, in no order
(`DueBatches`; `crowded`: those of others may fill it), and marks one sent without posting it when
its conversation is gone (`DropDue`). `Refused` is what `send` tests: the conversation is there
and, for those without a privilege, not locked, and the sender is not in `barred` (frozen,
announcements only, no access, muted: `SetBarred`). Polls, replies in a thread and system messages
are committed without touching a counter (`BeginPost`, `BeginSystemMessage`, `CommitPost`);
`uncounted` counts them for each member. Members are fixed; mentions, the counters of threads,
reactions and attachments are left out.

### ChatContent, ChatRooms

`ChatContent`: `LoadToReword`, `SaveEdit` are `edit`, whose transaction keeps the content that was
loaded; `LoadToErase`, `SaveErase` deletion for everyone. `BeginClear`, `HideKnown`, `HideOthers`
are the statements of `clearChat`, each committed on its own; a state made meanwhile makes the
last one fail on the unique index. A ballot is `BeginBallot` (the snapshot of its DELETE),
`Withdraw` (the DELETE, which waits for rows another ballot deletes) and `Cast` (the INSERT and
the commit).

`ChatRooms`: `FindDirect` / `MakeDirect` and `FindDiscussion` / `MakeDiscussion` look and then
create; creating a group looks for nothing, although its client may name a document too (`given`). Whatever saves a membership that it loaded before is `SaveRoles`: leaving and removing,
changing a role, the two saves of a transfer; `rows` are the rows it will write, and a row that
is destroyed meanwhile drops out. `ReadRules`, `SyncOne`, `SyncRest` are `syncDynamicMemberships`,
`FindBroken`, `DestroyBroken` the repair at start. Which people match the rules is free, and so
is who asks for what.

### ChatPresence

Memory of one process: the maps of the gateway (`sockets`, `presence`, `key` for `typingTimers`)
and of the listener (`batched`, `armed`), the timers that run (`pending`), and what clients were
last told (`told`, `shown`, `receipt`). `AskTyping` is the message, `StartTyping` and `StopTyping`
the handler after its access checks, in any order; a timer is of the socket that started it.
`Disconnect` of the last tab and `TypingTimeout` stop the timer the map holds. `LoadReader`,
`SaveLastRead`, `BatchReceipt` are markRead and its event, `FlushReadReceipts` the timer of 150
ms. `RestartGateway` empties the memory; clients then connect anew. `joined`, `said` and
`overlapped` are histories. Access checks that refuse are left out: the handler returns.

### EnquiryDesk

`LockPartner` ... `InsertEnquiry`, `LogPrice` is `create`: the partner's row is locked, its
turnover copied or set, the log of the price written after the commit, and a failure of that
swallowed. A client may send the date of the closure with either, whatever the status (`dated`), and
`PostActivity` enters what it likes in the log (`annotated`). `LoadEnquiry`, `SaveEnquiry` are `update`, which writes the columns that differ from
the loaded instance; `Closure` is what it does to the closure's columns. `SyncStatus` is the
status a follow-up sets. `LoadPartner`, `SavePartner` are the partner's own update. Reports of a
partner, and loading points and destinations, are replaced the same way: `BeginList` (the snapshot
of the statement that unmarks or deletes), `TakeList`, `PutList`.

### StockReports

`FindMonth`, `InsertSummary`, `InsertCountries` are `create`, which may go on as a copy of another
report; `LoadSummary`, `SaveSummary`, `ClearCountries` are `update`, `LoadToPublish` and
`LoadToRemove` the loads of `publish` and `remove`. `AssertEditable` is the test every edit makes
first; the edits after it are one statement each, or one transaction (`SaveSection`, which
deletes what the page does not name: `Synced`). Operations on columns, and changing and deleting rows,
name any section: only the addressed report is tested to be a draft. A saved section may fill a cell of
any column (`Fillings`, `Elsewhere`; the history `strays` has such cells). `CopySection`, `CopyColumn`, `CopyRow` copy what
was loaded at the start (`from`), one row per step, with the map from old columns to new ones.

## Runs

Every passing property is also shown to be sensitive: `PROJECT.json` pairs it with a plausible
bug (operators marked `(mutant)` in the modules), under which the same run finds a violation.

| Run | Instance | Shows |
|---|---|---|
| `reference_requests` | 1 enquiry, 1 contract, 1 purchase contract, 2 requests at once | references are gap-free, one per root, committed with their root, inherited, permanent, given only to live roots; requests that did not overlap leave no active contract of a confirmed enquiry without one; and the service implements `ReferenceRegistry` |
| `reference_ends` | 1 enquiry, 1 contract, 2 requests | every request ends, deadlocks included |
| `sales_numbers` | 2 contracts of one seller, 2 buyers, an enquiry, 2 requests, a number typed ahead of the sequence in two spellings | racing: no sequence is skipped, a number exceeds those its statement saw, a generated sequence is shared only across buyers' initials. Edits move contracts to other sellers and buyers in both. Serial: generated sequences are unique among the contracts that stay with their seller |
| `purchase_serial` | 2 purchase contracts, 2 shipments, quantity changes, one request at a time | no overbooking, no shipment twice, cancelled contracts hold nothing, one queue record each; the quantity of the sales contract is lowered and raised |
| `purchase_ends` | 1 purchase contract, 1 shipment, 2 requests, a sales contract whose quantity changes | every request ends; no single purchase contract exceeds the most the sales contract had |
| `cargo_loadings` | 2 loadings, 2 workers | what `updateLoadingStatus` accepts fits shipment and allocation when it commits; only a stuffing job takes a status back, and only a draft of one marks as loaded what carries nothing; an executed shipment has a loading and a stuffing job |
| `cargo_ends` | 2 loadings, 2 workers | every request ends although three handlers lock in opposite orders |
| `messaging` | 2 notifications, 2 ticks, restarts and refused saves; a conversation of 2 members, 2 requests, 2 scheduled messages, 2 runs of the timer that read one message each, and a restart; the gateway with 2 users of 2 tabs, 2 companies, 2 typing messages, 2 reads and a restart; 2 messages, a poll of 2 choices and 2 requests; 2 conversations of 3 people and 2 requests; 2 follow-ups over 2 days and 2 calls; 3 sessions and 2 devices; 2 enquiries, a partner and 3 lists of a place, 2 requests | delivery: attempts are bounded, nothing is sent again without the fault that explains it, what was begun settles. Chat: unread counters count all messages of others but polls, replies and system messages, a message is posted twice only after a restart or overlapping runs, what is due is posted unless it is cancelled, its sender is refused or the batch is full of others (`ChatSettles`). Gateway: a user is what a tab last said and OFFLINE without one, typing is shown only while its timer runs and for ever to nobody, receipts say what the rows say and arrive. The rest, racing and one request at a time: what was hidden stays hidden, a voter keeps a vote; only broken conversations are destroyed; a token is exchanged once; what is due has a reminder, but for those `missed`; enquiries have their partner's turnover, one report is the latest, and serially closure, bid and price log agree as long as no client writes the date of the closure or the log |
| `notifications_kept` (violation) | 1 notification, 1 restart | a row marked pending when the process stops is never taken up again |
| `leave_requests` | 2 requests of one employee, 2 handlers, a changed calendar or leave type, a crash | the balance accounts for every request exactly, is never overdrawn, no two requests take one day unless both are half days that do not name the same half, and the service implements `LeaveLedger` |
| `leave_ends` | 1 request, 2 handlers | handlers that lock the same rows in different orders end; after a change of the calendar the nightly job brings every active request up to date |
| `records` | one small instance for each component, exercised on its own | the properties of `ContractShipments` (serial), `AttendanceDay`, `AttendanceCorrections`, `FreightQuotes`, `QuoteLines`, `TaskWork`, `Organisation` and `StockReports`: its invariants name, for each part, what holds there whoever races and what holds serially |

**Why these bounds.** The races in this code are between two handlers: what a third would do to
either of them, the other one already does, and every mutant that removes a lock or a test is
found with two. Two rows of a kind are the least that can be confused or share a number; a
third id lets one be deleted and another created. In `sales_numbers` an edit changes one field
(`SingleChanges`), in a race the number or the seller (`Plain`); the theorems are about
`ModeSpec` and any set of changes. `messaging` and `records` explore a component in several parts,
each with what matters to one question: "chat" has sends and posts with one scheduled message and
no refusals but the lock's, "timer" several messages of one sender, of which a run reads one
(`BatchLimit`, 100 in the code), while senders are barred and the conversation goes; reminders
are about one day when they race, and calls change the first follow-up when they do not; "quotes"
races selections, edits and deletions in one shipment, "moving" moves one quote between
shipments, "generating" races the generation of one; "tasks moving" and "tasks racing" have one
subtask that an update rewrites. A code an update may carry is that of the first task
(`FirstCode`), so that it can repeat one; a stated time is an early one (`Stated`). Where requests come one at a
time, the first of two requesters makes them all (`OneTalker`, `OneCaller`, `OneTrader`), and the first of two
conversations is opened by the first person: they are alike. Serial parts are not weaker copies: they
explore **long sequences of legal calls**, with crashes at every statement. `MaxIds`,
`MaxPurchases`, `MaxLength`, `MaxDepth`, `MaxFaults`, `MaxBreaks`, `MaxEdits`,
`MaxTyped`, `MaxRead` and the sets of ids bound what
is ever created (`OutOfIds`, `Fits` and the like end a request at that bound and are not in the
code). The base numbers 100000 and 90000 are 100 and 90, and the depth limit 15 is 2: only
their being beyond every list, or within reach, matters, which assumptions state. The purchase
contract's status "Completed" is in the model but needs delivered shipments, which no run has.

**Serial only.** Some properties hold for one request at a time and TLC refutes them with two,
because the code has no lock for them: `ActiveContractsReferenced`, `SequencesUnique`,
`NoOverlap` (of purchase contracts), `OneQueueRecord`, `ReferencedKept` (in `WrittenAsMeant`: cargo allocated between `ReadReferences` and the delete goes
with its shipment, by ON DELETE CASCADE), `Sessions` (of a day), `OneReminder`, `CodesUnique`,
`Acyclic`, `OnePending`, `ReportingEnds`, `UnitsEnd`, `OneStands`, `ClosedIsDated`,
`BidHasCurrency`, `HistoryIsCurrent`, `VersionsComplete`, `ErasedSaysNothing`, `OneVoteEach`,
`ClosedIsFinal`, `HasOwner`, `OneDirect`, `OneDiscussion`,
`ScopeOnce`, `CopyComplete`. The runs check them in their serial parts,
so the README can say what exactly is lost: not the property of a sequence of calls, but its
protection against two at once. `StatusFollowsRules`, `ExecutedWhenReady`, `QuantityIsLinked` and
`RecordsKept` of `PurchaseContracts` and `ConvertedOnce` of `SalesContracts` are stated there and
refuted; no run checks them.

**Fairness.** `FairSpec` adds strong fairness of each worker's `Proceed`: the event loop runs
every handler whose statement has returned, and PostgreSQL queues the waiters of a row lock, so
a statement that can run again and again does run. Strong fairness is needed because a waiter
is disabled whenever somebody else holds the row. `LeaveWorkflow` adds it for the nightly job of
each request, a cron job. `MCMessaging` has weak fairness of the server's steps, the ticks of
its timers and time itself (conditions of components that are never exercised together share
one `WF`, a disjunction of their steps): nothing but the clock and its own process stands in their way.
Requests, crashes and faults have no fairness: no client has to send anything, and nothing has
to fail.

**Deadlock** is checked everywhere (an idle worker can always take a request) except in
`records`, where the clock stops and tasks, quotes and reports run out. In `messaging` the
parts about messages, polls, conversations, reminders, sessions and enquiries may end the same way
(`Ends`); the others may not. They have no fairness either: nothing is claimed of where they get to.

## What the violation shows

`notifications_kept`: `notification-retry.worker.ts:28` says a failed row stays in the database
over a restart and is picked up again. `retryOne` marks the row pending before it sends
(`:98`), and `processBatch` looks for failed rows only, so a row whose process stops in between
is lost to every later run. `messaging` shows the rest of the promise holds: without that
crash, what was begun settles as sent or exhausted.

## Proofs

TLAPS checks, for every value of the constants that the named assumptions allow, every safety
invariant, action property and refinement that a run checks. The last steps of the theorems are temporal; everything else is the usual
`Init => IInv`, `IInv /\ [Next]_vars => IInv'`, `IInv => Inv`, with one step per action. What
each invariant adds to the properties is what a handler **knows between two statements**: which
locks it holds, and what of what it has read is still so because of them.

| Module | Theorems of properties a run checks | Assumed of the constants |
|---|---|---|
| `BusinessReferenceProofs` | `TypeOK`, `ReferencesSound`, `InheritsReference`, `LinksImmutable`, `AllocatedWhenLive`, `ReferencedSerially`, `ImplementsRegistry` | rows of different kinds are different, `None` is none of them (`RowsAssumption`, `NullAssumption`); not even finite |
| `SalesContractsProofs` | `SequencesAdvance`, `SequencesTold` | finitely many contracts; typed numbers are numbers; a first sequence per seller; an edit sends values of its fields (`SalesAssumption`, `TypedAssumption`, `ChangesAssumption`) |
| `PurchaseContractsProofs` | `EachWithinSales`; with one worker `NeverOverbooks`, `RecordsSound` | `PurchaseAssumption` (numbers are numbers, what requests ask for are statuses), and the hypotheses below |
| `CargoExecutionProofs` | `UpdatesFit`, `StatusInOrder`; `RowsSound` | `QuantitiesAssumption`, `RowsAssumption`, `InputsAssumption`; for `RowsSound` also `EditsReady` |
| `LeaveWorkflowProofs` | `BalanceAccounted`, `NeverOverdrawn`, `NoOverlap`, `ImplementsLedger` | finitely many requests and days, at least one day; a half day is one day; days per year and the bound on events are numbers |
| `MessagingProofs` | `UnreadCounted`, `ScheduledOnce`, `DeliverySound`, `ContentKept`, `ConversationsKept`, `DoneOnce`, `EnquiriesAgree` | finitely many users, choices and rooms' people; names, senders and sockets are different things; there is a first day (`DaysAssumption`); a run of the timer reads at least one message (`BatchAssumption`); no device is the one of an unlocked row (`DevicesAssumption`); a field that is not sent, or blank, is no value (`EnquiryAssumption`) |
| `RecordsProofs` | `AllRowsSound`, `DayInOrder`, `LogisticsSettled`, `TreesOrdered`, `WrittenAsMeant` | instants are numbers in the order of a working day (`TimeAssumption`, `PolicyAssumption`); what stands for an absent row, value or holder is none of the others; finitely many shipments (of freight), tasks, staff and units; ids of stock reports and their parts are positive numbers; codes that are sent are sequences of numbers (`TasksAssumption`); the numbers parked for cancelled shipments lie beyond every list (`ShipmentAssumption`), and what clients send are lists of entries (`SentAssumption`) |

**`SetLemmas`** has what the others need of sums. `SumFunctionOnSet` chooses a solution of a
recursion equation; `FoldsExists` and `FoldsUnique` show there is exactly one, `SumUnfold`,
`SumRemove`, `SumUpdate` how a sum changes with its set and its summands, `MinOfFinite` and
`MaxOfFinite` that bounds are attained, `LeastNumber` that a set of numbers
has a least. Its last sections are about trees (below) and sequences. Induction over the subsets of a finite set
(`SubsetInduction`) takes the **set** of good subsets instead of a predicate.

**Business references.** `Inv` has four parts:

* *locks*: two workers never hold conflicting modes (`LocksCompatible`), and a row nobody
  writes has equal committed and newest versions (`Clean`) - hence one writer per row
  (`OneWriter`) and what a worker reads of a row it has locked is the newest version
  (`LockedRowIsCurrent`);
* *versions*: the newest version keeps a committed link (`LinkKept`), and links lead to
  registered references (`LinksRegistered`) and agree with the parent's (`Inherited`), as seen
  by the worker that writes them;
* *numbers*: only one worker has uncommitted allocations, they continue the counter without a
  gap (`Tickets`), and each root's is unique across committed and uncommitted rows (`Unique`,
  `Carried`);
* *control*: for each worker, what its position implies about its locks and local variables
  (`ControlOf`), e.g. that before `AllocateReference` the root is locked FOR UPDATE and has no
  reference.

`WriteStepData` shows once that a write of locked rows which the trigger allows preserves the
data part; each `...Writes` lemma shows that an action is such a write; `CommitData` and
`RollbackData` treat the end of a transaction. `StepCommits` describes what a step does to
committed rows, from which immutability and the refinement follow. `LiveInv` proves
`AllocatedWhenLive`: a root with an uncommitted reference is live, and a header written after
the allocation cannot take that back (`JobOf`: it belongs to an activation, or to a purchase
contract under another root). `SerialInv` proves `ReferencedSerially`: of the contracts that
lack a reference (`Missing`) the one running request is about to reach all (`Pending`).

**Sales contracts.** `Inv`: every number was typed or generated, and a generated one is of the
seller of its contract, unless an edit has moved the contract (`moved`) to another (`Booked`); no
two are equal (`Distinct`, the unique index); a create that is about to insert
holds the locks of the rows its number was computed from, but for those moved away since, and the
number exceeds theirs (`Issues`). The locks (`Held`: of rows that exist) keep an update from
changing those numbers meanwhile, which is all that
`FOR UPDATE` is good for. `SerialInv` adds, for one request at a time, that those rows are all
of the seller's (`Whole`). Sequences of contracts that were moved, and those users typed, are
excepted: the maximum is taken over the seller's contracts alone, and the index compares
spellings, the parser does not.

**Purchase contracts.** Types and `EachWithinSales` hold however many requests run and however the
quantity of the sales contract changes: no purchase contract exceeds the `Largest` it ever has,
whatever is tested against a quantity read earlier (`Bounded`; a sales contract that is reduced
leaves what was bought, so there is no smaller bound). `Alone(w)` and `Linked(w)`, for `Workers = {w}`, say that what the one request has
read is still so when it writes it: the two properties do not survive two, as TLC shows. Two hypotheses name what `update` does with a status it is patched to, without a test and
without reallocating: `NeverOverbooks` needs `Patched \subseteq {"Cancelled"}` (a cancelled
contract that is patched back books again), `RecordsSound` needs `"Cancelled" \notin Patched`
(a contract that is patched to Cancelled keeps its links). The instances patch no status
(`Patched = {}`); what patching breaks is listed below.

**Cargo.** `Inv`: locks that clash have one holder (`Exclusive`), a row to insert is reserved by
one handler (`Distinct`), and for each handler (`Mine`) where it can be, what users entered,
which rows it has locked, that the rows it means are there, and that what it has tested still
stands (`Passed`). The theorems cover every handler, the sync of the list and `update` together,
which the instances explore apart. `RowsSound` needs `EditsReady`: `update` takes any string for
a status (`shipment.service.ts:1251`) and creates the records of an executed shipment for
'Executed' alone, so an edit straight to a later status leaves it without.

**Leave.** `Inv`: row locks are exclusive; a request that is worked on keeps the status it was
locked with (`Handles`); one to be created is absent and nobody else's, and overlaps no live one
once the employee is locked (`Applies`); what a manual mark takes still fits (`Records`); then
pending and used days are the sums they should be, and nothing is overdrawn (`Accounts`).
`OthersKeep` shows once that a step of one handler leaves the others' part alone. The
refinement takes each commit to one booking of `LeaveLedger`.

**Chat, notifications, gateway.** `ChatInv`: what markRead loaded is not ahead of the row
(`Loads`), for messages that are counted and those that are not (`uncounted`); no run of the timer
has a message twice in what is left of its batch (`Apart`); and a scheduled message that is not
excused is held by one run, by the one that will mark it once it is posted (`AllOnce`). `DeliveryInv`: a log row is worked on by one
process (`Sole`), `isRunning` and the batch say which (`Running`, `Fetched`), and its attempts
and deliveries add up (`Books`). `GatewayInv` is three invariants: presence
is what the open tabs say, typing is shown only with a timer that will end it, and a receipt
that is not the row's is in the batch the armed timer will send. Each is proved for its
component alone and carried over to the instance that puts the three side by side.

**Sessions, corrections, reminders.** `SessionsInv`: a refresh holds the lock of the session it
has read, which is still not revoked and of the chain it remembers (`Refreshing`), and the first
session of every chain has been opened (`Chains`), so that a new login begins a chain of its own.
`CorrectionsInv`: who has found a correction pending holds it until it is resolved (`Holding`).
`RemindersInv`: nothing is owed (`Owed`: due, without a reminder, not `missed` because its request
stopped half way, its reminder was refused or it was completed as pending, and no request will
see to it) once the job has run, and before that what is owed is among the rows the job has still
to serve. A deletion by a request that moves a follow-up owes nothing, since the request itself
looks again. `OneAtDesk` and `OneCall` add what holds for one request at a time. The models
assume that the value for a row nobody has locked is not a request.

**The attendance of a day.** `DaysClosed` (`DaySpec => []ClosedHasTime`) needs no more than that
instants are numbers: `DayInv` adds that a job on its way to a check-out has read a check-in, so
what it writes is a time, whatever the row has become. Only an administrator's entry closes a day
without one; `wrote` tells whose times the row has. `SerialDayInv`, for requests that do not
come between the reading and the writing of a job, has `Sessions`, `InThePast` (no punched
check-in lies in the future; of stated and entered times nothing is claimed, nobody tests them) and `JobSees`:
a job has read the check-in the row still has, a break job finds its session open and runs before
`Threshold`, one that closes the day or creates its row runs after it. The jobs may overlap each
other, in any number; they are kept apart by the clock (`PolicyAssumption`): a break cannot
begin or end once a check-out is supplied. `RecordsDayInOrder` states both for the instance.

**What a conversation keeps.** `ContentInv`, whoever races: what clearing has hidden stays hidden
until it creates the other states (`Cleared`), and a ballot is of one voter, not empty, and
withdraws only that voter's votes (`BallotFits`), so that a vote it replaces is always followed by
another. `MessageInv` and `PollInv` are the serial ones: the message is as it was read and was
said last, its version the number of things said; the poll is open while a ballot is in progress,
which withdraws all that its voter has cast. `ContentAssumption` has finitely many choices.

**Enquiries.** `EnquiriesInv`: one request at a time inserts, and the turnover it has read is still
the partner's (`Dealing`), which is why all enquiries agree on it although an entry and an
insertion may be under way together. `SerialEnquiriesInv`: an update saves over the row it read
(`AsFiled`), and `Noting`, the last price is in the history, about to be, or was lost, unless a
client has written the log since. The closure is dated unless a client wrote the date (`dated`).
`SerialListsInv`: what a request takes away is all that stands in its place (`AsListed`). That a
field the DTO leaves out is no value is `EnquiryAssumption`.

**Conversations.** `RoomsInv`, whoever races: a direct message that lost nobody has two members
(`PairKept`), and at most two unless somebody was added (`PairOnly`); what is saved are rows of
members, and what the repair has found has lost a member (`TalkFits`). `SerialRoomsInv`: what was looked for is still not
there when it is created (`StillSo`), and a save leaves an owner (`LeavesOwner`) unless rules or
a transfer to oneself took him (`disowned`). A document has one discussion beside the conversations
that were `given` the document when somebody created them.

**Shipments of a contract.** For requests one at a time `ShippingInv` says that what an update
has read is still so (`UpToDate`) and that its entries are matched with rows it has read, each
once (`Matches`). The match is a recursive function of the list: `MatchFits` proves it for every
list by the first entry at which it would fail (`GrowsOn` shows that there is such a function).
From this follow the two halves of the update in `WrittenAsMeant`: `ListIsWritten` (a row of its
own for each entry, the rows that are left over cancelled because something refers to them, or
gone), and `ReferencedKept`, since the references that were read are still the references when
the rows are deleted.

**Freight.** `FreightInv`: a selection is of a quote of the shipment it has loaded
(`SelectsQuote`), and one that is about to mark its quote holds the lock of it and of every
rival with a mark (`LocksRivals`), so at most one is about to mark for a shipment (`OneMarks`) and
`OnePreferred` survives the race. A quote that is edited or deleted after it was loaded puts its
shipment among the `touched`, where the charge may differ, as does an update of the sales contract
that writes the freight. A quote that an edit moves to another shipment takes its mark along: it
is among the `moved`, beside which the rest (`Settled`) have one preferred quote for each shipment, and its
shipment is touched (`MovedTouched`).

**The lines of a quote.** `LinesInv`: a workspace's edit writes the quote first and so holds it
(`OneHolds`); from there on the lines it sees, and deletes, are all there are (`Reaches`), and
those that stand are of one edit (`OneEditStands`). A direct quote has this only while no two
requests had it loaded (`met`): then the loaded row is the row (`Latest`, `OneLoaded`).

**Monthly stock reports.** `StockInv`: columns and rows belong to sections that were drawn
(`Rooted`), ids are not used again and rows are not moved or revived (`Retains`); so the columns a copy in
progress has made are still those of its new section, whatever others have done (`AuthorFits`),
and a cell is put where a row meets a column of its section, but for those a page filled with the id of
another's column (`strays`). For one request at a time (`OneAtWork`) `AloneInv` has the
countries once (`ListedOnce`), and `CopiedSoFar` says that what was copied is the original as far as
it was copied, under two maps that are one-to-one.

**Tasks.** `TasksInv`: the request that has drawn a number holds the sequence row (`Draws`), and
no code begins with a number beyond the sequence (`CodesDrawn`): `NumbersUnique` whoever races.
Serially a subtask's code is that of a parent with the count of the siblings before it (`Lettered`,
`Counted`), so two codes that are equal have equal parents and equal counts; excepted are subtasks an
update gave a code or another parent (`rewritten`) and the children of a parent that lost one so (`bereft`), whose
count went down; and what a walk has
visited and queued is closed under dependency (`Walked`), so when it ends the new edge closes no
cycle.

**Organisation.** `OrgInv` has types, and managers and parents that exist. `ReportingEnds` and
`UnitsEnd` say that every set has a member whose parent is outside it (`Rises` in `SetLemmas`); serially
the new place is not below what moves (`Apart`, `Outside`), and `MovesOut`, `GrowsOut` and `StaysRising` show
that moving, adding and removing then keep this. That the test has looked at everything below is
`LevelsSuffice`: a finite set has no more levels than members (otherwise each level would have a
member that no earlier one has). Units that an update has made active again (`reopened`) are
excepted, as in the property.

**The rows of `records`.** `RecordsRowsSound` collects the types. Two need more than the
components' own invariants: a job supplies only times that have come (`DayBounds`: instants
never pass the end of the clock, and no more breaks are logged than the bound allows), and the
shipments' rows come with `ShippingInv`.

**Model-checked only.** Liveness (`RequestsEnd`, `DaysCatchUp`, `DeliverySettles`,
`ChatSettles`): fairness and ENABLED are out of the prover's reach. `ConvertedOnce` and the
other properties that the code does not keep are not proved, being false. The instances are
smaller than what is proved: a part that is serial in a run, or leaves out an action to stay
small (`RacingSheets`, `Plain` ...), is proved for the component's own next-state relation wherever the property
does not need the restriction.

## Observations without a run of their own

What the code does in the situations the models cover, found while translating it or by
checking a stronger property than the one that is kept.

*Sales and purchase contracts, shipments*

* `contract-number.util.ts:197` says `FOR UPDATE` guarantees unique sequences. It does not cover
  rows that do not exist yet: two creates read one maximum. For buyers with the same initial
  the unique index refuses the second; for others both commit.
* `sales-contract.service.ts:884` calls the negative shipment numbers temporary. A shipment that
  keeps its number is not written back, since the instance was read before the raw SQL, and
  commits `-(100000 + id)`; `shipmentNo >= 1` in the DTO then refuses a client that echoes it.
* `update` writes seller and buyer as they come (`sales-contract.service.ts:776`): a contract moved
  to another seller takes its number along, the first seller's maximum falls, and the next create
  generates the sequence again.
* An order is converted twice by two concurrent creates (`sales-contract.service.ts:205`).
* The validation of `purchase-contract.service.ts:238` and the write it guards are not one step:
  two requests together exceed the sales contract (`:994`).
* `create` with a changed header and a purchase date updates its own row on another connection
  while its transaction holds it (`:693`, `:895`); neither can proceed. Its nested queries need
  two of the five pool connections per request: five at once wait for ever.
* After a sales contract is reduced below what is bought, every reallocation throws (`:333`), so
  a purchase contract can no longer be cancelled to make room.
* `update` with status Cancelled leaves the links, and with a cancelled contract reactivates it
  without validation. Shipments are marked Executed after the insert, in autocommit (`:672`).
* `syncTransportQueue` creates an enquiry of its own when the sales contract has none.
* An entry of a shipment list can take, by number, the row that a later entry names by id; a
  cancelled row that is taken stays Cancelled.
* `contract-number.util.ts:121` documents numbers with the buyer's initial for a seller whose
  configuration leaves it out.
* `quotation.service.ts` `create` calls `findOne` inside its SERIALIZABLE transaction without
  passing the transaction, does not see its own insert, and always rolls back.

*Cargo*

* The total loaded can exceed the shipment: a completed stuffing is not checked against it, and
  `createLoading` checks before it locks. `createAllocation` checks, then inserts (`:960`);
  `createReadiness` with 'Ready' allocates without the check.
* A loading's status moves backwards through a stuffing job with containers, although
  `cargo-availability.service.ts:1605` refuses that; a shipment goes back from Dispatched.
* Updating a loading on another truck resets a completed stuffing to Pending.
* `update` takes any string for a shipment's status and creates the execution records for
  'Executed' only: an edit straight to a later status leaves a shipment without loading and job.
* Clearing the truck of a loading while another waits without one is refused by the unique index.
* The sync gives up on the remaining shipments when one insert meets the unique index.

*Leave and attendance*

* The nightly recount looks at requests that end today or later; effective and stored remaining
  days differ; a recount reads the calendar on a second connection inside its transaction.
* Half-day requests without a `halfDayType` overlap no half day that has one
  (`leave-requests.service.ts:565`): several may lie on one half.
* `cancelApprovedLeave` destroys every row without a check-in, those an administrator marked
  included. `resolveConflict` locks with an outer join, which PostgreSQL refuses, and always
  rolls back; so does `rejectCorrection`. Nothing ever sets `isPayrollLocked`.
* A check-in during a break resets the session and leaves the break open. The automatic
  check-out closes a session opened since it read the row, may write a time in the future, and
  the nightly one a time after midnight. A crash between break log and row update leaves both.
* A manual entry closes a day without times (`attendance-admin.service.ts:468`).
* Two concurrent correction requests leave two pending. What an approved one proposes is not
  checked: out before in, checked out without check-in, an open break.

*Freight, reminders, tasks*

* Selecting the preferred quote again un-prefers it while the header names it; editing the
  preferred quote leaves the shipment's freight as it was. Selecting a quote while it is deleted
  leaves a workspace whose header names a deleted quote, and no shipment can be generated.
* An edit may move a preferred quote to another shipment, which then has two, while the first still
  charges its price (`logistics.service.ts:2234`); the sales contract writes a shipment's freight
  without looking at quotes (`sales-contract.service.ts:1022`).
* Two edits of a direct quote at once can leave the routes of both: an edit deletes
  the routes it sees, and those another one commits meanwhile stay (`logistics.service.ts:2098`).
  The version of a quote counts overlapping edits once.
* A reminder left by a crash or a refused deletion suppresses the next day's; job and login that
  overlap make two; completing a follow-up does not delete its reminders.
* A refused INSERT of a notification is swallowed (`notifications.service.ts:203`) and the job goes on:
  the follow-up has no reminder that day, unless a login makes one. `completeFollowUp` writes any status, 'Pending' too, and looks
  for no reminder.
* A PATCH of a subtask takes any body (`task-subtask.controller.ts:94`): it may write a code that
  exists, or move the subtask, after which a letter of the old parent repeats.
* Restoring a task does not clear `isDeleted`; `bulkDelete` does not cascade; a crash after the
  commit leaves subtasks; the optimistic version check never triggers after an update.

*Monthly stock reports*

* An edit that tested the report before it was published changes it afterwards (`:502`); a report
  created as published, from a source, is filled after that.
* `update` saves month and status before it refuses an empty list of countries, and may publish
  without a `publishedAt`. Two updates at once leave the countries twice; a crash leaves none.
* Operations on columns, and changing, deleting and reordering rows, test the report in the path, not
  that the section belongs to it: through the id of a draft a published report changes. Saving a section fills cells of any column
  (`monthly-stock-summary.service.ts:1053`). Columns are deleted for good, with their cells.
* Saving a section that names no id deletes nothing; a row deleted meanwhile is added anew by a
  page that still shows it, and a cell of a column deleted meanwhile undoes the save.

*Organisation and sessions*

* The cycle test for units walks active units only, so a cycle through an inactive one is
  allowed; reactivating it closes the cycle, and the UNION ALL query from a unit of it never
  ends. Hiring and `updateEmployee` do not apply the depth limit.
* A terminated manager keeps his subordinates. `updateEmployee` can leave a user active whose
  employee is terminated, and locks user and employee in the opposite order of
  `transitionLifecycle`.
* `refresh` needs a second pool connection while it holds the session row. A logout that
  overlaps a refresh does not reach the session the refresh is about to insert.

*Enquiries*

* Two overlapping D&B reports leave two latest ones; two overlapping updates of loading points or
  destinations leave both lists (`enquiries.service.ts:1043`).
* Clients may write `closedAt` with any status, and entries of the log with any price
  (`enquiries.service.ts:514`, `:1195`).
* An update loaded before a reopening leaves an open enquiry dated closed; overlapping updates
  can leave a bid without a currency and log prices in the wrong order. A failed price log is
  swallowed.

*Notifications and chat*

* A refused save after a successful attempt sends again. When `createLog` fails, the send goes on
  with a log that is not in the table.
* Two members who send at once deadlock (own row first, then the others'). A run of the timer
  that outlasts its interval overlaps the next. `cancelScheduled` answers true although a run
  has already read the message. The timer reads 100 messages in no stated order, so what is due may
  wait for ever behind others that are refused each time; a message whose conversation is gone is
  marked sent (`scheduled-message.service.ts:148`, `:162`). Polls, replies in threads and system
  messages do not raise the counters of unread messages. `markRead` zeroes messages committed between its load and save.
* Two concurrent edits keep the same version twice and lose a content; an edit loaded before a
  deletion for everyone restores it. A `markRead` between the statements of `clearChat` makes it
  fail half way. Two concurrent ballots leave two votes of a member in a poll for one choice, and
  a ballot loaded before the poll is closed counts after it.
* A direct message and a discussion are looked for and then created: two requests make two. A
  group may name a document when it is created (`conversation.service.ts:303`), which then has two. A
  third person can be added to a direct message, also by marking a message as read
  (`message.service.ts:867`), after which the same two people get another one.
* The rules of a conversation remove its owner like anybody else; an owner who transfers the
  ownership to himself loses it (`conversation-admin.service.ts:196`).
* A user with tabs in two companies is told OFFLINE only in that of the last tab
  (`chat.gateway.ts:188`). `client.to` reaches the user's own other tabs, and one timer serves
  them all: a tab may go on showing its own user typing. A `typing_start` whose checks outlast
  the `typing_stop` after it, or the disconnect, shows its user for four seconds more.
* Overlapping `markRead` requests of a user may broadcast a receipt other than the one the row keeps.
* An archived conversation never comes back: archiving sets `deletedAt` of a paranoid model, and
  `unarchive` (and the list of archived ones) looks among the others
  (`conversation.service.ts:838`).

## Plan

Done: all modules above. What is left, in order of what it would add:

1. Composition: one trade through `SalesContracts`, `ContractShipments` and
   `PurchaseContracts`, as far as the state space allows: cancelling an entry of a shipment
   list under a concurrent reallocation.
2. The workspace `getDetails` creates and the routes it synchronises on every read
   (`logistics.service.ts:1029`); chat policies (`policy.service.ts`).
3. `CargoExecution` with two cargos and containers; freight readiness.
4. Attendance policies: hours and status of a day as a function, against a definition by cases.

## Not modelled

* Forms over one table, with no test that a second request could overtake: clients, companies,
  profile, locations, masters, rbac, enquiry items, holidays, monthly targets.
* Queries, dashboards, reports, exports, the stock dashboard: no state of their own.
* Files, e-mail and socket transport, PDF and Excel: I/O.
* Quotations: a single SERIALIZABLE transaction, ordered by PostgreSQL and not by the code.
* Migrations and seed scripts: their constraints, indexes and triggers are cited where a model
  relies on them, the statements that create tables are not behaviour of the running system.
* Of modelled components, what the section of the module calls left out. Much of each service
  file is reading, mapping and formatting around the statements that are modelled.
* Who is allowed to call what.

## Running

    tlc -config ReferenceRequests.cfg MCBusinessReference.tla
    tlc -config Records.cfg MCRecords.tla
    tlapm BusinessReferenceProofs.tla

Each run takes about three minutes or less with two TLC workers, each module of proofs less
than ten but `MessagingProofs` (about a quarter of an hour) and `RecordsProofs` (about twenty
minutes).
