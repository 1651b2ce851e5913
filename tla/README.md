# FieldFlow: specifications, model checking and proofs

FieldFlow keeps, for every work date, a checklist of the tools a crew takes out. A Vue frontend
talks to a NestJS backend (TypeORM on MySQL 8.4, REPEATABLE READ); several people edit the same
checklist at the same time from phones with bad connections, while administrators change the
catalogue of tools and categories and the user accounts. This directory states what that code must
guarantee under all those interleavings, checks it with TLC on small instances and proves the safety
part of it with TLAPS for all of them.

Paths below are relative to the repository root as seen from here (`src/...`).
`PROJECT.json` maps every definition to the lines it models.

## 1. Inventory

| part | state | operations | what is hard |
|---|---|---|---|
| Daily checklist service (`backend/src/daily-checklists`) | headers (revisions) of a date, their periods and categories, their items | create-or-get, save one item, add categories, replace the configuration, delete | overlapping transactions, stale views, snapshots of a moving catalogue, values lost by a replacement |
| Tools, categories (`backend/src/tools`, `backend/src/categories`) | status, category, stock, version of each row | create, edit, (de)activate | optimistic versions, check-then-act across two tables, lock order |
| Authentication (`backend/src/auth`) | failure counter and lock of a user, refresh sessions, `authVersion` | login, refresh, logout, change password | rotation with lost answers, reuse detection, revocation racing a refresh |
| Guards (`backend/src/auth/guards`) | none | admit a request | the user is read before the handler's transaction |
| User administration (`backend/src/users`) | role, status, versions of users | create, edit, (de)activate, reissue password | the last active administrator, revocation of sessions |
| Checklist screen (`frontend/src/views/DailyChecklistView.vue`) | the shown revision, one save queue per item | edit, autosave, retry, reload, change date | late, lost and reordered answers |
| Creation and addition dialogs (`frontend/src/components`) | a draft | create, configure, add | a draft older than the table |
| Session store, API client (`frontend/src/stores/auth.ts`, `frontend/src/api/client.ts`) | access token, the refresh under way | login, refresh, logout, retry after 401 | concurrent 401s, logout racing a refresh, two tabs with one cookie |
| Start-up screen and edge router (`frontend/src/stores/backend-startup.ts`, `cloudflare/src/router.ts`) | health loop | wait until ready, mark unavailable | overlapping loops |
| Master data screens (`frontend/src/views/UsersView.vue`, `ToolsView.vue`, `CategoriesView.vue`, `HomeView.vue`) | a page of a list, one dialog, busy flags | load, filter, turn pages, open, save | an old answer under a new page or dialog, failures between a save and its reload |
| Connection pool, throttler, logging, configuration, seeds, infrastructure | library or start-up state | | see section 14 |

How they interact: the screen calls the backend through the API client, which adds the access token
and refreshes it; guards read the user, then the controller calls one service method, which runs one
MySQL transaction. All shared state is in MySQL: services synchronise through row locks
(`pessimistic_read` = FOR SHARE, `pessimistic_write` = FOR UPDATE), unique keys and version columns.

## 2. Modules and plan

| module | question | runs | proofs |
|---|---|---|---|
| `DailyChecklists`, `AtomicChecklist` | do overlapping requests on one date keep one whole, current, explainable table, as if they were served one at a time? | `entries`, `catalog`, `answered`, `overwrite` | `DailyChecklistsProofs` |
| `OptimisticItem`, `ItemAutosave` | does the per-item save queue, over a network that loses answers, implement a versioned register, and does the screen tell the truth about what is saved? | `checklist_screen`, `all_saved` | `ItemAutosaveProofs` |
| `DailyView` | does the screen around the items show, save and replace the table the user means, whatever dates and answers do? | `checklist_screen` | `ChecklistScreenProofs` |
| `Preparation` | does the summary of a table say what its items say? | `checklist_screen`, `home_complete` | `ChecklistScreenProofs` |
| `AuthSessions` | do lockout, rotation, reuse detection and revocation hold against requests in flight? | `sessions`, `logout_race` | `AuthSessionsProofs` |
| `SessionClient` | one refresh at a time, one retry, one expiry notice, no screen without its session, and a page that comes up while the backend sleeps? | `client`, `expiry` | `SessionClientProofs` |
| `UserAdmin` | does an active administrator remain, and does an edit see what it replaces? | `administration` | `UserAdminProofs` |
| `MasterData` | are active tools always usable, and is what a checklist copies whole? | `administration` | `MasterDataProofs` |
| `AdminScreens` | do the three list screens keep dialogs, answers, passwords and pages together? | `administration` | `AdminScreensProofs` |

The modules of one part of the system are checked side by side in one run, each on its own small instance:
`MCChecklistScreen` (`ItemAutosave`, `DailyView`, `Preparation`) and `MCAdministration` (`UserAdmin`,
`MasterData` twice, `AdminScreens`) choose one in the initial state by a variable `part`, and the others keep
still. `MCOverlaps` and `MCSessions` choose in the same way between two instances of `DailyChecklists` and of
`AuthSessions`. So a property of a module is checked on the behaviours of that module's own `Next`; what a part
cuts off is written in the MC module.

How the models meet: `ItemAutosave` and `DailyView` take a request to the server as one atomic step, which
sections 3 and 4 justify by the row locks; `SessionClient` keeps of the server what a browser can tell apart,
and `AuthSessions` has the whole of it; `MasterData` creates checklists only as far as their locks on the
catalogue go, and `DailyChecklists` changes the catalogue only as far as a table can see it.

Every safety invariant and action property of the passing runs is proved (sections 4 to 11). What TLC alone
shows is liveness: `Answered`, `ClosesAfterMidnight`, `Settles`, `MasterAnswered`, `SavesEnd`, `CallsEnd`,
`StartsUp` (fairness and ENABLED are outside the prover's reach).

Left for later: two tabs that share a cookie in `SessionClient` (at the server they are in `AuthSessions`);
abstract specifications of authentication and of the master data, the latter to show that the one-step changes
of the catalogue in `DailyChecklists` are what `MasterData` does.

## 3. `DailyChecklists`, `AtomicChecklist`

One work date. `header`, `chosen`, `items` are the tables `daily_checklists`,
`daily_checklist_period_categories` and `daily_checklist_items`; `category` and `tool` the catalogue
rows; `past` says whether the date lies before today in Tokyo. Each client has at most one request
(`req`), the stage of its handler (`pc`) and what its transaction has read (`txn`). `unseen` is a
history variable: what other users added to the revision a pending replacement names.

A handler is one step per statement that takes a lock or whose timing matters; its writes are applied
by its commit step, since nobody sees them before.

| operation | steps |
|---|---|
| `createOrGet` 64-109 | `FindExisting` or `FindNone`, `LockCategories`, `LockTools`, `InsertHeader` or `LoseInsert` (unique key), `CommitCreate`; the loser's `Reread` |
| `updateItem` 115-167 | `LockHeaderForItem` (shared header, then its checks), `UpdateRow` (the conditional UPDATE), `CommitItem` |
| `addCategories` 170-262 | `LockHeaderForAdd` (shared header, exclusive period), `LockCategories`, `LockTools`, `CommitAdd` |
| `updateConfiguration` 267-304 | `LockHeaderForConfigure` (exclusive header), `LockCategories`, `LockTools`, `CommitConfigure` (cancel and insert) |
| `cancel` 307-324 | `LockHeaderForCancel`, `CommitCancel` |
| catalogue | `UpdateTool`, `ActivateTool`, `DeactivateTool`, `ActivateCategory`, `DeactivateCategory`, one step each |
| environment | `Submit`, `Abort` (deadlock victim, timeout, lost connection), `Midnight` |

Locks are not variables: which locks a transaction holds follows from its stage
(`SharesHeader`, `OwnsHeader`, `LocksPeriod`, `LocksItem`, `LocksCategory`, `LocksTool`), so that
releasing them at commit, rollback and abort needs no bookkeeping and cannot be forgotten.

Reading at REPEATABLE READ. A locking read returns the last committed row; a plain read returns the
snapshot of the transaction's first plain read. Where the code reads plainly after a lock
(`loadPeriod`, `loadItem`, the duplicate checks of an addition, `loadRequiredById`) the snapshot is
taken after the lock, and the rows in question only change under that lock, so the value read is the
committed one; the item's version is compared by the UPDATE itself, which reads the last committed row.

Simplifications, each allowing more behaviour than the code, never less:
- The shared header and the period lock of an addition are taken in one step. In MySQL an addition that
  waits for the period already holds the header; here a replacement may go first.
- A creation's INSERT waits for exclusive owners of the header only. In MySQL it may also wait for the
  range locks of readers, after which it finds the same duplicate key.
- An aborted transaction may be any that is open, at any point.

Bounds: `Clients` requests in flight, `Revisions` headers ever inserted (`RevisionsLeft` keeps one unused
id for each creation under way), `MaxStock` for stock and quantities, `MaxVersion` for the versions that
item requests carry, `Ops` restricts a run to the operations it is about.

### Properties

Each names the line it protects in its comment in the module.

- `OneActive`, `TableSound` - one current table, whole and within its limits, in every interleaving.
- `CancelledFrozen` - no save or addition under way lands in a revision that became history.
- `LossIsConfirmed` - values entered while a deletion waits for its lock are not lost unasked.
- `CarriedOver` - a replacement carries exactly the values of that moment, or resets them.
- `VersionedWrites` - no lost update between saves of one item.
- `SnapshotsAreCurrent` - what appears in a table is the catalogue at the moment it becomes visible.
- `ServedAtomically` - the whole is an `AtomicChecklist`: no transactions and no locks, a request that was
  admitted takes effect at one instant, on the table and the catalogue of that instant, or leaves no trace.
  Every check of the code that was made steps before the commit has to hold at the commit for that. A creation that
  finds a table is answered with it, which is no effect. Names are the same in both, so the mapping is the
  identity on `category`, `tool`, `header`, `chosen`, `items`, `past` and `req`; `pc`, `txn` and `unseen` vanish.
- `Answered`, `ClosesAfterMidnight` - every request ends; after midnight the date comes to rest.

### Runs

| run | instance | checks |
|---|---|---|
| `entries` (`MCOverlaps`) | part `entries`: 3 requests (creations, item saves, replacements, deletions) on a full-day table, 2 revisions, 1 tool, item versions up to 2; part `halves`: 2 requests (additions too), 3 revisions, full-day and morning/afternoon bodies | `OneActive`, `CancelledFrozen`, `LossIsConfirmed`, `VersionedWrites` |
| `catalog` | 2 requests against changes of tools, stock and categories | `TableSound`, `SnapshotsAreCurrent`, `CarriedOver`, `ServedAtomically` |
| `answered` | 2 requests of every kind, with fairness and midnight; quantities are all 0 | `Answered`, `ClosesAfterMidnight` |
| `overwrite` | 2 requests | finds `NoSilentOverwrite` violated |

Why these are enough to see the interesting cases: three requests let a save, a replacement and a
creation overlap; two revisions let one replace the other, three let a replacement be replaced; two
versions of an item are what a conflict needs; stock 0 and 1 with quantity 1 is a value the new stock
cannot hold. Clients and revisions are symmetric, and symmetry is used in the runs without
liveness only. `ServedAtomically` was checked on the instance of `entries` too, where deletions and three
requests at once occur; `IInv` was checked there, and the further invariants of section 4 on the instance of
`catalog`, before they were proved.

`overwrite` is a finding. `docs/design/api.md:240` promises that a replacement whose id or version does
not match is refused and does not overwrite another user's change. `addCategories` changes the table
without touching the header, so a replacement prepared on a view without the added category passes
`assertCurrentRevision` and drops it. Entered values are still guarded by the loss confirmation; the
added category is not.

Fairness: strong fairness of each client's handler (`Handle`). A handler is a chain of awaited
statements, so an enabled step is eventually taken, and InnoDB queues lock requests, so a lock that
becomes free again and again is granted to a waiting transaction. Nothing is assumed of `Abort`: no
request needs to be rescued by a timeout. Nothing is assumed of clients, administrators or midnight.

## 4. Proofs: `DailyChecklistsProofs`

For every set of clients, revisions, categories and tools and all request bodies that satisfy
`ConstantsAssumption`:

| theorem | says |
|---|---|
| `TypeCorrect` | `Spec => []TypeOK` |
| `LockDiscipline` | `Spec => []IInv` |
| `OneActiveAlways`, `TableSoundAlways` | the invariants `OneActive` and `TableSound` |
| `CancelledFrozenAlways`, `LossIsConfirmedAlways`, `VersionedWritesAlways`, `CarriedOverAlways`, `SnapshotsAreCurrentAlways` | the action properties |
| `ServedAtomicallyAlways` | `Spec => ServedAtomically`, the refinement of `AtomicChecklist` |

The properties are not inductive: that a save does not land in history depends on what it checked some
steps earlier. `IInv` adds (a) mutual exclusion of header, period and item locks, (b) that an uncommitted
insert has no rival, (c) that what a transaction checked under a lock is still true while it holds it
(`OwnedIsCurrent`, `SaveIsCurrent`, `AdditionIsCurrent`). Steps are sorted into four kinds: a `ReadStep`
or `QuietStep` changes no table row and moves one client; a `KeepStep` changes what no transaction relies
on; a `CommitStep` changes rows, and then only rows its own lock covers. One lemma per kind carries the
parts of `IInv` over; `OnlyCommitsWrite` then gives the action properties from four commit steps.

Snapshots need four more invariants, each proved on its own from `IInv`:
- `BodiesSound`: a request under way has the periods of its mode, and only a replacement keeps items.
- `CatalogueHeld`: between `LockCategories` and the commit the categories are still usable, and between
  `LockTools` and the commit `txn.rows` is exactly the active tools of those categories. The argument is the one the
  locks are for: an administrator's step waits for every category and tool row that a snapshot has locked
  (`FreeIsNotTaken`), and a tool can only come on offer through a category that is locked (`OfferStays`).
- `AbsentEmpty`, `AbsentUnchosen`: a revision that was not inserted has no items and no categories.

`TableSound` is inductive relative to these; so are `CarriedOver` and `SnapshotsAreCurrent`, step by step
(`InsertEffect` says what an insert writes into each slot, `InsertShows` and `CommitAddShows` which tools
appear).

The refinement sorts the steps of a handler by what the users of the date can see: `ReadsOnly` shows that all but
the commits leave table, catalogue and date alone and either go on (a stutter) or end the request
(`Refuse`); each commit has a lemma of its own (`AtomicCreate`, `AtomicSave`, `AtomicAdd`, `AtomicReplace`,
`AtomicDelete`) that takes from `IInv` and `CatalogueHeld` that what was checked earlier is true now, and from
`AtomicSnapshot` or `AtomicRows` that the rows copied earlier are the catalogue of now.

The liveness properties are model-checked only.

## 5. `OptimisticItem`, `ItemAutosave`, `ItemAutosaveProofs`

One item, seen from the browser: the save queue of `DailyChecklistView.vue`, the network, the row.
Queues of different items share nothing, so one item stands for all.

| state | code |
|---|---|
| `log` | every version the row ever had, and which queue wrote it (the row is its last entry) |
| `load`, `owner` | the loads of the table that were started, by which tab, and how far they are |
| `shown`, `error` | the table a tab has on display; an error notice hides any table until the next load |
| `item` | the item object of a load: the value on display and the version known |
| `status`, `pending`, `running`, `conflict` | `ItemSaveState` |
| `call` | the PATCH a drain waits for: on its way, stored, or refused with the current row |
| `stray` | PATCHes whose client has given up, and that may still arrive |

Each load makes a new item object and a new `ItemSaveState`; a drain that is under way goes on with the
old pair, which the screen has forgotten. The model therefore keeps one queue per load.

Actions: `StartLoad`, `ReadTable`, `ShowTable`, `FailLoad` (`loadChecklist`; overlapping loads of a tab
are shown in the order their answers arrive), `CategoriesAdded`, `Edit`, `RejectInput`, `Retry`,
`CloseNotice`; `StoreSave` and `StoreStray` (`updateItem` on the server, one atomic step: section 3
shows that the row lock makes it so); `SaveAnswered`, `ConflictAnswered`, `LoseAnswer` (the three ways
out of the `await` in `drainItemSaveQueue`). `LoseAnswer` stands for every error that is not a conflict:
the PATCH may never have left, may have been refused, may still arrive, or may have been stored.

Properties:
- `SavedIsStored` - a row that reports "saved" shows what the server stored under the version it holds,
  and that is the user's last input, stored by this queue, unless a conflict notice withdrew it.
- `InputKept` - no answer, however late, replaces an input on display without a notice; also after a
  failure, so that the retry sends the newest value.
- `NoBlindOverwrite` - a save that is stored, even a stray one, replaces a value its own queue wrote or
  had on display.
- `ImplementsRegister` - the whole is an `OptimisticItem`: an append-only history that only a writer who
  knows its end extends, whose writers never go back (`known` is the version of each queue's item).
- `Settles` - every drain ends.

| run | instance | shows |
|---|---|---|
| `checklist_screen`, part `item` | 2 tabs, 2 loads, 2 values, 3 inputs, with fairness | the safety properties, the refinement, and `Settles` |
| `all_saved` | the same with 2 inputs | finds `AllSavedMeansIdle` violated |

Two loads give two tabs with a queue each, or one tab that reloads while its old drain runs. Three inputs
give a save under way, a newer input, and a competing save; a lost answer, a retry and a stray also need
no more. Deadlock is not checked: loads and inputs are bounded, so the users stop. Fairness is weak
fairness of `Saving(k)`: a call ends, with an answer or an error. `Settles` does not claim that a user who
never stops typing sees "saved": inputs are bounded.

Finding. `all_saved`: `docs/features/daily-checklists.md:38` says "all saved" is shown only when no item
is pending, running or failed. A reload empties `itemSaveStates` while a drain runs: the screen shows "all
saved" before the save is stored, and a failure of that save is shown nowhere. No data is lost:
`SavedIsStored` and `NoBlindOverwrite` hold. In the same way a save whose answer was lost comes back, when it
is retried, as another user's change, though it is the user's own value.

Proofs, for all sets of tabs, queues and values and any number of inputs: `TypeCorrect`, `InvAlways`,
`SavedIsStoredAlways`, `InputKeptAlways`, `NoBlindOverwriteAlways`, `RegisterImplemented`. They rest on
`QueuesAssumption` (there is a value; `None` is none of the others). The properties are not inductive: that
the answer "saved" may be shown depends on what was sent, and that a stray save is harmless on what its
queue knew when it was sent. `IInv` adds `QueuesInOrder` (only a shown queue saves, and what is pending is
on display), `CallsInOrder` (what a call or its answer says about the row) and `VersionsKnown` (the version
of a queue, or of a stray, is one it wrote or displayed). Since queues share only the log, which grows,
`IInv` is sorted by queue (`QueueOK`): `UntouchedOK` carries it over for every queue a step does not touch
and `StepInv` leaves each action one queue to look at. `RegisterImplemented` maps every step to `Learn`,
`Write` or a stutter. `Settles` is model-checked only.

## 6. `DailyView`, `Preparation`, `ChecklistScreenProofs`

`DailyView` is the screen around the items. `table` is the current revision of each date in the database,
`route` the date of the route, `view` the refs (the sheet on display, `isLoading`, `isMissing`, the error, the
state of the item saves and the date they are sent to), `form`, `adding` and `deleting` the three dialogs,
`gets` the loads and `sent` the other requests under way. A date is left by the form, by today's button or by
the browser's history, which works while dialogs are open and requests are under way; answers come in any
order. An answer that finds its dialog or item gone is `attached = FALSE` and touches only what the code still
reaches. Whether loads have overlapped or crossed a dialog or a request is remembered in `route.overtaken`: from
then on the code has no guard that would show the date of the route, and no property claims it.

| code | actions |
|---|---|
| `loadChecklist`, the two watchers, `moveToSelectedDate`, history | `MoveToSelectedDate`, `MoveInHistory`, `Loaded`, `NotFound`, `GetFails` |
| inputs of items (`ItemAutosave` has their queues) | `ChangeItem`, `ItemAnswered` |
| `ChecklistCreationDialog` | `OpenForm`, `CloseForm`, `ChangeSelection`, `Warn`, `Submit`, `Created`, `Configured`, `FormRefused` |
| `ChecklistCategoryAdditionDialog` | `OpenAdding`, `CloseAdding`, `SubmitAdding`, `Added`, `AddRefused` |
| deletion | `OpenDeleting`, `CloseDeleting`, `DeleteChecklist`, `Deleted`, `DeleteRefused` |
| another user | `Others` |

`Preparation` is what screens conclude from the items: groups by category NAME, categories without quantities,
status, progress, and the label of the home screen, while quantities and check marks change (`ChangeQuantity`,
`ChangeChecked`, `SelectHalf`). Plans are all snapshots that the service can make: tools of the selected and of
the common category, selected categories without tools, and names that two categories share.

- `DayInv` - besides the types: saves go to the date of the sheet they belong to, even when a late answer has
  put another date's sheet on display (`SavesGoToTheirDate`); without such overlaps the sheet is of the date of
  the route (`ShownIsRoute`); no dialog disappears while its request is under way (`DialogsWait`).
- `WarnedBeforeLoss` - entered values are replaced only by a user who saw the warning for the very selection
  that is sent.
- `ChangesWhatWasShown` - unless a load came between, a replacement and a deletion change the revision on
  display (id and version, which both requests carry), the one that a replacement's form was filled from. The
  request of an addition (`ChecklistCategoryAdditionDialog.vue:75`) carries no revision: after another user's
  replacement it extends a revision that was not on display. Of an addition the property says only that it goes
  to the date its dialog was opened on, and that the revision it has extended comes on display.
- `CompleteMeansReady` - with different names, "complete" means that every category of the half has something
  to take and all of it is ready. Categories of one name are one to the screen, so they are left out.
- `ProgressSound` - a quantity that goes to 0 takes its check mark along; 100% means that all is ready. From 200
  items on `Math.round` shows 100% while one item is missing: the property says so by its bound.

Run `checklist_screen`, part `day`: 2 dates, 2 selections, 2 revisions per date (`MaxRevisions`), 2 loads
(`MaxLoads`); part `summary`: 2 items, 3 categories, 3 names, stock 1. Two dates and two loads give a late
answer for the date that was left; two revisions give a dialog that is older than the table. `DailyView` alone
was also checked with three loads (1.4 million states). Deadlock is not checked: inputs are bounded.

Finding. `home_complete`: `docs/requirements.md:123` says that "complete" is not shown while a category without
quantities is left. The home screen's `progressLabel` looks at all items with a quantity together, so it says
so with a whole category still empty.

Proofs (`ChecklistScreenProofs`) of the summary, for any items, categories and names and any positive stock: `PrepInvAlways`
(quantities within the stock, check marks only with quantities: inductive as it stands),
`CompleteMeansReadyAlways` (a lemma says what groups of different names are; the empty groups of selected
categories are why a category without tools counts as unset), `ProgressSoundAlways` (from cardinalities of the
ready among the taken items and the arithmetic of the rounded share).

Proofs of the screen, for any dates, selections and bounds under `DailyViewAssumption`: `DayInvAlways`,
`WarnedBeforeLossAlways`, `ChangesWhatWasShownAlways`. `DayInv` is not inductive: that an answer meets its
dialog depends on the dialogs excluding each other and on what was known when the request was sent. `DayParts`
adds `RequestOK` (an item's save goes to the date of its sheet; a confirmation is one of the selection that is
sent), `Dialogs` (one dialog at most is open, it has one request at most, and that keeps it open) and `OnTrack`:
unless a load has overtaken something, at most one load is under way, it is of the date of the route, no dialog
is open over it, and a dialog is about the sheet on display. `WarnedBeforeLoss` needs only `FormOK` (a given
confirmation is of the present selection). `ChangesWhatWasShown` needs one more invariant, `Displayed`: unless a
load came between, the request of a dialog carries the revision still on display and its screen still waits for
the answer. It rests on `OneRequest`: the dialogs exclude each other, so no other answer can change the display.

## 7. `AuthSessions`, `AuthSessionsProofs`

One account: its row in `users`, its refresh sessions, and requests of any number of browsers, of tabs that
share a browser's cookie, and of administrators, all under way together.

| state | code |
|---|---|
| `user`, `session` | the columns of `users` (the role among them) and `refresh_sessions` that decide anything; a token stands for its session's id, `lockedUntil` 0 for null |
| `cookie` | the refresh token each browser keeps |
| `pc`, `req`, `txn`, `reply` | the stage of a request, the request, the rows its transaction has read, what its answer does to the cookie |
| `now` | the clock; a request samples it once, before its transaction, as the code does |
| `issued`, `origin`, `streak` | history: access tokens handed out; the login a session goes back to; wrong passwords in a row |

| operation | steps |
|---|---|
| `login` 65-145 | `LockUser`, then `RefuseLogin`, `CountFailure` or `Admit` |
| `refresh` 165-236 | `LockSession`, `LockUser` (the locking join takes the rows in this order), then `RejectRefresh`, `DetectReuse`, `ExpireSession` or `Rotate` |
| `logout` 258-280 | `LockSession`, `Logout` |
| `changePassword` 297-333 | `Guard` (`JwtAuthGuard`, before and outside the transaction), `LockUser`, then `RefusePassword` or `ChangePassword` |
| `reissueTemporaryPassword`, `updateStatus`, `update` | `LockUser`, then `Reissue`, `Deactivate` or `Activate`, `Update` (the role; it leaves `authVersion` and sessions alone) |
| environment | `Submit`, `Deliver` or `Lose` (the answer and its cookie), `Abort`, `Victim` (a deadlock broken), `Tick` |

The revoking UPDATE locks the live sessions (its index starts with `user_id, revoked_at`), so it waits for a
refresh that holds one of them (`LiveAreFree`), which may itself wait for the user: the deadlock `Victim` ends.

Left out, each allowing more behaviour than the code: the access token's own expiry, the cookie's `maxAge`,
the limit of logins per IP address. Administrators' own checks may refuse their requests (`Abort`; section 9).

Properties:
- `OneChainPerLogin` - refreshes that overlap or repeat a token never fork a chain, and a used token names
  its successor, which is how reuse is recognised.
- `LiveIsCurrent` - no session that can be refreshed survives a deactivation or a new password, also when the
  login or refresh that made it was under way.
- `RevokedForever` - an access token that the guard refuses for the user's status, `authVersion` or
  `mustChangePassword` is refused for ever, also after re-activation and whatever edits of the role follow. A
  token refused for its role alone is not revoked: `update` (`users.service.ts:134`) changes the role without a
  new `authVersion`, so the token is accepted again once its user has that role again, and by no other step.
- `LockoutHolds` - the history of wrong passwords, kept apart from the row, says when logins must fail;
  overlapping attempts and the end of a lock included.
- `Answered` - every request ends.

| run | instance | shows |
|---|---|---|
| `sessions` (`MCSessions`) | part `chains`: logins, refreshes and logouts of 2 requests over 3 sessions, time standing still; part `account`: every operation but `update` over 2 sessions, with a clock that passes the end of a lock and of a session; part `roles`: `update` among logins, refreshes, reissues and changes of the status; all with fairness | `OneChainPerLogin`, `LiveIsCurrent`, `LockoutHolds`, `RevokedForever`, `Answered` |
| `logout_race` | 2 requests | finds `LogoutEndsLogin` violated |

Bounds: `Sessions` (ids; `WithinBounds` keeps one for each grant under way), `MaxAuth` for `authVersion`,
`MaxTime` for the clock, `MaxFailed` and `LockTime` small so that a lock begins and ends within it, `Ops` the
operations a run is about. Two requests make every race of these properties, since each is between two holders
of one row; three sessions are what a fork of a chain needs; the proofs below cover the rest. Clients,
sessions, browsers and passwords are interchangeable; with liveness in the run, symmetry is not used.

Fairness: strong fairness of each request's handler, as in section 3, and weak fairness of `Victim`: InnoDB
detects a cycle of lock waits at once and rolls one transaction back. Without the latter `Answered` fails.
Nothing is assumed of users, administrators or the clock.

Finding. `docs/features/auth.md:20` says a logout revokes the refresh session of its device. `logout` looks
only at the session of the token it carries. When a refresh with that token committed first, the session is
revoked already and the successor stays live; the browser keeps it if the refresh's answer comes last.

Proofs, for all sets of browsers, requests, sessions and passwords, with `ConstantsAssumption`: `TypeCorrect`,
`LockDiscipline` (`IInv`), `OneChainAlways`, `LiveIsCurrentAlways`, `RevokedForeverAlways`,
`LockoutHoldsAlways`. That a new session is current depends on the user's row not moving between its read and
the commit; so `IInv` adds `LocksOK` (row locks exclude each other) and `ReadsOK` (what is locked is as it was
read). `SessionsOK` says that tokens on their way are known and chains end in known sessions, `IssuedOK` and
`StreakOK` tie the row to the histories: every revocation passes every issued token's `authVersion`, and the
counter equals the streak. `RevokedForever` follows from `IssuedOK`: a token with the present `authVersion` is one
that nothing but the role can refuse, so only an edit of the role turns a refusal round. `Committing` collects what a handler may rely on at its commit; each handler has a
lemma that uses it. `Answered` is model-checked only.

## 8. `SessionClient`, `SessionClientProofs`

The browser's side of a session. JavaScript runs a handler up to its next `await`, so an action is one such
stretch; what interleaves is the answers.

| state | code |
|---|---|
| `store`, `refreshing` | the session store (status, token, and of the user the role and whether the password must change) and its `refreshPromise` |
| `notified`, `observed` | `sessionExpirationNotified`, `lastObservedAccessToken` of the API client |
| `calls` | calls under way: business calls, login, logout, password change, refreshes; whether a call was retried, waits for a refresh, still has its screen |
| `route`, `boot` | the route on screen, `main.ts` up to the first navigation |
| `startup`, `loops` | the start-up store and its health loops |
| `cookie`, `server`, `upsets` | the browser's cookie, what a browser can tell of the server (an access token is accepted while its user has the role it was issued for), a bound |
| `noticed` | history: the tokens whose expiry was announced |

The two slots for refreshes and the two for loops leave room for the second one that the code means not to
start. Actions: `Navigate` (through the guard, `Guarded`), `BusinessCall`, `SubmitLogin`, `SubmitPassword`,
`HandleLogout`, `BackToLogin`, `ReloadPage`; `ServeCall`, `Lose`, `AccessExpires`, `Reissued`, `RoleChanged`,
`Sleeps`, `Wakes` for the server and the edge; `Deliver` (`AnswerOk`, `Refused`, `Unauthorized`, `RetryFailed`,
`PasswordChanged`, `LoggedIn`, `LoginFailed`, `LoggedOut`) and `Settle` (`Refreshed`, `RefreshFailed`, with everything that waited);
`HealthOk`, `HealthFails`, `HealthRetries`.

- `ClientInv` - besides the types: at most one refresh, exactly while the promise is set, and whoever waits has
  one to wait for (a second refresh with a used token would end every session of the user); at most one health
  loop, exactly while the start-up screen is up.
- `ScreensHaveSession` - no screen outlives its session. User administration comes on screen for administrators
  only: no navigation, login or restored session leads there without the role. One event leaves it up under
  another role: a refresh that brings a changed role replaces the user of the store and leaves the route alone
  (`applySession`, `stores/auth.ts:33`), so an administrator who was demoted meets a 401, refreshes as a worker and
  stays on the screen up to the next navigation; the backend refuses what it sends.
- `PasswordFirst` - whoever must change the password gets past no screen but the one for it: no navigation,
  login or refresh of the session at hand leads to an inner screen. One event is excepted by name (`LateRefresh`): `refreshAccessToken`
  (`stores/auth.ts:55`) calls `applySession` with whatever answer arrives, so the late answer to a refresh of an
  earlier session can put a session that must change the password under a screen that a newer login has opened. It
  takes four token pairs (the earlier session's, its successor by a login after a reissue, that one's refresh,
  and the login after the password was changed); the guard asks at the next navigation, and the backend refuses
  business calls of such a session at once.
- `ExpiresOnce` - one expiry notice per token, by a failed refresh or a failed retry only.
- `CallsEnd`, `StartsUp` - no call waits for a refresh that waits for it; once the backend stays up the
  start-up screen goes for good.

Run `client`: 2 calls, 2 token pairs (`MaxPairs`), one upset (`MaxUpsets`: a reload, a lost answer, a reissued
password, a changed role or a sleeping backend), of an administrator or a worker. Two calls meet a 401 at the
same time, or one meets it while the other logs out; two pairs make a token that is used up; the proofs cover
the rest. Fairness: every call gets an answer or an error (its connection breaks at last) and every answer is
handled; a loop's timer fires; a health check of a backend that stays up gets through at some time (strong fairness of `HealthOk`).

Finding. `expiry`: `docs/plans/roadmap-05-frontend-auth-ui.md:63` wants the expiry screen only when the refresh
fails. The retried request is sent inside the `try` whose `catch` gives the notice, so any failure of the retry
(409, 422, 503, a lost answer), after a refresh that succeeded, ends the session.

Proofs, for any number of calls, token pairs and upsets, under `ClientBounds` and
`SlotsAssumption` (a call is not a refresh): `ClientInvAlways`, `ScreensHaveSessionAlways`,
`ExpiresOnceAlways`, `PasswordFirstAlways`. That one refresh is
under way is not inductive: `AllClientInv` adds which slots may hold what (`SlotsOK`), that who waits has a
promise (`WaitOK`), that one loop runs (`LoopsOK`, in terms of slots, so that no step counts), and that before
the first navigation nothing has called (`BootOK`); `Counted` turns slots into the cardinalities of `ClientInv`.
`ScreensHaveSession` needs little of it: whatever replaces the route asks the guard with the new store, and only an
answered refresh replaces the store under a route. For the other two action properties `HeldInv` adds what tokens
are where: `FreshPairs` (a pair on its way to the browser is in nobody's hands yet and on its way once), `MustHeld` (the browser's "must change the password" is the server's
while the session lives, and an answered refresh of the session at hand says the same) and `NoticeHeld` (a token
whose expiry was announced is not used again). The liveness properties are model-checked only.

## 9. `UserAdmin`, `UserAdminProofs`

Role, status and version of all users, edited from administrators' pages: `Show` (`findOne`), then
`SubmitEdit` or `SubmitReissue` (the guards admit the sender as the row says then), `LockAdmins` and
`LockTarget` (`lockTargetAndAdmins`), then `RefuseEdit`, `Update`, `UpdateStatus`,
`ReissueTemporaryPassword`; `SubmitCreate` and `Create`. `Abort` is a closed page, a rolled back transaction
or a duplicate login id. The seed's administrator is the initial state.

The active administrators are locked in one step. InnoDB takes them one by one in the order of ids, and locks
other rows its scan meets as well; both only keep more requests waiting. Whether requests end is not asked here
for that reason; `Answered` of section 7 covers the locks these operations share with authentication.

- `AdminRemains` - two administrators cannot demote or deactivate each other, although the guards have
  admitted both before either edit is stored.
- `EditsSeeCurrent` - an accepted edit was prepared on exactly the row it replaces, however old the page.

Run `administration`, part `users`: 2 users, 2 pages, rows shown up to version 2 (`MaxVersion`). Two
administrators are what a race for the last one needs, two versions what a stale page needs.

Proofs, for any users, pages and versions: `InvAlways`, `AdminRemainsAlways`, `EditsSeeCurrentAlways`. The
invariant adds that edits exclude each other: both must lock an administrator that neither may remove alone,
so `txn.admins` is never empty and stays active while it is held; when it is only the target, the edit is
refused (`EditKeepsAdmin`).

## 10. `MasterData`, `MasterDataProofs`

Tools and categories, edited by several administrators, next to checklists that lock them to copy them. A
request (`form`) goes through `stage`s: its first rows are locked one by one (`LockRow`), checked (`CheckFirst`),
then for an edit of a tool, or its activation, the category, for a checklist the active tools (`CheckSecond`),
then it saves. `held` is the locks with their modes.

| code | steps |
|---|---|
| `tools.service.ts` `create`, `update`, `updateStatus` | `SendTool`, the locks and checks, `CreateTool`, `UpdateTool`, `UpdateToolStatus` |
| `categories.service.ts` `create`, `update`, `updateStatus` | `SendCategory`, the locks and checks, `CreateCategory`, `UpdateCategory`, `UpdateCategoryStatus` |
| `createPeriodSnapshot` (locks only) | `Select`, the locks and checks, `CreateChecklist` |
| refusals | `RollBack` within `CheckFirst`, `CheckSecond`, `DuplicateName` |
| environment | `GiveUp` (timeout, lost connection), `Victim` (a deadlock) |

A tool locks itself and then its category, a checklist categories and then tools, so deadlocks happen; the
count of active tools of a category being closed is a plain read.

- `ActiveToolsUsable` - an active tool is in an active category; that plain count is as good as a lock, because
  whoever makes or moves an active tool there must lock the category first.
- `SelectionIsWhole` - when a checklist is stored, what it has locked is all of the active tools of its open
  categories: none was moved in, stopped or closed since it read them.
- `MasterEditsSeeCurrent` - an accepted edit replaces the row its sender had on display.
- `MasterAnswered` - every request ends, deadlocks included.

Run `administration`, parts `edits` (2 administrators) and `selections` (1 administrator, 1 checklist): 1 tool,
the common and one other category, rows shown below versions `MaxToolEdits` = 3 and `MaxCategoryEdits` = 2.
`MasterInv` was also checked alone on 2 tools, 2 administrators and 1 checklist together (3.9 million states).
Fairness: strong fairness of each request (`Serve`, the deadlock's victim in it): InnoDB grants waiting locks in
turn and breaks deadlocks; nothing is assumed of `GiveUp`.

Proofs, for any tools, categories, administrators, checklists and versions under `MasterAssumption`:
`MasterInvAlways`, `ActiveToolsUsableAlways`, `SelectionIsWholeAlways`, `MasterEditsSeeCurrentAlways`.
`ActiveToolsUsable` depends on checks made some steps before the save, so `MasterInv` adds `LocksExclude` and, for
each request, `HeldOK`: which rows are locked at which stage and what was checked under them (`MayGoOn`, the open
category). `SeenRowOK` says that a form's row is current exactly if its version is. A step of one request is a
lock, a rollback, a check or a save; `OthersKeep` says that a save changes only rows which its own
locks keep from everybody else, `MovedRow` and `SwitchedRow` what a changed row does to the category rule. `MasterAnswered` is model-checked only.

## 11. `AdminScreens`, `AdminScreensProofs`

The screens for users, tools and categories: one is mounted (`screen`), `panel` is its refs (page, total, rows,
busy flags, error, dialog, selected row, the user whose temporary password is on display), `lists` the loads and
`save` the request of the dialog under way. Operators named `...Offered` are what the templates let a user press
in a state; `Received` is any page the backend may answer with, since other administrators change the list.
Actions: filters and pages, opening, closing, saving in each dialog, `CopyPassword`; `UsersLoaded`,
`ToolsLoaded` (which leaves a page that is gone for the last one), `CategoriesLoaded`, `LoadFails`; the answers
to saves, most of which start a load of their own that ends the save.

- `AnswersMeetTheirDialog` - the answer to a save finds the dialog that sent it open, on the same row.
- `ScreensInv` - besides the types: a temporary password is on display in its own user's dialog only
  (`PasswordOfSelected`); the tools are on a page that exists (`ToolPageExists`); a screen that is busy waits for
  an answer (`BusyMeansWaiting`).
- `SavesEnd` - a save ends; unless pages of a list that shrinks and grows are turned for ever, since a
  reload that finds its page gone starts over, and the save with it.

Run `administration`, part `screens`: 2 rows, up to 2 pages (`MaxTotal`), 2 loads the user asked for (`MaxLoads`)
besides those of saves; a page holds one row, so a list may shrink by a page. Fairness: no request
stays open for ever; it is answered, or its connection breaks and it fails.

Proofs, for any rows and lists of any length under `ScreensAssumption`: `ScreensInvAlways`,
`AnswersMeetTheirDialogAlways`. `AllScreensInv` adds `SaveOK` (a save under way has its dialog open on its row and
the buttons dead), `EndOK` (the reload that ends a save is the only one and no other save runs) and `DialogOK`.
`SavesEnd` is model-checked only.

## 12. How to run

`tlc -workers 2 -config entries.cfg MCOverlaps` (the table of section 2 and `PROJECT.json` name the module of each
`.cfg`) and `tlapm DailyChecklistsProofs.tla` (the other `...Proofs` modules likewise). No run takes more than
five minutes.

Operators whose name is another one's with a suffix (`SharesHeader_AddReadsUnlocked`, `GuardedAnyRole`) are faulty
forms of the definition that follows them, used by the mutation runs listed in `PROJECT.json`: every property of a
passing run is shown to fail on one.

The inductive invariants and the types in them are proved and not repeated as properties of the runs; all were
model-checked on small instances before they were proved.

## 13. Hazards

`PROJECT.json` lists the hazards of the code with the line where each bites and the properties that would catch
it. One that no property covers is listed with the reason. Smaller ones, met while modelling:

- The locking read for the header of a date has no index that covers it, so MySQL may lock neighbouring rows
  (`daily-checklists.service.ts:526`): requests wait longer, or one more deadlock is broken; results are the same.
- `UsersView` has no step back from a page that is gone, as `ToolsView` has: an empty page stays until its
  previous button is pressed.
- A load takes the addition dialog down while its flag in the parent stays set (`DailyChecklistView.vue:1250`):
  the button that should open it again then does nothing until the view is left. `OpenAdding` models it.
- A late answer after a 404 leaves `isMissing` set (`DailyChecklistView.vue:247`): the table is in memory, and the
  screen offers to create it. `Loaded` models it; the next load repairs it.
- The warning about entered values looks at the table on display (`ChecklistCreationDialog.vue:285`): when another
  user entered values meanwhile, the backend refuses (`DATA_LOSS`) until the table is reloaded. Nothing is lost.
- Guards admit an administrator before the transaction starts (`jwt-auth.guard.ts:47`): the request may run
  after a demotion; `AdminRemains` and the revocation properties hold nevertheless.

## 14. Not modelled

- Several work dates in one model: dates share no rows. MySQL's locking read without a covering index may
  serialise them, which affects waiting, not results.
- Formatting, validation of formats, paging, sorting, names, audit logs.
- Connection pool, throttler, password hashing, JWT signatures: library behaviour. A rejected or
  aborted request is an `Abort` here.
- Migrations and seeds run before the service starts; infrastructure, end-to-end and performance tests and
  the static mock are not part of the running system.
