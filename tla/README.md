# Notion Classic in TLA+

Notion Classic is a Notion client for 68k Macintoshes (System 7). This directory
holds TLA+ models of its core logic, the TLC configurations that check them on
small instances, and theorems about them checked by TLAPS.

The program's promise is "your writing should never get lost or mangled on its
way to Notion" (`src/CHANGELOG.md:7`). The models follow a character on that way:
from the key into the runs of a row (`TextEditing`), from the row through the save
pipeline to Notion (`SavePipeline`), over one kept connection (`HttpClient`), while
the user moves between pages (`NavHistory`, `Session`) and a copy stays in the disk
cache (`PageCacheFile`).

## Contents

| File | What it is |
| --- | --- |
| `Blocks.tla` | the rows of the open page and the cache of closed toggles (`blocks.h`, `block_ops.cpp`); no state |
| `BlocksProofs.tla` | lemmas about the operations on rows and the toggle cache |
| `Edits.tla` | what each editing command does to the page (`block_ops.cpp`, `block_render.cpp`); no state |
| `SavePipeline.tla` | commands, save thread, answers and Notion (`save_pipeline.cpp`, `main.cpp`) |
| `SavePipelineProofs.tla` | theorems about the save pipeline |
| `TextRuns.tla` | the runs of a row: styles, links, emoji (`run_styles.cpp`); no state |
| `TextEditing.tla` | rich text cut into rows, edited and written back (`response_parser.cpp`, `content_events.cpp`, `block_ops.cpp`) |
| `TextEditingProofs.tla` | what every row holds, and that its runs match its text |
| `PageStore.tla` | abstract: what the disk cache promises |
| `PageCacheFile.tla` | the file with its slots, torn and lost writes (`page_cache.cpp`) |
| `PageCacheProofs.tla` | the file implements the promise; what is shown is whole and fresh |
| `Sublists.tla` | the part of a list whose elements are in a set, in order; no state |
| `NavStacks.tla` | the two stacks of Back and Forward as functions; no state |
| `Trail.tla` | abstract: what Back and Forward promise |
| `NavHistory.tla` | every command that moves between pages (`navigation.cpp`, `menu.cpp`) |
| `NavHistoryProofs.tla` | the stacks implement the trail, and their invariants |
| `Session.tla` | the event loop, the page in memory, its saves and its cached copy together (`main.cpp`, `page_lifecycle.cpp`) |
| `SessionProofs.tla` | every safety property of a session |
| `RequestService.tla` | abstract: what callers rely on when they make a request |
| `HttpClient.tla` | one connection for two threads (`HttpClient.cpp`) |
| `HttpClientProofs.tla` | the client implements that service, and its invariants |
| `ListProofs.tla` | lemmas about lists, induction over the naturals, and what they show of `Sublists` and `NavStacks` |
| `MC*.tla` | small instances for five of the six state machines; `HttpClient` needs none |
| `MC*.cfg` | the configurations: those of the twelve runs, and those of known disagreements that are not among the runs |
| `PROJECT.json` | components, runs, mutants, the map to the source, findings, hazards, theorems |

Three chains extend one another: `Blocks` <- `Edits` <- `SavePipeline`;
`TextRuns` <- `TextEditing`; `Sublists` <- `NavStacks` <- `NavHistory` and
`Session`. `Blocks` uses `Sublists` too. Three machines instantiate an abstract
specification with a refinement mapping:
`PageCacheFile` (`Store == INSTANCE PageStore`), `NavHistory`
(`T == INSTANCE Trail`) and `HttpClient` (`Service == INSTANCE RequestService`).
Each `MC` module and each `Proofs` module extends the machine it is named after;
all of them but `HttpClientProofs` extend `ListProofs` as well,
`SavePipelineProofs` through `BlocksProofs`.

## Inventory of the system

Paths are below `src/src/`.

| Component | State | Operations | Correct when |
| --- | --- | --- | --- |
| Save pipeline (`app/page/save_pipeline.cpp`, `app_state.h`) | `gSaveQueue`, `gAppState`, `g_defer`, the request in flight (`g_patchIdx`, `gRecreateSerial`, `gAddSerial`), pending title and icon, `g_anyRejected` | `doSave`, `patchNext`, one handler per answer, `runApiThread` | every edit is sent or the user is told; no block ends only in the trash; no flag stays up; the queue's indices stay right |
| Block model (`app/content/blocks.h`, `block_ops.cpp`) | `pageElm`, `gToggleCache`, `sDelCopy`, reclose list, pending retype | add, delete, restore, retype, indent, move, open and close a toggle | groups and subtrees stay together; what is re-created can be; a delete is confirmed or undone |
| Rendering (`block_render.cpp`) | TextEdit handles, scroll | `updateBlocks`, `moveBlock`, `updateSaveButton` with the autosave | drawing follows the rows; the autosave fires while something is unsaved |
| Run styles (`run_styles.cpp`) | `runs`, `emojiSeqs` and styles of a row | `EditSpan`, `AdjustRunsForEdit`, `RebuildRunsFromTE`, `SplitRunsAt`, `ToggleRunStyleBit` | every style, link, mention and emoji stays on its own characters |
| Content events (`content_events.cpp`) | selection, undo snapshot | keys, Return, clicks, clipboard, undo | an edit is let through only where saving it is safe |
| Event loop (`main.cpp`) | `pendingReload`, `navPending`, `newPageReady`, `needsReload`, timers | yields, cache flush, reload, navigation, timeout | nothing unsaved is flushed or left behind |
| Page lifecycle (`page_lifecycle.cpp`) | all of the above | `unloadPage`, `reloadPage`, `scheduleReload`, `prepareForPageList` | the thread is drained before the page goes |
| Navigation (`navigation.cpp`) | Back and Forward stacks, recent pages, target | preview, commit, return from a missing page | going back returns to where you were |
| Page cache (`page_cache.cpp`) | a file of slots: payloads and a header | save, load, evict | a torn or stale slot is never shown |
| Page fetch (`page_fetch.cpp`), response parser | request phase, cursor | fetch, parse, split long blocks | phases in order; what cannot be shown is protected |
| HTTP client (`core/net/HttpClient.cpp`) | connection state, session ticket, parser | connect, handshake, request, retry, cancel | one answer per request; at most one resend |
| Preferences (`core/helpers/prefs_io.cpp`, `Settings.cpp`) | files | load, save, forget a page | lists on disk agree with memory |
| Library window, menus, pickers, debug console | windows | user interface | a page moved or deleted is so everywhere |
| Sockets, entropy, cryptography, allocator | driver state | I/O and arithmetic | outside these models |

How they interact. There is one program and no preemption. The event loop calls
the commands and, while `saveThreadActive` is up, `YieldToAnyThread`. The save
thread runs `patchNext`, which sends a request through the one `HttpClient`; a
transfer yields while it waits, so events are handled *during* a request. The
answer is handled in a callback that ends by sending the next request
(`ContinueQueue`) or by returning through all of them to the thread's epilogue.
The page, the queue and the flags are shared without locks; the `busy()` tests of
the commands are the only protection.

The hard behaviours: commands between two requests; answers that are lost or
doubled (the client resends on a stale connection); retries by the autosave;
blocks that Notion cannot change in place and that are therefore inserted anew and
the old copy trashed, with everything still under it; indices and ids that change
while something refers to them; flags that several paths must clear; a page left
while its save runs; a machine that stops between two writes; edits known only by
the text before and after them.

## The models

### Blocks and Edits

A row of `pageElm` is a record. Text, styles and emoji are one version number
`ver` (0 as loaded, then the number of the user's edit), a type is one of
`Kinds`, and ids are numbers: `Page` = 0, `NoId` = -1 for the empty id of a row
Notion has not answered for. Rows are numbered from 1; 0 stands for the code's -1.
A block too long for one row is a head row and `cont` rows below it.

A row keeps `serial`, so a row and its place can be told apart. `NextBlockSerial`
never returns a value twice; the model reuses a serial nothing refers to any more,
which keeps the state space finite (`held` names the serials that are still
referred to).

`Edits` gives the commands as functions from a page to a page. The four
`MoveUnit`, `MoveUp`, `MoveDown`, `OnlyAsUnit` are `moveBlock` with its cases in
the code's order. `CloseToggleAt` closes the open toggles inside first, one after
the other, the innermost first, since the code's recursion does just that.

### SavePipeline

| Variable | Code |
| --- | --- |
| `rows`, `cache` | `pageElm`, `gToggleCache` |
| `del` | `sDelCopy`, `sDelAfter`, `sDelIdx` |
| `app` | the flags of `gAppState` the pipeline uses, and `gPageCacheNeedsSave` |
| `queue` | `gSaveQueue` (row indices) |
| `run` | `g_iconPatchPending`, `g_titlePatchPending`, what they carry, `g_anyRejected` |
| `defer` | `g_defer`, the old copies that wait for the trash |
| `icon`, `list` | `gPageIconName`; the page's entry in the cached list of pages |
| `thread`, `pc`, `req` | the cooperative thread, where it is, and its request with `g_patchIdx`, `gRecreateSerial`, `gAddSerial` |
| `notion` | Notion's copy: title, icon, and every block with body, parent and why it is gone |
| `edits`, `refused` | history: the newest version, and what Notion refused for good |

Atomicity. A handler runs from an answer to the next request without a yield, so
`Respond(a)` is one step: the outcome `a`, its effect on Notion, the whole handler
and the send of the next request. The thread's start (`StartSave`, `StartApi`) and
its end (`EndThread`) are steps of their own, since the thread first runs at a
later yield, and yields once more between the last callback and its epilogue
(closing the connection precomputes a key). User commands happen between.

The outcomes of a request (`Answers` says which a run allows):

| Outcome | Meaning |
| --- | --- |
| `ok` | 200, done |
| `noId` | an insert done, the answer without a readable id |
| `twice` | the client resent the request after the server had acted on it |
| `lost` | done, but no answer came |
| `down` | not done, no answer (`Success` = false) |
| `busy` | not done, 408, 409, 429 or 5xx |
| `refused` | not done, 4xx not worth a retry |
| `denied`, `expired` | 403, 401 |

`Acceptable` is what Notion must be able to do for a success: the block and the
parent are live, the anchor is under that parent, a PATCH has the block's type. It
comes from the requests the code builds and the refusals its comments name; Notion
itself is external.

### PageCacheFile

The file is `header` (a record per slot: page, date, length, checksum) and `areas`
(the bytes in each slot). A save is a `job` with two steps, payload and header, as
`SavePageCacheNow` does them; `TearPayload(k)` stops it after `k` bytes, `LoseHeader`
stops it before the header or keeps the header from being written, and an area
keeps the bytes of earlier payloads beyond what was written. `SaveWithoutMemory`
and the case of a page too large for its slot end a save early, each with what the
code does to the old copy. The clock wraps (`ClockMod` for 2^32) and may be set;
the history `age` says how old each copy really is (-1 once the clock was set), and
the history `kept` which payload each slot was last written for. The checksum is
the code's own sum over bytes, with `SumMod` for 2^16.

`PageStore` has a map from pages to contents, may forget a page at any step and may
give nothing, but gives nothing except what it was last told. Under the refinement
mapping a page's contents are what its slot was written for.

### NavHistory

`back`, `fwd`, `cur` are the stacks and the page shown; a press of Back or Forward
changes only `delta` and the preview, a link only `target`, and `CommitPending` is the
event loop's navigation a second later, with its full and its overflowing stacks.
`OpenRecent`, `OpenFromLibrary`, `NewPageReady` and `ConfirmSettings` move at once. A
load is "asked" for by `scheduleReload` and "begun" when the loop gets to it
(`ReloadDue`), which drops the presses that wait; a new page and a return from a missing
one begin theirs at once and drop nothing. A page may be deleted in the library or
elsewhere; `ReturnFromMissingPage` is then the way back. `before` is a history variable
for one property, hidden by a VIEW where that property is not checked.

`Trail` is one sequence with a place in it. The mapping is
`back \o <<cur>> \o fwd` with the place after `back`: Back and Forward only move the
place, and a page drops off only at the far ends.

### Session

One round of `main`'s loop is the variable `at`: flush the cache, serve a deferred
reload, a new page, a delayed navigation, give the save thread a slice, take one
event. A page is a title (row 0) and a body (row 1), so that the id in force, the
rows in `pageElm`, the queue's indices and the header built from row 0 can be of
different pages, which is where the hazards of `navigation.cpp` and
`page_lifecycle.cpp` lie. `typed` and `notion` say what the user last typed into each
row of each page and what Notion has; `disk` is the cache. What a session may
contain is one of `Scenarios`, chosen at the start: each run names the ways to
move that meet in it.

Left out: a `NewThread` that fails (in `SavePipeline`), a load that fails (in
`NavHistory`), a save that is refused (in `SavePipeline`).

### HttpClient

One object with one connection (`connState`, `established`, `wasIdle`, `hops`, the
response being parsed) and a program counter and retry flag for each of the two
threads that use it. A step is what runs between two yields of `MacYield`. The server
is `pending` (what has reached it), `inbox` (what has been sent back: a head and a
body) and `peer` (whether it has closed). It may deal with a request or not, answer
whole, in part or not at all, redirect, refuse a ticket, close at any time, and the
client may or may not have noticed. `dealt`, `sends` and `answered` are histories.
`Reentrant` lets a thread begin a request while the other waits for its answer, as
`OpenToggleAt` does during a save; the http run and the theorems exclude it.

`RequestService` knows only what was asked, how often the server dealt with it and
what each caller was told.

Left out: the cache of addresses, precomputed keys, the checks of certificates (a
failed check is a failed handshake), requests without TLS, `SslFreeAll`,
cancelling, and redirects to another host.

### TextRuns and TextEditing

A row is its text (`Emoji` stands for the sentinel), its runs (length, style, link,
and whether the link was made of the text), the emoji in order, and `face`, the style
TextEdit shows for each character. A style is a set: "bold" stands for what TextEdit
holds and means, "underline" is the one it also shows every link with, and the link
stands for all that it does not hold. Every operation is the code's: where an edit was
is computed anew from the old text, the new text and the caret (`EditSpan`), runs are
stretched or cut (`AdjustRunsForEdit`), an edge of a link is stepped out of
(`StepsOut`) and loses the underline that was the link's (`LinkUnderlined`,
`ClearLinkUnderline`), a save rebuilds the runs from TextEdit (`RebuildRunsFromTE`,
which takes the underline of what is no link for a real one) and writes them
(`Written`, a link longer than `MaxUrl` without its address). A text with more cells
than the stack's array needs memory for that (`TakesMemory`); without it the row loses
its runs (`NoMemory`). The code's loops over runs, characters and pieces are recursive
functions over the numbers of their steps.

`TextEditing` starts with a block's rich text as Notion sends it, cuts it into rows with
the limits on runs, text, emoji and pieces, then applies edits at any place. The three
ways to put text in differ in what they leave in TextEdit: `Type` takes off a lent
underline, `Paste` does not, and `PickEmoji` makes a fresh TextEdit record from the
runs. `InsertPageLink` goes through the page list and its save, which may end early and
may free the records. `want` keeps what the user sees, one record for each character,
without runs or positions; `Meaning` turns it and what a save writes into the same form.

Left out: block types whose text is bold by default, the Markdown prefixes, cut and
copy, a paste longer than a row, and a TextEdit without memory for its own styles. The
switches `OverSame`, `Crowded`, `PartOfLink`, `StaleRuns`, `LentUnderline` and
`Unsequenced` admit steps after which the code is known to differ from what the user
sees (below); the styles run has all of them FALSE. `LowMemory` says where memory may be
short: in the styles run at any save and at the page list, but not when the row that
a page link goes into is rebuilt. `AsMeant` says nothing more of a page that has lost
its runs for want of memory (`lost`); the other properties do.

### Properties

Safety: `TypeOK`; `BusyOwned` (flags, thread and queue agree); `QueueSteady` (no
row moves while blocks are queued); `NoSilentLoss` (every block that differs from
Notion's is going to be sent, or the user was told); `PatchFitsBlock` (a PATCH has
the block's own type); `NeverOnlyInTrash` (each block is live, as itself or as its
re-creation, unless the user's delete took it along); `InsertsHavePlace` (an
insert names a live parent and a block under it); `CacheIsFaithful` (what is
flushed to disk is what Notion has); `ListShowsAccepted` (the page list follows
Notion); `NothingVanishes` (an unconfirmed delete puts back every row);
`DeletedStaysGone`. Liveness: `BusyEnds`, `EverythingSaved`, `OldCopiesGo`.

The page cache: `ImplementsStore` (a load gives nothing or the contents last stored
for that page, whatever write was torn); `ShownIsFresh`; `NoOlderCopy` (a save leaves
no older copy to be shown). Navigation: `ImplementsTrail`; `LandsOnPreview` (the sum
of presses lands where the last preview said); `RecentDistinct`. Session:
`EditsKept` (what was typed is in Notion, on its way, or where the next save finds
it); `CachedUnderOwnPage`; `CacheNotBehind`; `DirtyIsFound`; `MovesHappen`
(liveness). HTTP: `ImplementsService`; `StreamClean` (a kept connection holds
nothing unread); `SentAgainOnlyWhenReused`; `EveryRequestAnswered` (liveness). Text:
`RunsMatchText`; `AsMeant` (a save writes what the user sees); `MentionsWhole`;
`EmojiKept`.

## The runs

State counts are distinct states.

| Run | Input | Bounds | Shows |
| --- | --- | --- | --- |
| `edits` | type, add, split, delete, save; all nine outcomes, and `NewThread` may fail | 2 edits, 5 rows, 4 blocks | `TypeOK`, `BusyOwned`, `NoSilentLoss`, `QueueSteady`, `NothingVanishes` (167,000) |
| `moves` | type, icon, indent, move, save; ok, lost, down, busy | 2 edits, 7 blocks | `NeverOnlyInTrash`, `InsertsHavePlace`, `CacheIsFaithful`, `ListShowsAccepted` (59,000) |
| `toggles` | type, retype, open and close, save; ok, lost, down, expired | 2 edits, 6 blocks | `NoSilentLoss`, `NeverOnlyInTrash`, `PatchFitsBlock` (60,000) |
| `settles` | type, icon, retype, move, save; ok, down, busy | 2 edits, 7 blocks | `BusyEnds`, `EverythingSaved` (13,000, fair) |
| `cache` | saves and loads; torn payload, lost header, no memory, clock set | 3 pages, 2 slots, 3 saves, 3 times | `ImplementsStore`, `ShownIsFresh`, `NoOlderCopy` (126,000) |
| `navigation` | every command that moves, pages deleted in the library and elsewhere | 3 pages, stacks of 2, 2 recent pages | `ImplementsTrail`, `LandsOnPreview`, `RecentDistinct` |
| `session` | every way to move and to quit, typing at any moment, a failing save | 2 pages, stacks of 1, 1 edit, 1 failure | `DirtyIsFound` (1,870,000) |
| `session_kept` | links to new pages with failing saves; Reload, its dialog and New Page | 3 pages, stacks of 2, 2 edits, 1 failure | `EditsKept`, `CachedUnderOwnPage`, `CacheNotBehind`, `MovesHappen` (217,000, fair) |
| `http` | a PATCH and a GET by either thread, WarmUp, ForceReconnect | 1 redirect, at most one resend (the code's) | `StreamClean`, `SentAgainOnlyWhenReused`, `ImplementsService`, `EveryRequestAnswered` (198,000, fair) |
| `styles` | ten rich texts, any edits, memory short or not | 2 edits, rows of 5 characters, 4 runs, 3 emoji | `RunsMatchText`, `AsMeant`, `MentionsWhole`, `EmojiKept` (122,000) |
| `trashed_child` | retyping toggles in toggles | 2 edits | violates `NeverOnlyInTrash` |
| `typed_over` | typing over a selection what it begins with | 2 edits | violates `MentionsWhole` |

Bounds of the save pipeline. `MaxEdits` = 2 lets any two commands meet: the second
may come before, during or after the save of the first, and each save may be cut at
every request. `MaxRows` = 5 leaves room for one row more than the pages need, so a
full array is met. `MaxBlk` is the room for blocks Notion makes: the page's own, one
re-creation of each that the commands can cause and a few lost ones; past it an
insert is answered by failures only. `MaxDefer` = 1 makes the list of old copies full
as soon as two toggles wait. The pages are: two plain blocks; a block in two pieces
and a divider; a toggle open with a child, or closed with the child not loaded, and
a block below; a toggle in a toggle. `refused` is not an answer where re-creations
happen (a refusal marks text typed in the meantime clean), `denied` not where an icon
is chosen (`g_iconPatchPending` survives a 403), triangles are clicked only while
nothing runs, and over saved rows only (`CloseUnsaved`).

Bounds of the others. Three pages over two slots make every save evict one that is
wanted; a payload of two bytes has a torn middle, one of three does not fit. Stacks
of two overflow with the third move. In a session one edit can come at any point of
any round, and two let the second meet the save of the first; a page has two rows so
that one can be queued behind the other. Two requests are enough for what one
leaves in the connection to meet the next. The ten texts put an address, two equal
mentions side by side, emoji side by side, an underlined link on a word, a mention and
an address at the cut, more styles, and more text, than rows hold, and an address
longer than a row keeps (`MaxUrl`); below a full one a space or a letter is typed
(`Keys`); a text of five characters has more cells than the array has room for
(`StyleCells`), as a text with emoji has earlier; two edits let one work on what the
other left, with a save between them or not.

SYMMETRY is over pages, which differ by name only. VIEW leaves out history variables
(`before`, `typed`) in the runs whose properties do not mention them: no action reads
them.

### Fairness

`SavePipeline` assumes: the thread runs again when it can (the event loop yields to it
on every turn while `saveThreadActive` is set, `main.cpp:531`); the autosave comes
while `hasDirtyBlocks` is set, nothing is being saved and the page is not read-only
(`updateSaveButton`, called on every turn, `block_render.cpp:1387-1493`); and a
request that could succeed again and again does succeed in the end (the network
comes back). The first two are weak fairness, the third strong fairness. Of the
thread's end it is stated with `WF_vars`; for the others `ThreadReady`, `SaveDue`
and `AnswerDue` say when the action is enabled, since TLC's evaluation of `ENABLED`
on a whole handler takes it seconds a state. No fairness is assumed of
the user.

An autosave that only has an old copy to trash is not assumed: `updateSaveButton`
returns before it when no block is dirty. That is why `OldCopiesGo` is a question
of its own.

`Session` assumes that the loop goes round (weak fairness of each of its stations),
that the thread gets its slices and a request is answered in the end, and that the
second before a navigation passes. The latter two are strong fairness: the loop
comes by again and again, but the actions are not enabled in between. Nothing is
assumed of the user.

`HttpClient` assumes weak fairness of a thread's own steps: each wait ends with
its own time-out (30 s to open, `kRecvIdleTicks` to read, `HttpClient.cpp`) if nothing
else ends it. Nothing is assumed of the server.

## Where the code disagrees with its own comments

Two are runs (`PROJECT.json` "findings" has lines and quotes):

1. `trashed_child`: a toggle is retyped, then the toggle inside it; the grandchild
   has not left *its* parent, `RecreatePendingIn` does not see it, and its only
   copy is trashed along with an old copy.
2. `typed_over`: a letter typed over a selected mention that begins with it counts as
   deleting the rest of the mention, which is shortened to the letter.

The others are configurations that can be run by hand, each with the one property
that fails:

| Configuration | Property | What happens |
| --- | --- | --- |
| `MCHeadDeleted` | `PatchFitsBlock` | the head piece of a retyped split block is deleted; the next piece becomes the head without `recreate`, and a PATCH of the wrong type goes out, to be refused for ever |
| `MCClickDuringSave` | `QueueSteady` | a triangle's click has no `busy()` test and shifts the rows under the queue |
| `MCRefusedCached` | `CacheIsFaithful` | the next save resets `g_anyRejected`; the text Notion refused then goes to the disk cache |
| `MCDeletedReturns` | `DeletedStaysGone` | closing an emptied toggle leaves its earlier cache entry, which brings a deleted child back |
| `MCStuckCopy` | `OldCopiesGo` | a block with a deferred old copy is re-created again; the entry names the previous id, so that old copy is never trashed |
| `MCTornWrite` | `NeverVouchesForGarbage` | the checksum takes a mixture of two payloads for whole when their halves have the same sums |
| `MCNavMissing` | `BackWhereYouWere` | the return from a missing page undoes the last move, which is not always the one that failed |
| `MCLostByPreview` | `EditsKept`, or `CachedUnderOwnPage` in its place | the preview of Back replaces the rows before the navigation saves them; or they are cached as the page they hide |
| `MCLostByReload` | `EditsKept` | "Save" in the reload dialog: the reload follows although the save failed |
| `MCLostTypingAhead` | `EditsKept`, or `CachedUnderOwnPage` with the constants its comment gives | text typed between the save and the reload or navigation that waits for it |
| `MCLostByQuit` | `EditsKept` | Quit while a save is under way |
| `MCCachedByRecent` | `CachedUnderOwnPage` | a recent page is chosen during a save: the rows are cached under its id. With `Scenarios` = `{{"save", "first link", "new"}}` instead: a new page comes in the round in which a link's second is over; `reloadPage` marks it for the cache, and `commitNavigateTo` changes the id before the flush at the next turn (`main.cpp:477-516`) |
| `MCWrongTitles` | `HeadersOwnTitle` | a header is built from a row 0 that is another page's |
| `MCPreviewStays` | `PreviewLeadsToLoad` | the presses cancel out, and the preview stays without its page |
| `MCReentered` | `NotReentered` | a toggle's children are fetched through the client in which the save thread waits |
| `MCLinkedEmoji` | `EmojiKept` | a page link's title holds an emoji the row has no sequence for |
| `MCReturnStale` | `AsMeant` | Return, a style, undo or a picked emoji before the runs follow what TextEdit shows: a letter typed over a plain one after bold text, then an emoji, and the save writes bold |
| `MCPastedUnderline` | `AsMeant` | text pasted beside a link, or typed over its first characters, keeps the underline that the link is only shown with, and it is saved as a real one (against `run_styles.cpp:267`) |
| `MCCrowdedRow` | `AsMeant` | typing in a row whose runs are nearly used up. With the constants its comment gives: a style on part of an address that is its own text; a link too long to keep in a piece above the last, which is not protected (`AsMeant`); a page link put in after its row lost the runs for want of memory (`RunsMatchText`: the link's is then the only run) |

The http run also contains a sequence in which a stale connection and then a refused
ticket use up the one retry, so that the caller gets the error though
`HttpClient.cpp:437-443` promises a clean retry; a failure is always an allowed
answer of `RequestService`, so no property fails. A paste longer than a row is cut
off at its end (`content_events.cpp:252`); the model refuses it.

## The proofs

`SavePipelineProofs` proves, for every set of pages, commands, outcomes and bounds
that satisfy `BlocksAssumption`, `SaveAssumption` and `PagesAssumption` (a page that
is opened has at least the title's row and fits `pageElm`, and Notion's blocks on it
are older than their children):

- `FlagsOwned == Spec => []BusyOwned`. `BusyOwned` is not inductive: whether the
  epilogue clears the right flags depends on what the handlers left. `FlagsInv` adds
  the types of the flags and `ThreadState`: a thread that is ready has a request
  that fits it; one that waits is at a request its kind of thread sends; one on its
  way out has already dropped `isSaving`. The lemmas follow the code: each way a
  handler can end (`Send`, `Return`, `ContinueQueue`, `StopSaveForRetry`) is proved
  once to leave the flags so, then each handler, then each action.
- `ListAccepted == ASSUME "denied" \notin Answers PROVE Spec =>
  []ListShowsAccepted` in the form the property has. `PendingInv`: a pending title
  or icon is that of the request that is out, and after a 401 nothing is sent any
  more. The assumption is needed: see the hazard at `save_pipeline.cpp:97`.
- `SaveTypes == Spec => []TypeOK`: every command and every handler leaves rows of
  their type, at least one and at most `MaxRows` of them, an index in the queue is
  never 0, and the toggle cache stays within its slots. The invariant `SaveInv` needs
  four more parts. `FlagsInv`: which handler an answer goes to. `NotionShape`: what
  an answer may bring back as a new id, and what a loaded toggle shows, have their
  types (a block is older than its children, so that `Live` is defined at all).
  `FirstRowStays`: the first row is never the one waiting for Notion's answer to an
  add, so a refused add does not take the last row away. `DeleteHasCopy`: a delete
  that comes back finds its copy, with a place to put it. Every handler is shown
  first to leave the memory typed (`Lands`), then the requests it can send next.
- `SteadyQueue == ASSUME ClickWhileBusy = FALSE PROVE Spec => QueueSteady`: the
  rows do not shift under a running save. `InPlace(w, rows)` (as many rows, each with
  its serial) is proved of typing, retyping, `doSave` and every handler of a save;
  the other commands are stopped by `busy()`, and `FlagsInv` ties a queue that is not
  empty to `busy`. The assumption is needed: the triangle has no such test
  (`MCClickDuringSave`).
- `CopyComesBack == ASSUME ClickWhileBusy = FALSE PROVE Spec => NothingVanishes`: a
  delete that Notion does not confirm puts every row back. `CopyHeld` (the copy is
  there only while its delete is out) and `CopyFits` (the rows still leave room for
  it) are the invariants; that a confirmed delete does change Notion follows from
  `Live`, whose elements have not gone (`LiveIsThere`). Under the same assumption,
  since a toggle opened while the delete is out could take up the room.

The lemmas they rest on are in `BlocksProofs`: what the operations on rows return
(erase, insert, pack and unpack, move a piece, indent, open and close a toggle), that
they keep rows in range and which rows they leave in place. The code's loops are
recursive functions in the model, and each is proved to exist and to keep what it
should by induction over the naturals as a set (`Repeats`, `StaysTo`).

`PageCacheProofs` proves, for every number of slots, set of payloads, clock and set
of faults:

- `CacheImplementsStore == ASSUME SumsTell PROVE Spec => ImplementsStore`.
  `SumsTell` says that the checksum tells each payload from every mixture a torn
  write can leave. A 16-bit sum cannot do that for all pages: the theorem says that
  this is all the store asks of it, `MCTornWrite` shows the store failing without it,
  and TLC evaluates it for the payloads of the cache run.
- `CacheForgetsOlder == ASSUME SumsTell, SelfDelimiting PROVE Spec => NoOlderCopy`.
  `SelfDelimiting`: no payload is the beginning of another, since `SerializePage`
  writes every count and length before what it counts. Without it the older of two
  payloads could be read from the area of the longer one.
- `CacheFresh == Spec => ShownIsFresh`: nothing older than the time to live is shown,
  across the wrap of the clock, unless the clock was set since the page was saved.
  Nothing is assumed of the checksum.
- `CacheTyped == Spec => []TypeOK`.

The invariant `CacheInv` says that a used entry was written for the payload in
`kept`, with its length and sum, while the bytes in its area are some mixture of
payloads (`EntryOK`); that no page has two entries (`OneEntry`), without which
forgetting one would uncover another; and that a save in progress works on the slot
it picked, its payload already in place when the header is next (`JobOK`). Then a
load that the checksum lets through gives `kept` (`VouchedIsKept`), and each step
maps to a step of `PageStore` or to none. `AgeInv` adds that a copy's date and its
true age make the present time, modulo the clock (`Dated`), the save in progress
included. That the slot a search returns exists is `HasLeast`, from the library's
theorem on well-founded relations.

`NavHistoryProofs` proves, for every set of pages and every length of the stacks
and the list of recent pages:

- `NavImplementsTrail == Spec => ImplementsTrail`. Each command is shown to be one
  move of `Trail`: a press moves the place, a push cuts off what lies ahead and drops
  a page at the far end when the stack is full (`kNavHistMax`), a deletion takes the
  page's visits out of both stacks, and the return from a missing page moves back.
- `NavLandsOnPreview == Spec => LandsOnPreview`, from `PromiseOK`: what was previewed
  is what the summed presses reach in the stacks as they are now, which every
  command that changes the stacks must keep.
- `NavRecentDistinct == Spec => []RecentDistinct` and `NavTyped == Spec => []TypeOK`.

`SessionProofs` proves all six safety properties of a session, for every set of
pages, stacks, numbers of edits and failures:

- `SessionTyped == Spec => []TypeOK` and `SessionFindsDirty == Spec =>
  []DirtyIsFound`, of every session.
- `SessionKeepsEdits == ASSUME NothingLoses PROVE Spec => []EditsKept`.
  `NothingLoses` leaves out the scenarios by which the code is known to lose text
  (the table above): typing during a save, the previews, quitting, and a save that
  fails before a reload or a page from the menus. What is left is saves that may fail
  with links to pages not visited, and every other way to move with saves that
  succeed. `EditsKept` is not inductive: `EditsInv` says where each text is
  (`InSight`: in Notion, in the request, or in a dirty row of its own page), that the
  request and the queue are of the rows shown (`SentFromRow`, `QueueOfRows`), and
  that a reload is due only when it discards nothing (`ReloadLosesNothing`).
- `SessionCachesOwn == ASSUME NothingMiscached PROVE Spec => []CachedUnderOwnPage`.
  `NothingMiscached` leaves out typing during a save, previews, pages opened while a
  save may run, and a link together with a new page. `OwnInv`: the rows are the
  current page's, or its reload is due and nothing is to be saved or cached first
  (`RowsOwn`); what is to be cached is cached before a link is followed
  (`FlushedFirst`).
- `SessionCacheFollows == ASSUME NothingLoses, NothingMiscached PROVE Spec =>
  []CacheNotBehind`. `CopiesInv` says which copy agrees with Notion at which station
  of the loop: that of every page left (`LeftMatch`), that of the open page unless it
  is due to be written, and that each clean row is as in Notion
  (`RowsAsInNotion`).

Both scenarios of the `session_kept` run satisfy the two assumptions; what these
leave out loses or miscaches in one of the ways of the table above.

`TextEditingProofs` proves, for every set of rich texts, insertions, keys and pages
with titles (a title fits a row) and for any limits on runs, text, emoji, pieces,
addresses and rows (a row and a run at least, and a headroom below a row's length), under
`~Unsequenced` and `"link" \notin LowMemory`, whatever the other switches admit:

- `TextTyped == Spec => []TypeOK`: however a block comes in and whatever is done to
  it, no row outgrows `kMaxTextLen`, `kMaxEmoji` or `kMaxRuns`, `face` has a style for
  each of its characters, and the rows fit the page's table.
- `RunsMatch == Spec => []RunsMatchText`: a row that has runs has one for every
  character. `AppendRichItems` writes a row without any style, link or mention when
  the lengths do not add up, so this is what keeps them.

The two assumptions are needed. Return takes as many sequences as the text above
it has emoji, so in a row that lacks some it fills the list with what happens to lie
there (`MCLinkedEmoji`'s rows); a page link put in after its row was left without runs
becomes the only run of a longer text (the last case of `MCCrowdedRow`).

Both are parts of the inductive invariant `EditInv`, which adds what neither says.
`UndoHolds`: undo puts a snapshot back that may be many edits old, into a row that
has been cut, restyled or saved since, so the snapshot fits any row. `WantList`: there
is one entry of `want` for each row, in order. `RowsSound` is a list of rows each with
its `RowHolds`. Every operation on runs is shown to keep their number and sum, or to
change the sum by what the edit brings: a cut of the runs at a place gives two parts
that add up (`SplitParts`), neighbours that merge lose nothing (`MergeKeeps`), an
insertion goes into a run that exists whatever was deleted before (`OwnerFound`,
`AdjustKeeps`; `EditSpan` finds the place from the texts alone, and `SpanFits` says
what it may be), and the runs rebuilt from TextEdit reach each character with no
more than `kMaxRuns` of them (`CollectKeeps`). The loader is a loop in a loop:
`Loading` is its state between two items, `Taking` between two characters of one
(the item's run is there and ends the piece). Since each new piece is one of
`MaxPieces`, the character that needs room gets it within that many steps, or the
text is given up (`MakeRoomKeeps`); `ParsedSound` follows by induction over the
characters and the items. There is then one lemma for each edit.

`ListProofs` holds what the other modules share. Induction over the naturals for sets
(`AllNumbers`) comes from `HasLeast`: the library's induction theorem takes an
operator and cannot be instantiated, but a set of numbers can. From it: a recursive
function over numbers exists, and stays in a set that its steps do not leave
(`StepsStay`). `Among` (`PurgeFromArray` and the like) is such a function; what it
keeps (`AmongPart`) gives what purging, pushing and moving over do to the two stacks.

`HttpClientProofs` proves, for any requests, threads and bound on redirects, as long
as no request is made while another waits (`~Reentrant`):

- `ClientImplementsService == Spec => ImplementsService`: one answer to each
  request, and success only by its own response.
- `KeptClean == Spec => []StreamClean`, `SentOnce == Spec =>
  []SentAgainOnlyWhenReused`, `ClientTyped == Spec => []TypeOK`.

All follow from one invariant, `ClientInv`. `Alone`: at most one thread is in the
client. `Own` and `Unasked`: the request in progress was asked and has no answer.
`Sending`: before it is written a request was sent at most once, over a kept
connection, which makes `SentAgainOnlyWhenReused` inductive. `Dealing`: the server
deals with nothing more often than it was sent. `Wire` is the heart: what a reading
thread can find in the connection is exactly what is left of the response to its own
request, and a kept connection holds nothing. There is a lemma for each way an
operation ends (`SslCloseInv`, `StartAgainInv`, `GiveUpInv`), then one for each
action, each proving the invariant and the abstract step together.

What stays with TLC. Liveness, fairness and `ENABLED`. Of `TextEditing`, `AsMeant`,
`MentionsWhole` and `EmojiKept`: they compare a row with `want` character by character,
and hold only while insertions and rows are restricted (`OverSame`, `Crowded`,
`PartOfLink`, `StaleRuns`, `LentUnderline` FALSE) and memory was there, by conditions on
the past of a row that an invariant would have to make explicit. Of `SavePipeline`, the
properties that relate the rows to Notion: `NoSilentLoss`, `CacheIsFaithful`,
`PatchFitsBlock`, `InsertsHavePlace` and `NeverOnlyInTrash` need an invariant over ids,
groups and anchors under every command. Three of them fail for some commands or bounds
(`trashed_child`, `MCHeadDeleted`, `MCRefusedCached`), so that invariant holds only of
part of the commands, and what part is not known yet.

## Not modelled, and why

- Most of the repository's lines are not logic of this program: the headers of
  mbedtls, `http_parser.c` and `uECC.c` are third-party code, and much of the rest is
  drawing, windows, dialogs and tables. The map therefore covers a small share of
  the lines, though most of the code that decides what becomes of the user's text.
- Page fetch (`page_fetch.cpp`) and the JSON of the response parser: each step reads
  one answer on the calling thread and its state is the parser's; the outcomes (a
  page, a missing page, a refusal, a toggle's children) are in the models that depend
  on them.
- Preferences and the history files: written whole and read whole at the start,
  with nothing concurrent and no steps to interleave.
- Library window, menus, pickers, debug console: user interface; what their outcomes
  do to the session is in `NavHistory` and `Session`.
- Commands that first open a closed toggle to load its children (loads of
  `PrepareSubtree`, `FinishPendingRetype`, `RecloseOpenedToggles`).
- Local ids of demo mode: they change rows as typing does.
- `KeepDeletedCopy` or `PackRows` without memory: the code goes on without a copy.
- What the shared `HttpClient` does to a save when a toggle is loaded during it: the
  save pipeline's model stops there (`pc` = "clash"); `MCReentered` shows that it
  can happen.
- Sockets, entropy, cryptography, the allocator, URIs: device calls, or arithmetic
  and string handling in which no steps interleave.

## Plan

Done: `Blocks`, `Edits` and `SavePipeline`, of which the flags, the types, the rows
that stay in place and the restored copies are proved; `PageCacheFile`, `NavHistory`
and `HttpClient` with their refinements and proofs; `Session` and the proofs of its
safety properties; `TextRuns` and `TextEditing`, with the proof that every row
holds what it can and its runs match its text.

Left, the most important first:

1. The load of a closed toggle, the retype that waits for it and the reclose list,
   between the slices of a save.
2. An inductive invariant that relates the rows' ids and groups to Notion's blocks,
   for `PatchFitsBlock` and `InsertsHavePlace`; one that relates a row's runs to
   `want`, for `MentionsWhole` and `EmojiKept`.
3. `Session` shown to be implemented by `SavePipeline` as far as one page goes.
4. Page fetch, if the phases of a load turn out to be interleaved with events.
