---------------------------- MODULE SavePipeline ----------------------------
(***************************************************************************)
(* The save pipeline (app/page/save_pipeline.cpp) with the editing         *)
(* commands that race with it and Notion at the other end.                 *)
(*                                                                         *)
(* Everything runs in one program with cooperative threads: the event loop *)
(* and, while something is sent, one more thread that walks the queue of   *)
(* dirty blocks, one HTTP request at a time.  The handler of an answer     *)
(* runs to the next request without yielding, so it is one step here; the  *)
(* user acts between the steps.                                            *)
(***************************************************************************)
EXTENDS Edits

CONSTANTS Pages,            \* the pages a behavior may start with: [rows, blk]
          UserOps,          \* the commands the user gives
          Retypes,          \* the kinds the user may choose for a block
          MaxEdits,         \* bound on the changes the user makes
          MaxBlk,           \* bound on the blocks Notion makes
          MaxDefer,         \* kMaxDeferTrash
          Answers,          \* the outcomes a request may have
          ThreadMayFail,    \* NewThread may fail
          ClickWhileBusy,   \* a triangle may be clicked during a save
          CloseUnsaved      \* ... and close over rows not saved yet

Ops == {"type", "icon", "add", "split", "delete", "toggle", "retype", "indent",
        "move", "save"}
Outcomes == {"ok", "noId", "twice", "lost", "down", "busy", "refused", "denied", "expired"}

ASSUME SaveAssumption == /\ UserOps \subseteq Ops
                         /\ Retypes \subseteq Kinds
                         /\ MaxEdits \in Nat /\ MaxBlk \in Nat /\ MaxDefer \in Nat
                         /\ Answers \subseteq Outcomes
                         /\ {ThreadMayFail, ClickWhileBusy, CloseUnsaved} \subseteq BOOLEAN

(* A block as Notion has it.  The pages fit the program's memory, and a    *)
(* block in Notion is older than its children.                             *)
NotionBlk == [kind : Kinds, body : Seq(Nat), parent : Nat,
              gone : {"no", "deleted", "replaced"}, of : Nat]

ASSUME PagesAssumption ==
    \A p \in Pages : /\ p.rows \in Seq(Row) /\ Len(p.rows) \in 1 .. MaxRows
                     /\ p.blk \in Seq(NotionBlk)
                     /\ \A b \in DOMAIN p.blk : p.blk[b].parent < b

VARIABLES
    rows,       \* pageElm
    cache,      \* gToggleCache
    del,        \* sDelCopy, sDelAfter, sDelIdx: the copy of a deleted block
    icon,       \* gPageIconName
    app,        \* gAppState
    queue,      \* gSaveQueue: row indices
    run,        \* the pending title and icon, and whether a block was refused
    defer,      \* g_defer: old copies waiting for the trash
    list,       \* the page's entry in the cached page list
    thread,     \* which cooperative thread exists
    pc,         \* where that thread is
    req,        \* its request
    notion,     \* what Notion holds of the page
    edits,      \* how many changes the user made: the newest version
    refused     \* (history) the ids whose newest text Notion refused

editVars == <<rows, cache, icon, edits>>
saveVars == <<del, queue, run, defer, list>>
vars == <<rows, cache, del, icon, app, queue, run, defer, list,
          thread, pc, req, notion, edits, refused>>

NoDel == [rows |-> <<>>, after |-> 0, idx |-> 0]

(* A request: op names the handler of its answer; id is the block or page  *)
(* it addresses, serial/from/to are g_patchIdx, g_patchEnd, gRecreateSerial*)
(* or gAddSerial, which no other step reads or changes while it is out.    *)
NoReq == [op |-> "none", id |-> NoId, parent |-> NoId, after |-> NoId,
          kind |-> "text", body |-> <<>>, serial |-> 0, from |-> 0, to |-> 0]

-----------------------------------------------------------------------------
(***************************************************************************)
(* Notion.  blk holds the blocks under the page by id, every one older     *)
(* than its children.  "of" (history) is the block it was re-created from, *)
(* gone why it went to the trash: the user deleted it, or it was replaced. *)
(***************************************************************************)
Live(nt) ==
    LET live[b \in 1 .. Len(nt.blk)] ==
            /\ nt.blk[b].gone = "no"
            /\ nt.blk[b].parent = Page \/ live[nt.blk[b].parent]
    IN  {b \in 1 .. Len(nt.blk) : live[b]}

LivePlace(nt, id) == id = Page \/ id \in Live(nt)

Acceptable(nt, r) ==
    CASE r.op \in {"icon", "title"} -> TRUE
      [] r.op = "text"              -> r.id \in Live(nt) /\ nt.blk[r.id].kind = r.kind
      [] r.op \in {"add", "recreate"} ->
             /\ LivePlace(nt, r.parent)
             /\ r.after # NoId => r.after \in Live(nt) /\ nt.blk[r.after].parent = r.parent
      [] OTHER                      -> r.id \in Live(nt)

Inserts(r) == r.op \in {"add", "recreate"}

NewBlk(nt, r) == [kind |-> r.kind, body |-> r.body, parent |-> r.parent, gone |-> "no",
                  of |-> IF r.op = "add" THEN Len(nt.blk) + 1 ELSE nt.blk[r.id].of]

Served(nt, r) ==
    CASE r.op = "icon"   -> [nt EXCEPT !.icon = r.body]
      [] r.op = "title"  -> [nt EXCEPT !.title = r.body]
      [] r.op = "text"   -> [nt EXCEPT !.blk[r.id].body = r.body]
      [] Inserts(r)      -> [nt EXCEPT !.blk = Append(@, NewBlk(nt, r))]
      [] r.op = "delete" -> [nt EXCEPT !.blk[r.id].gone = "deleted"]
      [] OTHER           -> [nt EXCEPT !.blk[r.id].gone = "replaced"]

(* The outcomes that answer r.  "twice": HttpClient sent the request again *)
(* on a new connection after the server had acted on it.                   *)
MayAnswer(nt, r, a) ==
    /\ a \in Answers
    /\ a \in {"ok", "noId", "twice", "lost"} => Acceptable(nt, r)
    /\ a \in {"noId", "twice"} => Inserts(r)
    /\ Inserts(r) => CASE a \in {"ok", "noId", "lost"} -> Len(nt.blk) < MaxBlk
                       [] a = "twice"                  -> Len(nt.blk) + 1 < MaxBlk
                       [] OTHER                        -> TRUE

Effect(nt, r, a) == CASE a \in {"ok", "noId", "lost"} -> Served(nt, r)
                      [] a = "twice"                  -> Served(Served(nt, r), r)
                      [] OTHER                        -> nt

Status200(a)        == a \in {"ok", "noId", "twice"}
NoAnswer(a)         == a \in {"lost", "down"}          \* ~Success
PermanentRefusal(a) == a = "refused"                   \* 4xx, not worth a retry
WriteError(a)       == a \in {"denied", "expired"}     \* 403, 401

-----------------------------------------------------------------------------
(***************************************************************************)
(* What the handlers of one answer do to the program's memory, between one *)
(* request and the next: functions of the memory m.                        *)
(***************************************************************************)
Memory == [rows |-> rows, del |-> del, app |-> app, queue |-> queue,
           run |-> run, defer |-> defer, list |-> list]

saving == app.isSaving \/ app.saveThreadActive
busy   == saving \/ app.apiPending

MarkDirty(m) == [m EXCEPT !.app.hasDirty = TRUE]

(* handle_write_error: 403 makes the page read-only, 401 has it reloaded. *)
HandleWriteError(m, a) ==
    LET flags == [m.app EXCEPT !.isSaving = FALSE, !.hasDirty = FALSE,
                               !.readOnly = @ \/ a = "denied",
                               !.needsReload = @ \/ a = "expired"]
    IN  [m EXCEPT !.queue = <<>>, !.app = flags]

(* Mutant: the queue is left behind. *)
StopKeepsQueue(m) == MarkDirty([m EXCEPT !.app.isSaving = FALSE])

(* Mutant: Save is not shown again. *)
StopQuietly(m) == [m EXCEPT !.queue = <<>>, !.app.isSaving = FALSE]

StopSaveForRetry(m) ==
    MarkDirty([m EXCEPT !.queue = <<>>, !.app.isSaving = FALSE])

(* Mutant: blocks moved out of the subtree are not looked for. *)
PendingInSubtree(rs, x, kidsLeft) ==
    \E k \in x + 1 .. SubtreeEnd(rs, x) - 1 : rs[k].recreate /\ rs[k].id # NoId

(* Mutant: nothing is looked for. *)
PendingNowhere(rs, x, kidsLeft) == FALSE

(* RecreatePendingIn and ReadyDeferred: is there, under the old copy of the *)
(* block at row x, possibly the only copy of a block still to re-create?    *)
RecreatePendingIn(rs, x, kidsLeft) ==
    \/ \E k \in DOMAIN rs : /\ rs[k].recreate /\ rs[k].id # NoId
                            /\ \/ k \in x + 1 .. SubtreeEnd(rs, x) - 1
                               \/ kidsLeft /\ rs[k].leftParent
    \/ /\ SubtreeEnd(rs, x) > x + 1 \/ IsToggle(rs[x])
       /\ ToggleCacheHasRecreate(cache)

ReadyDeferred(rs, df) ==
    Greatest({i \in DOMAIN df :
                 LET x == FindBlockIdx(rs, df[i].newId)
                 IN  x # 0 /\ ~RecreatePendingIn(rs, x, df[i].kidsLeft)})

LastSwapped(df, i) == [df EXCEPT ![i] = df[Len(df)], ![Len(df)] = df[i]]

(* The ready old copies that go along with another one leave the list. *)
DropOne(rs, df) ==
    LET i == ReadyDeferred(rs, df)
    IN  IF i # 0 /\ df[i].covered THEN Front(LastSwapped(df, i)) ELSE df

DropCovered(rs, df) ==
    LET left[n \in 0 .. Len(df)] == IF n = 0 THEN df ELSE DropOne(rs, left[n - 1])
    IN  left[Len(df)]

(* The queue entries nothing is sent for, up to the first that is sent: a  *)
(* block clean by now (or no longer there), or one without content.        *)
Sendable(rs, i) == /\ i \in DOMAIN rs /\ rs[i].dirty
                   /\ rs[i].kind \notin Inert \/ rs[i].recreate

Drained(m) ==
    LET n == Least({k \in 1 .. Len(m.queue) + 1 :
                       k = Len(m.queue) + 1 \/ Sendable(m.rows, m.queue[k])})
        skipped == {m.queue[k] : k \in 1 .. n - 1}
        clean   == [i \in DOMAIN m.rows |->
                       [m.rows[i] EXCEPT !.dirty = @ /\ i \notin skipped]]
    IN  [m EXCEPT !.queue = SubSeq(m.queue, n, Len(m.queue)), !.rows = clean]

PrepareGroup(rs, from, to) == Change(rs, from, to, LAMBDA r : [r EXCEPT !.dirty = FALSE])

(* Mutant: the row above, whatever its parent. *)
AnchorAbove(rs, i) == rs[i - 1].id

RecreateAnchor(rs, i) ==
    LET b == rs[i]
        j == Greatest({k \in 2 .. i - 1 :
                         IF IsChild(b)
                         THEN rs[k].id = b.parent \/ (IsChild(rs[k]) /\ SameParent(rs[k], b))
                         ELSE ~IsChild(rs[k])})
    IN  IF j = 0 \/ (IsChild(b) /\ rs[j].id = b.parent) THEN NoId ELSE rs[j].id

(***************************************************************************)
(* How a handler ends: the memory it leaves, and the request it sends next *)
(* or the return from the thread's function.                               *)
(***************************************************************************)
Commit(m) == /\ rows' = m.rows /\ del' = m.del /\ app' = m.app /\ queue' = m.queue
             /\ run' = m.run /\ defer' = m.defer /\ list' = m.list

Send(m, r) == Commit(m) /\ req' = r /\ pc' = "wait"

Return(m) == Commit(m) /\ req' = NoReq /\ pc' = "unwind"

(***************************************************************************)
(* patchNext once the previous request is dealt with.                      *)
(***************************************************************************)
SendIcon(m) ==
    Send([m EXCEPT !.app.iconDirty = FALSE,
                   !.run.iconPending = TRUE, !.run.pendingIcon = icon],
         [NoReq EXCEPT !.op = "icon", !.id = Page, !.body = <<icon>>])

SendTitle(m, i) ==
    Send([m EXCEPT !.rows[i].dirty = FALSE,
                   !.run.titlePending = TRUE, !.run.pendingTitle = m.rows[i].ver],
         [NoReq EXCEPT !.op = "title", !.id = Page, !.body = <<m.rows[i].ver>>,
                       !.from = i, !.to = i + 1])

SendRecreate(m, i) ==
    LET r == m.rows[i]
        sent == [PrepareGroup(m.rows, i, GroupEnd(m.rows, i)) EXCEPT ![i].recreate = FALSE]
    IN  Send([m EXCEPT !.rows = sent],
             [NoReq EXCEPT !.op = "recreate", !.id = r.id, !.parent = r.parent,
                           !.after = RecreateAnchor(m.rows, i), !.kind = r.kind,
                           !.body = Content(m.rows, i), !.serial = r.serial])

SendText(m, i) ==
    LET end == GroupEnd(m.rows, i)
    IN  Send([m EXCEPT !.rows = PrepareGroup(@, i, end)],
             [NoReq EXCEPT !.op = "text", !.id = m.rows[i].id, !.kind = m.rows[i].kind,
                           !.body = Content(m.rows, i), !.from = i, !.to = end])

SendRow(m) ==
    LET i == Head(m.queue)
        q == [m EXCEPT !.queue = Tail(@)]
    IN  IF m.rows[i].kind = "title" THEN SendTitle(q, i)
        ELSE IF m.rows[i].recreate THEN SendRecreate(q, i) ELSE SendText(q, i)

SendTrash(m) ==
    LET df == LastSwapped(m.defer, ReadyDeferred(m.rows, m.defer))
    IN  Send([m EXCEPT !.defer = df], [NoReq EXCEPT !.op = "trash", !.id = df[Len(df)].oldId])

FinishRun(m) ==
    LET flags == [m.app EXCEPT !.saved = @ \/ (m.app.isSaving /\ ~m.run.rejected),
                               !.isSaving = FALSE, !.cacheNeedsSave = ~m.run.rejected]
    IN  Return([m EXCEPT !.app = flags, !.run.rejected = FALSE])

NonePending(rn) == [rn EXCEPT !.iconPending = FALSE, !.titlePending = FALSE]

(* The page list shows an icon or title whose PATCH went through. *)
Acknowledged(m) ==
    LET shown == [icon  |-> IF m.run.iconPending  THEN m.run.pendingIcon  ELSE m.list.icon,
                  title |-> IF m.run.titlePending THEN m.run.pendingTitle ELSE m.list.title]
    IN  [m EXCEPT !.list = shown, !.run = NonePending(m.run)]

ContinueQueue(m) ==
    LET n == Acknowledged(m)
        d == Drained(n)
        t == [d EXCEPT !.defer = DropCovered(d.rows, @)]
    IN  IF n.app.iconDirty        THEN SendIcon(n)
        ELSE IF d.queue # <<>>    THEN SendRow(d)
        ELSE IF ReadyDeferred(t.rows, t.defer) # 0 THEN SendTrash(t)
        ELSE FinishRun(t)

-----------------------------------------------------------------------------
(***************************************************************************)
(* The handlers of the answers.                                            *)
(***************************************************************************)
(* The block whose PATCH failed is dirty again. *)
MarkedAgain == Change(rows, req.from, req.to, LAMBDA r : [r EXCEPT !.dirty = TRUE])

(* Mutant: a failed PATCH leaves the pending title and icon set. *)
PatchStaysPending(a) ==
    IF WriteError(a) THEN Return(HandleWriteError(Memory, a))
    ELSE IF PermanentRefusal(a) \/ Status200(a) THEN ContinueQueue(Memory)
    ELSE Return(StopSaveForRetry([Memory EXCEPT !.rows = MarkedAgain,
                                                !.app.iconDirty = @ \/ run.iconPending]))

(* patchNext, of the PATCH of a block, the title or the icon. *)
AfterPatch(a) ==
    LET settled == [Memory EXCEPT !.run = NonePending(run)]
        undone  == [settled EXCEPT !.rows = MarkedAgain, !.app.iconDirty = @ \/ run.iconPending]
    IN  IF WriteError(a)            THEN Return(HandleWriteError(Memory, a))
        ELSE IF PermanentRefusal(a) THEN ContinueQueue([settled EXCEPT !.run.rejected = TRUE])
        ELSE IF Status200(a)        THEN ContinueQueue(Memory)
        ELSE Return(StopSaveForRetry(undone))

AfterAddInsert(a, newId) ==
    LET i == FindSerial(rows, req.serial)
        m == [Memory EXCEPT !.app.apiPending = FALSE]
    IN  IF WriteError(a)
        THEN Return([HandleWriteError(m, a) EXCEPT
                        !.rows = IF i = 0 THEN @ ELSE EraseRows(@, i, i + 1)])
        ELSE ContinueQueue(IF i = 0 THEN m ELSE [m EXCEPT !.rows[i].id = newId])

RestoreDeletedBlocks(m) ==
    LET above == FindSerial(m.rows, m.del.after)
        at    == IF above # 0 THEN above + 1
                 ELSE IF m.del.idx > Len(m.rows) THEN Len(m.rows) + 1 ELSE m.del.idx
    IN  [m EXCEPT !.rows = UnpackRows(@, m.del.rows, at, -1, {}), !.del = NoDel]

(* Mutant: any answer counts as a confirmation. *)
AnyAnswerConfirms(a) ==
    LET m == [Memory EXCEPT !.app.apiPending = FALSE]
    IN  IF ~NoAnswer(a) THEN ContinueQueue([m EXCEPT !.del = NoDel])
        ELSE Return(RestoreDeletedBlocks(m))

AfterDeleteArchive(a) ==
    LET m == [Memory EXCEPT !.app.apiPending = FALSE]
    IN  IF Status200(a) THEN ContinueQueue([m EXCEPT !.del = NoDel])
        ELSE Return(RestoreDeletedBlocks(IF WriteError(a) THEN HandleWriteError(m, a) ELSE m))

(* The block of row i has been inserted as newId: rename what names its    *)
(* old copy, and trash that copy now or later.                             *)
Recreated(m, i, newId) ==
    LET nb       == m.rows[i]
        fresh    == [m.rows EXCEPT ![i] = [@ EXCEPT !.id = newId, !.saveFirst = FALSE,
                        !.inOldParent = FALSE, !.leftParent = FALSE, !.kidsLeft = FALSE]]
        pending  == RecreatePendingIn(fresh, i, nb.kidsLeft)
        deferred == pending /\ Len(m.defer) < MaxDefer
        covered  == nb.inOldParent \/ (pending /\ ~deferred)
        Child(r) == IF r.parent # req.id THEN r
                    ELSE [r EXCEPT !.parent = newId,
                                   !.inOldParent = @ \/ (deferred /\ ~r.leftParent)]
        renamed  == Change(Change(fresh, i + 1, GroupEnd(fresh, i),
                                  LAMBDA r : [r EXCEPT !.id = newId]),
                           1, Len(fresh) + 1, Child)
        entry    == [oldId |-> req.id, newId |-> newId, covered |-> nb.inOldParent,
                     kidsLeft |-> nb.kidsLeft]
        n        == [m EXCEPT !.rows = renamed,
                              !.defer = IF deferred THEN Append(m.defer, entry) ELSE m.defer]
    IN  IF deferred \/ covered THEN ContinueQueue(n)
        ELSE Send(n, [NoReq EXCEPT !.op = "archive", !.id = req.id])

(* Mutant: recreate is not put back after a failed insert. *)
InsertForgets(a, newId) ==
    LET i == FindSerial(rows, req.serial)
    IN  IF WriteError(a) THEN Return(HandleWriteError(Memory, a))
        ELSE IF ~Status200(a)
        THEN Return(StopSaveForRetry(IF i = 0 THEN Memory
                                     ELSE [Memory EXCEPT !.rows[i].dirty = TRUE]))
        ELSE Recreated(Memory, i, newId)

AfterRecreateInsert(a, newId) ==
    LET i == FindSerial(rows, req.serial)
        Put(r, again) == [r EXCEPT !.recreate = TRUE, !.dirty = again,
                                   !.saveFirst = @ /\ again]
        Back(m, again) == IF i = 0 THEN m ELSE [m EXCEPT !.rows[i] = Put(@, again)]
    IN  IF WriteError(a) THEN Return(HandleWriteError(Memory, a))
        ELSE IF PermanentRefusal(a)
        THEN ContinueQueue([Back(Memory, FALSE) EXCEPT !.run.rejected = TRUE])
        ELSE IF ~Status200(a) THEN Return(StopSaveForRetry(Back(Memory, TRUE)))
        ELSE IF i = 0 \/ newId = NoId THEN ContinueQueue(Memory)
        ELSE Recreated(Memory, i, newId)

AfterRecreateArchive(a) ==
    IF WriteError(a) THEN Return(HandleWriteError(Memory, a)) ELSE ContinueQueue(Memory)

AfterDeferredTrash(a) ==
    IF WriteError(a) THEN Return(HandleWriteError(Memory, a))
    ELSE IF NoAnswer(a) THEN Return(StopSaveForRetry(Memory))
    ELSE ContinueQueue([Memory EXCEPT !.defer = IF defer = <<>> THEN <<>> ELSE Front(defer)])

Respond(a) ==
    LET nt == Effect(notion, req, a)
        newId == IF a \in {"ok", "twice"} THEN Len(nt.blk) ELSE NoId
    IN  /\ pc = "wait"
        /\ MayAnswer(notion, req, a)
        /\ notion' = nt
        /\ refused' = IF PermanentRefusal(a) THEN refused \cup {<<req.id, req.body>>} ELSE refused
        /\ CASE req.op \in {"icon", "title", "text"} -> AfterPatch(a)
             [] req.op = "add"      -> AfterAddInsert(a, newId)
             [] req.op = "delete"   -> AfterDeleteArchive(a)
             [] req.op = "recreate" -> AfterRecreateInsert(a, newId)
             [] req.op = "archive"  -> AfterRecreateArchive(a)
             [] req.op = "trash"    -> AfterDeferredTrash(a)
        /\ UNCHANGED <<cache, icon, thread, edits>>

-----------------------------------------------------------------------------
(***************************************************************************)
(* The cooperative thread.  It starts at the event loop's next yield, and  *)
(* yields once more (SslClose precomputes a key) before its epilogue.      *)
(***************************************************************************)
StartSave ==
    /\ pc = "ready" /\ thread = "save"
    /\ ContinueQueue(Memory)
    /\ UNCHANGED <<cache, icon, edits, thread, notion, refused>>

StartApi ==
    /\ pc = "ready" /\ thread = "api"
    /\ pc' = "wait"
    /\ UNCHANGED <<editVars, saveVars, app, thread, req, notion, refused>>

(* Mutant: saveThreadActive is not cleared. *)
EndStillActive ==
    /\ pc = "unwind"
    /\ thread' = "none" /\ pc' = "none"
    /\ app' = [app EXCEPT !.isSaving = FALSE]
    /\ UNCHANGED <<editVars, saveVars, req, notion, refused>>

EndThread ==
    /\ pc = "unwind"
    /\ thread' = "none" /\ pc' = "none"
    /\ app' = [app EXCEPT !.isSaving = FALSE, !.saveThreadActive = FALSE,
                          !.apiPending = @ /\ thread = "save"]
    /\ UNCHANGED <<editVars, saveVars, req, notion, refused>>

(* SpawnCoopThread: the state when NewThread succeeds. *)
Spawn(which) == thread' = which /\ pc' = "ready"
NoSpawn      == ThreadMayFail /\ UNCHANGED <<thread, pc>>

-----------------------------------------------------------------------------
(***************************************************************************)
(* doSave: Save is chosen, or the autosave time is over.                   *)
(***************************************************************************)
(* Mutant: an edited piece does not mark its head. *)
PiecesCleared(rs) == [i \in DOMAIN rs |-> [rs[i] EXCEPT !.dirty = @ /\ ~rs[i].cont]]

HeadsMarked(rs) ==
    [i \in DOMAIN rs |->
        [rs[i] EXCEPT !.dirty = ~rs[i].cont /\ \E k \in i .. GroupEnd(rs, i) - 1 : rs[k].dirty]]

ToSave(rs, i) == rs[i].dirty /\ rs[i].id # NoId /\ ~rs[i].cont

(* Mutant: indices from 0. *)
QueueFromZero(rs) ==
    SelectSeq([i \in DOMAIN rs |-> i - 1], LAMBDA i : ToSave(rs, i + 1))

SaveQueue(rs) ==
    LET of(first) == Ascending({i \in DOMAIN rs : /\ ToSave(rs, i) /\ ~rs[i].cut
                                                  /\ rs[i].saveFirst = first})
    IN  of(TRUE) \o of(FALSE)

doSave ==
    LET marked == HeadsMarked(rows)
        kept   == [i \in DOMAIN marked |->
                     IF ToSave(marked, i) /\ marked[i].cut
                     THEN [marked[i] EXCEPT !.dirty = FALSE, !.recreate = FALSE]
                     ELSE marked[i]]
        queued == SaveQueue(marked)
        nothing == queued = <<>> /\ ~app.iconDirty
                   /\ ReadyDeferred(kept, defer) = 0
        begun  == [app EXCEPT !.isSaving = TRUE, !.saveThreadActive = TRUE, !.hasDirty = FALSE]
    IN  /\ ~saving
        /\ app.hasDirty \/ app.iconDirty \/ ReadyDeferred(rows, defer) # 0
        /\ rows' = kept
        /\ run' = [run EXCEPT !.rejected = FALSE]
        /\ \/ nothing /\ UNCHANGED <<thread, pc>>
              /\ app' = [app EXCEPT !.hasDirty = FALSE] /\ queue' = <<>>
           \/ ~nothing /\ Spawn("save") /\ app' = begun /\ queue' = queued
           \/ ~nothing /\ NoSpawn
              /\ app' = [app EXCEPT !.hasDirty = TRUE] /\ queue' = <<>>
        /\ UNCHANGED <<cache, del, icon, defer, list, req, notion, edits, refused>>

(***************************************************************************)
(* The user's commands.  A modal dialog stands between a 401 and the       *)
(* reload that ends this page, so nothing is edited after one.             *)
(***************************************************************************)
Gives(op) == op \in UserOps /\ ~app.needsReload /\ pc # "clash"

Edits(op) == Gives(op) /\ edits < MaxEdits /\ edits' = edits + 1

Ver == edits + 1

Shows(p) == /\ rows' = p.rows /\ cache' = p.cache
            /\ app' = [app EXCEPT !.hasDirty = TRUE]
            /\ UNCHANGED <<saveVars, icon, thread, pc, req, notion, refused>>

Screen == [rows |-> rows, cache |-> cache]

(* A key typed into a block, also while a save is running. *)
Type(i) ==
    /\ Edits("type")
    /\ rows[i].kind \notin Inert /\ AllowEdit(rows, i, "text", app.readOnly)
    /\ Shows([Screen EXCEPT !.rows[i] = [@ EXCEPT !.ver = Ver, !.dirty = TRUE]])

PickIcon ==
    /\ Edits("icon")
    /\ icon' = Ver
    /\ app' = [app EXCEPT !.iconDirty = TRUE, !.hasDirty = TRUE]
    /\ UNCHANGED <<rows, cache, saveVars, thread, pc, req, notion, refused>>

(* The Format menu and the Markdown prefixes, also during a save. *)
Retype(i, kind) ==
    /\ Edits("retype")
    /\ MayRetype(rows, cache, i, kind, app.readOnly)
    /\ Shows([Screen EXCEPT !.rows = RetypeBlock(rows, i, kind)])

Indent(i) ==
    /\ Edits("indent") /\ ~busy
    /\ MayIndent(rows, cache, i, app.readOnly)
    /\ Shows(doIndentBlock(Screen, i))

Move(i, up) ==
    /\ Edits("move") /\ ~busy /\ i > 1
    /\ AllowEdit(rows, i, "move", app.readOnly)
    /\ moveBlock(Screen, i, up) # Screen
    /\ Shows(moveBlock(Screen, i, up))

(* doAddBlock on the page rs; more says the text is one a Return cut off.  *)
AddBlock(rs, i, row, hasDirty) ==
    LET at   == AddPlace(rs, i)
        new  == InsertBlockAt(rs, at.at, [row EXCEPT !.parent = at.parent, !.depth = at.depth], {})
        ask  == [NoReq EXCEPT !.op = "add", !.parent = at.parent, !.after = at.after,
                              !.kind = row.kind, !.body = <<0>>, !.serial = new[at.at].serial]
    IN  /\ ~busy /\ ~app.readOnly /\ Len(rs) < MaxRows
        /\ rows' = new
        /\ \/ Spawn("api") /\ req' = ask
              /\ app' = [app EXCEPT !.apiPending = TRUE, !.saveThreadActive = TRUE,
                                    !.hasDirty = @ \/ hasDirty]
           \/ NoSpawn /\ UNCHANGED req
              /\ app' = [app EXCEPT !.hasDirty = @ \/ hasDirty]
        /\ UNCHANGED <<cache, saveVars, icon, notion, refused>>

NewRow(kind) == [BlankRow EXCEPT !.kind = kind, !.open = kind \in Toggles]

Add(i, kind) ==
    /\ Edits("add")
    /\ AddBlock(rows, i, NewRow(kind), FALSE)

(* Return inside a block: what follows the caret goes to a new block. *)
Split(i) ==
    LET kind == IF rows[i].kind = "list" THEN "list" ELSE "text"
        cut  == [rows EXCEPT ![i] = [@ EXCEPT !.ver = Ver, !.dirty = TRUE]]
    IN  /\ Edits("split")
        /\ rows[i].kind \notin Inert \cup {"title"}
        /\ AllowEdit(rows, i, "split", app.readOnly)
        /\ AddBlock(cut, i, [NewRow(kind) EXCEPT !.ver = Ver, !.dirty = TRUE], TRUE)

(* Mutant: also during a save. *)
DeletePieceAnytime(i) ==
    /\ Edits("delete") /\ i > 1
    /\ InGroup(rows, i) /\ AllowEdit(rows, i, "delete", app.readOnly)
    /\ Shows([Screen EXCEPT !.rows = PieceDeleted(rows, i)])

DeletePiece(i) ==
    /\ Edits("delete") /\ ~busy /\ i > 1
    /\ InGroup(rows, i) /\ AllowEdit(rows, i, "delete", app.readOnly)
    /\ Shows([Screen EXCEPT !.rows = PieceDeleted(rows, i)])

DeleteBlock(i) ==
    LET end  == DeleteEnd(rows, i)
        id   == rows[i].id
        left == EraseRows(rows, i, end)
        copy == [rows |-> PackRows(rows, i, end), after |-> rows[i - 1].serial, idx |-> i]
    IN  /\ Edits("delete") /\ ~busy /\ i > 1
        /\ ~InGroup(rows, i) /\ AllowEdit(rows, i, "delete", app.readOnly)
        /\ IF id = NoId
           THEN rows' = left /\ UNCHANGED <<cache, del, app, thread, pc, req>>
           ELSE /\ cache' = ToggleCacheEvict(cache, id)
                /\ \/ Spawn("api") /\ rows' = left /\ del' = copy
                      /\ req' = [NoReq EXCEPT !.op = "delete", !.id = id]
                      /\ app' = [app EXCEPT !.apiPending = TRUE, !.saveThreadActive = TRUE]
                   \/ NoSpawn /\ UNCHANGED <<app, req>> /\ del' = NoDel
                      /\ rows' = RestoreDeletedBlocks([Memory EXCEPT !.rows = left,
                                                                     !.del = copy]).rows
        /\ UNCHANGED <<icon, queue, run, defer, list, notion, refused>>

(***************************************************************************)
(* A click on a toggle's triangle: closeToggleAt or OpenToggleAt.          *)
(***************************************************************************)
Unsaved(rs) == \E k \in DOMAIN rs : rs[k].dirty \/ rs[k].recreate

MayClick(i) ==
    /\ Gives("toggle") /\ IsToggle(rows[i])
    /\ ClickWhileBusy \/ ~busy

CloseToggle(i) ==
    LET closed == CloseToggleAt(rows, cache, i)
    IN  /\ MayClick(i) /\ rows[i].open
        /\ CloseUnsaved \/ ~Unsaved(SubSeq(rows, i + 1, SubtreeEnd(rows, i) - 1))
        /\ rows' = closed.rows /\ cache' = closed.cache
        /\ UNCHANGED <<saveVars, icon, app, thread, pc, req, notion, edits, refused>>

Held == {del.after, req.serial}
Entry(i) == ToggleCacheFind(cache, rows[i].id)
FitsPage(packed) == Len(rows) + Len(packed) <= MaxRows

OpenFromCache(i) ==
    /\ MayClick(i) /\ ~rows[i].open
    /\ Entry(i) # 0 /\ FitsPage(cache[Entry(i)].rows)
    /\ rows' = UnpackRows([rows EXCEPT ![i].open = TRUE], cache[Entry(i)].rows, i + 1,
                          rows[i].depth + 1, Held)
    /\ UNCHANGED <<cache, saveVars, icon, app, thread, pc, req, notion, edits, refused>>

(* afterToggleLoad: the children Notion has under toggle t, as rows.       *)
LoadedRows(t) ==
    LET kids == Ascending({b \in Live(notion) : notion.blk[b].parent = t.id})
        Piece(b, k) == [BlankRow EXCEPT
            !.id = b, !.parent = t.id, !.depth = t.depth + 1, !.kind = notion.blk[b].kind,
            !.ver = notion.blk[b].body[k], !.cont = k > 1,
            !.hasKids = \E c \in Live(notion) : notion.blk[c].parent = b]
    IN  FlattenSeq([n \in DOMAIN kids |->
            [k \in DOMAIN notion.blk[kids[n]].body |-> Piece(kids[n], k)]])

(* Pieces that find no room leave the toggle partial, their block cut.     *)
Taken(packed) ==
    LET room == MaxRows - Len(rows)
        Torn(r) == \E k \in room + 1 .. Len(packed) : packed[k].id = r.id
    IN  [k \in 1 .. IF Len(packed) <= room THEN Len(packed) ELSE room |->
            [packed[k] EXCEPT !.cut = Torn(packed[k])]]

(* The main thread waits inside Get, so a load is one step when no save is *)
(* on the way; during one it drives the same HttpClient a second time.     *)
LoadToggle(i) ==
    LET kids == LoadedRows(rows[i])
        open == [rows EXCEPT ![i].open = TRUE, ![i].partial = ~FitsPage(kids)]
    IN  /\ MayClick(i) /\ ~rows[i].open /\ rows[i].id # NoId /\ ~app.apiPending
        /\ Entry(i) # 0 => ~FitsPage(cache[Entry(i)].rows)
        /\ cache' = ToggleCacheEvict(cache, rows[i].id)
        /\ IF pc \in {"ready", "wait"}
           THEN pc' = "clash" /\ UNCHANGED <<rows, app>>
           ELSE /\ pc' = pc
                /\ \/ /\ rows' = InsertFresh(open, i + 1, Taken(kids), Held)
                      /\ app' = app
                   \/ /\ {"down", "expired"} \cap Answers # {}
                      /\ rows' = [rows EXCEPT ![i].open = TRUE]
                      /\ app' \in {[app EXCEPT !.needsReload = @ \/ a = "expired"] :
                                      a \in {"down", "expired"} \cap Answers}
        /\ UNCHANGED <<saveVars, icon, thread, req, notion, edits, refused>>

(* The event loop writes the page to the disk cache after a save.          *)
MayFlush == app.cacheNeedsSave /\ ~saving /\ ~app.apiPending /\ ~app.hasDirty

FlushPageCache ==
    /\ MayFlush
    /\ app' = [app EXCEPT !.cacheNeedsSave = FALSE]
    /\ UNCHANGED <<editVars, saveVars, thread, pc, req, notion, refused>>

Save == Gives("save") /\ doSave

-----------------------------------------------------------------------------
Init ==
    /\ \E p \in Pages :
          /\ rows = p.rows
          /\ notion = [title |-> <<0>>, icon |-> <<0>>, blk |-> p.blk]
    /\ cache = <<>> /\ del = NoDel /\ icon = 0
    /\ app = [isSaving |-> FALSE, saveThreadActive |-> FALSE, apiPending |-> FALSE,
              hasDirty |-> FALSE, iconDirty |-> FALSE, readOnly |-> FALSE,
              needsReload |-> FALSE, saved |-> FALSE, cacheNeedsSave |-> TRUE]
    /\ queue = <<>> /\ defer = <<>>
    /\ run = [iconPending |-> FALSE, titlePending |-> FALSE, pendingIcon |-> 0,
              pendingTitle |-> 0, rejected |-> FALSE]
    /\ list = [icon |-> 0, title |-> 0]
    /\ thread = "none" /\ pc = "none" /\ req = NoReq
    /\ edits = 0 /\ refused = {}

EditStep(i) ==
    \/ Type(i)
    \/ \E kind \in Retypes : Retype(i, kind) \/ Add(i, kind)
    \/ Indent(i) \/ Split(i)
    \/ \E up \in BOOLEAN : Move(i, up)
    \/ DeletePiece(i) \/ DeleteBlock(i)
    \/ CloseToggle(i) \/ OpenFromCache(i) \/ LoadToggle(i)

UserStep   == PickIcon \/ Save \/ \E i \in DOMAIN rows : EditStep(i)
ThreadStep == StartSave \/ StartApi \/ EndThread \/ \E a \in Outcomes : Respond(a)

Next == UserStep \/ ThreadStep \/ FlushPageCache

Spec == Init /\ [][Next]_vars

(* The Thread Manager runs the thread at every yield of the event loop,    *)
(* which calls doSave (the autosave) while hasDirtyBlocks is set, not for  *)
(* an old copy alone; and the network does not fail for ever.  ThreadReady,*)
(* SaveDue and AnswerDue say when ThreadStep, the autosave and the answer  *)
(* "ok" are enabled: this is weak fairness of the first two and strong     *)
(* fairness of the third, without the ENABLED that takes TLC too long.     *)
ThreadReady == pc \in {"ready", "wait"}
SaveDue     == app.hasDirty /\ ~saving /\ ~app.readOnly /\ Gives("save")
AnswerDue   == pc = "wait" /\ MayAnswer(notion, req, "ok")

Fairness == /\ WF_vars(EndThread)
            /\ []<>~ThreadReady  \/ []<><<ThreadStep>>_vars
            /\ []<>~SaveDue      \/ []<><<Save>>_vars
            /\ <>[]~AnswerDue    \/ []<><<Respond("ok")>>_vars

FairSpec == Spec /\ Fairness

-----------------------------------------------------------------------------
(***************************************************************************)
(* Properties.                                                             *)
(***************************************************************************)
Request == [op : {"none", "icon", "title", "text", "add", "delete", "recreate",
                  "archive", "trash"},
            id : Int, parent : Int, after : Int, kind : Kinds, body : Seq(Nat),
            serial : Nat, from : Nat, to : Nat]

App == [isSaving : BOOLEAN, saveThreadActive : BOOLEAN, apiPending : BOOLEAN,
        hasDirty : BOOLEAN, iconDirty : BOOLEAN, readOnly : BOOLEAN,
        needsReload : BOOLEAN, saved : BOOLEAN, cacheNeedsSave : BOOLEAN]

Run == [iconPending : BOOLEAN, titlePending : BOOLEAN, pendingIcon : Nat,
        pendingTitle : Nat, rejected : BOOLEAN]

(* The flags, the thread and the counters have their types. *)
ControlOK ==
    /\ app \in App
    /\ thread \in {"none", "save", "api"}
    /\ pc \in {"none", "ready", "wait", "unwind", "clash"}
    /\ icon \in Nat
    /\ edits \in 0 .. MaxEdits

(* Every variable has its type. *)
TypeOK ==
    /\ ControlOK
    /\ rows \in Seq(Row) /\ Len(rows) \in 1 .. MaxRows
    /\ cache \in Seq(CacheEntry) /\ Len(cache) <= ToggleSlots
    /\ del \in [rows : Seq(Row), after : Nat, idx : Nat]
    /\ queue \in Seq(Nat \ {0})
    /\ run \in Run
    /\ defer \in Seq([oldId : Int, newId : Int, covered : BOOLEAN, kidsLeft : BOOLEAN])
    /\ list \in [icon : Nat, title : Nat]
    /\ req \in Request

(* The busy flags tell the truth about the cooperative thread: it exists   *)
(* exactly while saveThreadActive is set, a save is running only in the    *)
(* save thread and a block is waited for only by the other one, a queue is *)
(* left only to a running save, and a request is out exactly while the     *)
(* thread waits.  So no flag outlives the thread that clears it.           *)
BusyOwned ==
    /\ app.saveThreadActive <=> thread # "none"
    /\ thread # "none" <=> pc # "none"
    /\ app.isSaving => thread = "save"
    /\ app.apiPending => thread = "api"
    /\ queue # <<>> => app.isSaving
    /\ pc = "wait" => req.op # "none"
    /\ pc \in {"none", "unwind"} => req.op = "none"

(* "Indices in the save queue must not shift under a running save": while  *)
(* blocks are queued, no step adds, removes or moves a row.                *)
QueueSteady ==
    [][queue # <<>> => /\ Len(rows') = Len(rows)
                       /\ \A k \in DOMAIN rows : rows'[k].serial = rows[k].serial]_vars

-----------------------------------------------------------------------------
Heads == {i \in DOMAIN rows : ~rows[i].cont /\ rows[i].id # NoId}

Written(i) == IF rows[i].id = Page THEN notion.title ELSE notion.blk[rows[i].id].body

Saved(i) == /\ Content(rows, i) = Written(i)
            /\ rows[i].id # Page => rows[i].kind = notion.blk[rows[i].id].kind
            /\ ~rows[i].recreate

Refused(i) == <<rows[i].id, Content(rows, i)>> \in refused

(* What is to become of the text of the block at row i. *)
WillBeSent(i) ==
    \/ app.hasDirty /\ \E k \in i .. GroupEnd(rows, i) - 1 : rows[k].dirty
    \/ rows[i].dirty /\ \E k \in DOMAIN queue : queue[k] = i
    \/ pc = "wait" /\ req.body = Content(rows, i)
          /\ \/ req.op \in {"text", "title"} /\ req.from = i /\ req.id = rows[i].id
             \/ req.op = "recreate" /\ req.serial = rows[i].serial

(* Every block whose text or type differs from Notion's is going to be     *)
(* sent (it is marked and the autosave is due, it is queued, or its        *)
(* request is out), unless the user was told that it is not: Notion        *)
(* refused just this, or the page is read-only or being reloaded.          *)
NoSilentLoss ==
    app.readOnly \/ app.needsReload
        \/ \A i \in Heads : Saved(i) \/ Refused(i) \/ WillBeSent(i)

(* A block is PATCHed only as the type Notion has it as.                   *)
PatchFitsBlock ==
    pc = "wait" /\ req.op = "text" => req.kind = notion.blk[req.id].kind

(* Every block there has been is live in Notion, as itself or re-created   *)
(* under another id, unless the user's own delete took it along: "a        *)
(* duplicate in Notion at worst, never a block left only in the trash".    *)
Ancestors(b) ==
    LET up[c \in 1 .. Len(notion.blk)] ==
            {c} \cup IF notion.blk[c].parent = Page THEN {} ELSE up[notion.blk[c].parent]
    IN  up[b]

NeverOnlyInTrash ==
    \A b \in DOMAIN notion.blk :
        \E c \in DOMAIN notion.blk :
            /\ notion.blk[c].of = notion.blk[b].of
            /\ \/ c \in Live(notion)
               \/ \E a \in Ancestors(c) : notion.blk[a].gone = "deleted"

(* When the event loop writes the page to the disk cache, what it writes   *)
(* is what Notion has: "a faithful copy of Notion".                        *)
CacheIsFaithful == MayFlush => \A i \in Heads : Saved(i)

(* The page list shows a title or an icon only once Notion has it.         *)
ListShowsAccepted ==
    [][/\ list'.title # list.title => <<list'.title>> = notion'.title
       /\ list'.icon # list.icon => <<list'.icon>> = notion'.icon]_vars

(* A delete that Notion does not confirm puts every row back.              *)
NothingVanishes ==
    [][del # NoDel /\ del' = NoDel /\ notion' = notion
          => Len(rows') = Len(rows) + Len(del.rows)]_vars

(* A block whose delete Notion confirmed is not shown again. *)
DeletedStaysGone ==
    \A i \in Heads : rows[i].id # Page => notion.blk[rows[i].id].gone # "deleted"

(* An insert names a place that Notion knows: a live parent, and a block   *)
(* under just that parent to come after.                                   *)
InsertsHavePlace == pc = "wait" /\ Inserts(req) => Acceptable(notion, req)

-----------------------------------------------------------------------------
(* The program does not stay busy: whatever the answers are, "the flags    *)
(* the busy tests look at" are down again, for Back, Add and Delete to     *)
(* work.                                                                   *)
BusyEnds == busy ~> ~busy

(* No old copy waits for ever: "each waits until none can be, then goes at *)
(* the end of a save run".                                                 *)
OldCopiesGo == <>[](defer = <<>>)

(* Once the user stops editing, every block on the page is saved, and no   *)
(* old copy of a re-created block is left waiting for the trash.           *)
EverythingSaved ==
    <>[](/\ ~busy /\ ~app.hasDirty /\ ~app.iconDirty /\ defer = <<>>
         /\ notion.icon = <<icon>>
         /\ \A i \in Heads : Saved(i))
=============================================================================
