------------------------- MODULE SavePipelineProofs -------------------------
(***************************************************************************)
(* Proofs about SavePipeline, for every page, command and answer.          *)
(*                                                                         *)
(* First the flags, the queue and the thread (BusyOwned), then the pending *)
(* title and icon (ListShowsAccepted): what the handlers do to the rows is *)
(* not looked into, each function of the memory gets a lemma that says     *)
(* which fields it keeps.  Then the rows and the rest of the memory: the   *)
(* types of all of it (SaveInv), which commands and answers leave the rows *)
(* in place (QueueSteady), and where the copy of a deleted block goes back *)
(* (NothingVanishes).                                                      *)
(***************************************************************************)
EXTENDS SavePipeline, BlocksProofs

(* A memory: what the handlers' functions take and give.                   *)
IsMem(m) == DOMAIN m = {"rows", "del", "app", "queue", "run", "defer", "list"}

(* The flags and the queue of a memory, between two requests: only a       *)
(* running save has a queue.                                               *)
Tidy(m) == /\ IsMem(m)
           /\ m.app \in App
           /\ m.queue # <<>> => m.app.isSaving

(* The requests a handler sends: adding and deleting start a thread.       *)
Sent == {"icon", "title", "text", "recreate", "archive", "trash"}

(* How a handler leaves the flags that were old before: the next request   *)
(* is out, or the thread's function has returned and no save is running.   *)
Leaves(old) ==
    /\ app' \in App
    /\ app'.saveThreadActive = old.saveThreadActive
    /\ app'.apiPending => old.apiPending
    /\ app'.isSaving => old.isSaving
    /\ queue' # <<>> => app'.isSaving
    /\ \/ pc' = "wait" /\ req'.op \in Sent
       \/ pc' = "unwind" /\ req' = NoReq /\ ~app'.isSaving

-----------------------------------------------------------------------------
(* The functions of the memory: which fields they keep.                    *)

LEMMA MemoryIsMem ==
    /\ IsMem(Memory)
    /\ Memory.app = app /\ Memory.queue = queue /\ Memory.run = run /\ Memory.list = list
BY DEF IsMem, Memory

LEMMA AcknowledgedKeeps ==
    ASSUME NEW m, IsMem(m)
    PROVE  /\ IsMem(Acknowledged(m))
           /\ Acknowledged(m).app = m.app /\ Acknowledged(m).queue = m.queue
BY DEF Acknowledged, IsMem

(* With nothing queued the drained queue is empty too. *)
LEMMA DrainedKeeps ==
    ASSUME NEW m, IsMem(m)
    PROVE  /\ IsMem(Drained(m))
           /\ Drained(m).app = m.app /\ Drained(m).run = m.run /\ Drained(m).list = m.list
           /\ Drained(m).queue # <<>> => m.queue # <<>>
<1> DEFINE ends == {k \in 1 .. Len(m.queue) + 1 :
                      k = Len(m.queue) + 1 \/ Sendable(m.rows, m.queue[k])}
<1>1. /\ IsMem(Drained(m))
      /\ Drained(m).app = m.app /\ Drained(m).run = m.run /\ Drained(m).list = m.list
  BY DEF Drained, IsMem
<1>2. Drained(m).queue = SubSeq(m.queue, Least(ends), Len(m.queue))
  BY DEF Drained, IsMem
<1>3. ASSUME m.queue = <<>> PROVE Drained(m).queue = <<>>
  <2>1. Len(m.queue) = 0
    BY <1>3
  <2>2. ends = {1}
    BY <2>1
  <2>3. Least(ends) = 1
    BY <2>2 DEF Least
  <2>. QED  BY <1>2, <1>3, <2>1, <2>3
<1>. QED  BY <1>1, <1>3

(* Telling the user to save again ends the save and leaves no queue. *)
LEMMA StopKeeps ==
    ASSUME NEW m, Tidy(m)
    PROVE  LET n == StopSaveForRetry(m)
           IN  /\ Tidy(n) /\ ~n.app.isSaving /\ n.queue = <<>>
               /\ n.app.saveThreadActive = m.app.saveThreadActive
               /\ n.app.apiPending = m.app.apiPending
               /\ n.app.needsReload = m.app.needsReload
               /\ n.run = m.run /\ n.list = m.list
BY DEF StopSaveForRetry, MarkDirty, Tidy, IsMem, App

(* So does a 401 or a 403. *)
LEMMA WriteErrorKeeps ==
    ASSUME NEW m, Tidy(m), NEW a
    PROVE  LET n == HandleWriteError(m, a)
           IN  /\ Tidy(n) /\ ~n.app.isSaving /\ n.queue = <<>>
               /\ n.app.saveThreadActive = m.app.saveThreadActive
               /\ n.app.apiPending = m.app.apiPending
               /\ n.app.needsReload = (m.app.needsReload \/ a = "expired")
               /\ n.run = m.run /\ n.list = m.list
BY DEF HandleWriteError, Tidy, IsMem, App

(* Putting a deleted block back touches no flag. *)
LEMMA RestoreKeeps ==
    ASSUME NEW m, IsMem(m)
    PROVE  LET n == RestoreDeletedBlocks(m)
           IN  /\ IsMem(n) /\ n.app = m.app /\ n.queue = m.queue
               /\ n.run = m.run /\ n.list = m.list
BY DEF RestoreDeletedBlocks, IsMem

(* The notice that a block is no longer waited for. *)
LEMMA ApiDoneKeeps ==
    ASSUME NEW m, Tidy(m)
    PROVE  LET n == [m EXCEPT !.app.apiPending = FALSE]
           IN  /\ Tidy(n) /\ ~n.app.apiPending /\ n.queue = m.queue
               /\ n.app.saveThreadActive = m.app.saveThreadActive
               /\ n.app.isSaving = m.app.isSaving
               /\ n.app.needsReload = m.app.needsReload
               /\ n.run = m.run /\ n.list = m.list
BY DEF Tidy, IsMem, App

-----------------------------------------------------------------------------
(* The handlers leave the flags in order.                                  *)

LEMMA ReturnLeaves ==
    ASSUME NEW m, Tidy(m), ~m.app.isSaving, Return(m)
    PROVE  Leaves(m.app)
BY DEF Return, Commit, Tidy, Leaves, NoReq

LEMMA SendIconLeaves ==
    ASSUME NEW m, Tidy(m), SendIcon(m)
    PROVE  Leaves(m.app)
BY DEF SendIcon, Send, Commit, Tidy, IsMem, App, Leaves, Sent, NoReq

LEMMA SendRowLeaves ==
    ASSUME NEW m, Tidy(m), m.queue # <<>>, SendRow(m)
    PROVE  Leaves(m.app)
<1> DEFINE q == [m EXCEPT !.queue = Tail(@)]
           i == Head(m.queue)
<1>1. IsMem(q) /\ q.app = m.app /\ m.app \in App /\ m.app.isSaving
  BY DEF Tidy, IsMem
<1>2. ASSUME SendTitle(q, i) PROVE Leaves(m.app)
  BY <1>1, <1>2 DEF SendTitle, Send, Commit, IsMem, Leaves, Sent, NoReq
<1>3. ASSUME SendRecreate(q, i) PROVE Leaves(m.app)
  BY <1>1, <1>3 DEF SendRecreate, Send, Commit, IsMem, Leaves, Sent, NoReq
<1>4. ASSUME SendText(q, i) PROVE Leaves(m.app)
  BY <1>1, <1>4 DEF SendText, Send, Commit, IsMem, Leaves, Sent, NoReq
<1>5. SendTitle(q, i) \/ SendRecreate(q, i) \/ SendText(q, i)
  BY DEF SendRow
<1>. QED  BY <1>2, <1>3, <1>4, <1>5

LEMMA SendTrashLeaves ==
    ASSUME NEW m, Tidy(m), SendTrash(m)
    PROVE  Leaves(m.app)
BY DEF SendTrash, Send, Commit, Tidy, IsMem, Leaves, Sent, NoReq

LEMMA FinishRunLeaves ==
    ASSUME NEW m, Tidy(m), m.queue = <<>>, FinishRun(m)
    PROVE  Leaves(m.app)
<1> DEFINE flags == [m.app EXCEPT !.saved = @ \/ (m.app.isSaving /\ ~m.run.rejected),
                                  !.isSaving = FALSE, !.cacheNeedsSave = ~m.run.rejected]
           n == [m EXCEPT !.app = flags, !.run.rejected = FALSE]
<1>1. /\ flags \in App /\ ~flags.isSaving
      /\ flags.saveThreadActive = m.app.saveThreadActive
      /\ flags.apiPending = m.app.apiPending
  BY DEF Tidy, App
<1>2. n.app = flags /\ n.queue = <<>>
  BY DEF Tidy, IsMem
<1>3. app' = flags /\ queue' = <<>> /\ req' = NoReq /\ pc' = "unwind"
  BY <1>2 DEF FinishRun, Return, Commit
<1>. QED  BY <1>1, <1>3 DEF Leaves

(* patchNext sends the next request or ends the run. *)
LEMMA ContinueQueueLeaves ==
    ASSUME NEW m, Tidy(m), ContinueQueue(m)
    PROVE  Leaves(m.app)
<1> DEFINE n == Acknowledged(m)
           d == Drained(n)
           t == [d EXCEPT !.defer = DropCovered(d.rows, @)]
<1>1. Tidy(n) /\ n.app = m.app
  BY AcknowledgedKeeps DEF Tidy
<1>2. Tidy(d) /\ d.app = m.app
  BY <1>1, DrainedKeeps DEF Tidy
<1>3. Tidy(t) /\ t.app = m.app /\ t.queue = d.queue
  BY <1>2 DEF Tidy, IsMem
<1> HIDE DEF n, d, t
<1>4. CASE n.app.iconDirty
  <2>1. SendIcon(n)
    BY <1>4 DEF ContinueQueue, n
  <2>. QED  BY <2>1, <1>1, SendIconLeaves
<1>5. CASE ~n.app.iconDirty /\ d.queue # <<>>
  <2>1. SendRow(d)
    BY <1>5 DEF ContinueQueue, n, d
  <2>. QED  BY <2>1, <1>2, <1>5, SendRowLeaves
<1>6. CASE ~n.app.iconDirty /\ d.queue = <<>>
  <2>1. SendTrash(t) \/ FinishRun(t)
    BY <1>6 DEF ContinueQueue, n, d, t
  <2>. QED  BY <2>1, <1>3, <1>6, SendTrashLeaves, FinishRunLeaves
<1>. QED  BY <1>4, <1>5, <1>6

LEMMA AfterPatchLeaves ==
    ASSUME NEW a, Tidy(Memory), AfterPatch(a)
    PROVE  Leaves(app)
<1> DEFINE settled == [Memory EXCEPT !.run = NonePending(run)]
           refusal == [settled EXCEPT !.run.rejected = TRUE]
           undone  == [settled EXCEPT !.rows = MarkedAgain, !.app.iconDirty = @ \/ run.iconPending]
<1>1. Memory.app = app
  BY MemoryIsMem
<1>2. Tidy(refusal) /\ refusal.app = app
  BY <1>1 DEF Tidy, IsMem
<1>3. /\ Tidy(undone)
      /\ undone.app.saveThreadActive = app.saveThreadActive
      /\ undone.app.apiPending = app.apiPending
  BY <1>1 DEF Tidy, IsMem, App
<1> HIDE DEF settled, refusal, undone
<1>4. CASE Return(HandleWriteError(Memory, a))
  BY <1>1, <1>4, WriteErrorKeeps, ReturnLeaves DEF Leaves
<1>5. CASE ContinueQueue(refusal)
  BY <1>2, <1>5, ContinueQueueLeaves
<1>6. CASE ContinueQueue(Memory)
  BY <1>1, <1>6, ContinueQueueLeaves
<1>7. CASE Return(StopSaveForRetry(undone))
  BY <1>3, <1>7, StopKeeps, ReturnLeaves DEF Leaves
<1>. QED  BY <1>4, <1>5, <1>6, <1>7 DEF AfterPatch, settled, refusal, undone

LEMMA AfterAddInsertLeaves ==
    ASSUME NEW a, NEW newId, Tidy(Memory), AfterAddInsert(a, newId)
    PROVE  Leaves(app)
<1> DEFINE i == FindSerial(rows, req.serial)
           m == [Memory EXCEPT !.app.apiPending = FALSE]
           w == [HandleWriteError(m, a) EXCEPT !.rows = IF i = 0 THEN @ ELSE EraseRows(@, i, i + 1)]
           n == IF i = 0 THEN m ELSE [m EXCEPT !.rows[i].id = newId]
<1>1. /\ Tidy(m) /\ ~m.app.apiPending
      /\ m.app.saveThreadActive = app.saveThreadActive /\ m.app.isSaving = app.isSaving
  BY MemoryIsMem, ApiDoneKeeps
<1>2. Tidy(n) /\ n.app = m.app
  BY <1>1 DEF Tidy, IsMem
<1> HIDE DEF m
<1>3. Tidy(w) /\ ~w.app.isSaving /\ ~w.app.apiPending /\ w.app.saveThreadActive = app.saveThreadActive
  <2>1. LET h == HandleWriteError(m, a)
        IN  /\ Tidy(h) /\ ~h.app.isSaving /\ ~h.app.apiPending
            /\ h.app.saveThreadActive = app.saveThreadActive
    BY <1>1, WriteErrorKeeps
  <2>. QED  BY <2>1 DEF Tidy, IsMem
<1> HIDE DEF n, w
<1>4. CASE Return(w)
  BY <1>3, <1>4, ReturnLeaves DEF Leaves
<1>5. CASE ContinueQueue(n)
  BY <1>1, <1>2, <1>5, ContinueQueueLeaves DEF Leaves
<1>. QED  BY <1>4, <1>5 DEF AfterAddInsert, m, n, w

LEMMA AfterDeleteArchiveLeaves ==
    ASSUME NEW a, Tidy(Memory), ~app.isSaving, AfterDeleteArchive(a)
    PROVE  Leaves(app)
<1> DEFINE m == [Memory EXCEPT !.app.apiPending = FALSE]
           n == [m EXCEPT !.del = NoDel]
           h == IF WriteError(a) THEN HandleWriteError(m, a) ELSE m
<1>1. /\ Tidy(m) /\ ~m.app.apiPending /\ ~m.app.isSaving
      /\ m.app.saveThreadActive = app.saveThreadActive /\ m.app.isSaving = app.isSaving
  BY MemoryIsMem, ApiDoneKeeps
<1>2. Tidy(n) /\ n.app = m.app
  BY <1>1 DEF Tidy, IsMem
<1> HIDE DEF m
<1>3. /\ Tidy(h) /\ ~h.app.isSaving /\ ~h.app.apiPending
      /\ h.app.saveThreadActive = app.saveThreadActive
  BY <1>1, WriteErrorKeeps
<1> HIDE DEF n, h
<1>4. CASE Return(RestoreDeletedBlocks(h))
  <2>1. Tidy(RestoreDeletedBlocks(h)) /\ RestoreDeletedBlocks(h).app = h.app
    BY <1>3, RestoreKeeps DEF Tidy
  <2>. QED  BY <2>1, <1>3, <1>4, ReturnLeaves DEF Leaves
<1>5. CASE ContinueQueue(n)
  BY <1>1, <1>2, <1>5, ContinueQueueLeaves DEF Leaves
<1>. QED  BY <1>4, <1>5 DEF AfterDeleteArchive, m, n, h

(* A block that has been inserted: its old copy is archived or not. *)
LEMMA RecreatedGoesOn ==
    ASSUME NEW i, NEW newId, Tidy(Memory), Recreated(Memory, i, newId)
    PROVE  \E n : /\ Tidy(n) /\ n.app = app /\ n.run = run /\ n.list = list
                 /\ \/ ContinueQueue(n)
                    \/ Send(n, [NoReq EXCEPT !.op = "archive", !.id = req.id])
<1> DEFINE nb       == Memory.rows[i]
           fresh    == [Memory.rows EXCEPT ![i] = [@ EXCEPT !.id = newId, !.saveFirst = FALSE,
                           !.inOldParent = FALSE, !.leftParent = FALSE, !.kidsLeft = FALSE]]
           deferred == /\ RecreatePendingIn(fresh, i, nb.kidsLeft)
                       /\ Len(Memory.defer) < MaxDefer
           Child(r) == IF r.parent # req.id THEN r
                       ELSE [r EXCEPT !.parent = newId,
                                      !.inOldParent = @ \/ (deferred /\ ~r.leftParent)]
           renamed  == Change(Change(fresh, i + 1, GroupEnd(fresh, i),
                                     LAMBDA r : [r EXCEPT !.id = newId]),
                              1, Len(fresh) + 1, Child)
           entry    == [oldId |-> req.id, newId |-> newId, covered |-> nb.inOldParent,
                        kidsLeft |-> nb.kidsLeft]
           n        == [Memory EXCEPT !.rows = renamed,
                           !.defer = IF deferred THEN Append(Memory.defer, entry)
                                                 ELSE Memory.defer]
<1>2. \/ ContinueQueue(n)
      \/ Send(n, [NoReq EXCEPT !.op = "archive", !.id = req.id])
  BY Zenon DEF Recreated
<1>3. Tidy(n) /\ n.app = app /\ n.run = run /\ n.list = list
  BY MemoryIsMem DEF Tidy, IsMem
<1> HIDE DEF n
<1>. QED  BY <1>2, <1>3

LEMMA RecreatedLeaves ==
    ASSUME NEW i, NEW newId, Tidy(Memory), Recreated(Memory, i, newId)
    PROVE  Leaves(app)
<1>1. PICK n : /\ Tidy(n) /\ n.app = app
               /\ \/ ContinueQueue(n)
                  \/ Send(n, [NoReq EXCEPT !.op = "archive", !.id = req.id])
  BY RecreatedGoesOn
<1>2. CASE ContinueQueue(n)
  BY <1>1, <1>2, ContinueQueueLeaves
<1>3. CASE Send(n, [NoReq EXCEPT !.op = "archive", !.id = req.id])
  BY <1>1, <1>3 DEF Send, Commit, Tidy, Leaves, Sent, NoReq
<1>. QED  BY <1>1, <1>2, <1>3

LEMMA AfterRecreateInsertLeaves ==
    ASSUME NEW a, NEW newId, Tidy(Memory), AfterRecreateInsert(a, newId)
    PROVE  Leaves(app)
<1> DEFINE i == FindSerial(rows, req.serial)
           Put(r, again) == [r EXCEPT !.recreate = TRUE, !.dirty = again,
                                      !.saveFirst = @ /\ again]
           Back(again) == IF i = 0 THEN Memory ELSE [Memory EXCEPT !.rows[i] = Put(@, again)]
           undone  == Back(TRUE)
           refusal == [Back(FALSE) EXCEPT !.run.rejected = TRUE]
<1>1. Memory.app = app
  BY MemoryIsMem
<1>2. ASSUME NEW again PROVE Tidy(Back(again)) /\ Back(again).app = app
  BY <1>1 DEF Tidy, IsMem
<1>3. /\ Tidy(refusal) /\ refusal.app = app
      /\ Tidy(undone) /\ undone.app = app
  BY <1>2 DEF Tidy, IsMem
<1> HIDE DEF Back, undone, refusal
<1>4. CASE Return(HandleWriteError(Memory, a))
  BY <1>1, <1>4, WriteErrorKeeps, ReturnLeaves DEF Leaves
<1>5. CASE ContinueQueue(refusal)
  BY <1>3, <1>5, ContinueQueueLeaves
<1>6. CASE Return(StopSaveForRetry(undone))
  BY <1>3, <1>6, StopKeeps, ReturnLeaves DEF Leaves
<1>7. CASE ContinueQueue(Memory)
  BY <1>1, <1>7, ContinueQueueLeaves
<1>8. CASE Recreated(Memory, i, newId)
  BY <1>8, RecreatedLeaves
<1>. QED  BY <1>4, <1>5, <1>6, <1>7, <1>8 DEF AfterRecreateInsert, Back, undone, refusal

LEMMA AfterRecreateArchiveLeaves ==
    ASSUME NEW a, Tidy(Memory), AfterRecreateArchive(a)
    PROVE  Leaves(app)
<1>1. CASE Return(HandleWriteError(Memory, a))
  BY <1>1, MemoryIsMem, WriteErrorKeeps, ReturnLeaves DEF Leaves
<1>2. CASE ContinueQueue(Memory)
  BY <1>2, MemoryIsMem, ContinueQueueLeaves
<1>. QED  BY <1>1, <1>2 DEF AfterRecreateArchive

LEMMA AfterDeferredTrashLeaves ==
    ASSUME NEW a, Tidy(Memory), AfterDeferredTrash(a)
    PROVE  Leaves(app)
<1> DEFINE n == [Memory EXCEPT !.defer = IF defer = <<>> THEN <<>> ELSE Front(defer)]
<1>1. Tidy(n) /\ n.app = app
  BY MemoryIsMem DEF Tidy, IsMem
<1> HIDE DEF n
<1>2. CASE Return(HandleWriteError(Memory, a))
  BY <1>2, MemoryIsMem, WriteErrorKeeps, ReturnLeaves DEF Leaves
<1>3. CASE Return(StopSaveForRetry(Memory))
  BY <1>3, MemoryIsMem, StopKeeps, ReturnLeaves DEF Leaves
<1>4. CASE ContinueQueue(n)
  BY <1>1, <1>4, ContinueQueueLeaves
<1>. QED  BY <1>2, <1>3, <1>4 DEF AfterDeferredTrash, n

-----------------------------------------------------------------------------
(* What makes BusyOwned inductive: a thread about to ask for a block to be *)
(* added or deleted has its request, and only that thread has such a one;  *)
(* a thread whose function has returned left no save running.              *)
ThreadState ==
    /\ pc = "ready" => req.op \in IF thread = "api" THEN {"add", "delete"} ELSE {"none"}
    /\ pc = "wait"  => req.op \in Sent \cup IF thread = "api" THEN {"add", "delete"} ELSE {}
    /\ pc = "unwind" => ~app.isSaving

FlagsInv == /\ app \in App
            /\ thread \in {"none", "save", "api"}
            /\ pc \in {"none", "ready", "wait", "unwind", "clash"}
            /\ BusyOwned
            /\ ThreadState

LEMMA InitFlags == Init => FlagsInv
BY DEF Init, FlagsInv, BusyOwned, ThreadState, App, NoReq

LEMMA FlagsTidy == FlagsInv => Tidy(Memory)
BY MemoryIsMem DEF FlagsInv, BusyOwned, Tidy

(* A step of the thread that goes to the next request or to its end. *)
LEMMA LeavesFlags ==
    ASSUME FlagsInv, thread # "none", Leaves(app), thread' = thread
    PROVE  FlagsInv'
BY DEF FlagsInv, BusyOwned, ThreadState, Leaves, Sent, NoReq

LEMMA RespondLeaves ==
    ASSUME FlagsInv, NEW a, Respond(a)
    PROVE  Leaves(app)
<1>1. Tidy(Memory) /\ pc = "wait"
  BY FlagsTidy DEF Respond
<1>2. req.op \in Sent \cup {"add", "delete"}
  BY <1>1 DEF FlagsInv, ThreadState
<1> DEFINE id == IF a \in {"ok", "twice"} THEN Len(Effect(notion, req, a).blk) ELSE NoId
<1>3. CASE req.op \in {"icon", "title", "text"}
  <2>1. AfterPatch(a)
    BY <1>3 DEF Respond
  <2>. QED  BY <1>1, <2>1, AfterPatchLeaves
<1>4. CASE req.op = "add"
  <2>1. AfterAddInsert(a, id)
    BY <1>4 DEF Respond
  <2>. QED  BY <1>1, <2>1, AfterAddInsertLeaves
<1>5. CASE req.op = "delete"
  <2>1. AfterDeleteArchive(a)
    BY <1>5 DEF Respond
  <2>2. ~app.isSaving
    BY <1>1, <1>5 DEF FlagsInv, ThreadState, BusyOwned, Sent
  <2>. QED  BY <1>1, <2>1, <2>2, AfterDeleteArchiveLeaves
<1>6. CASE req.op = "recreate"
  <2>1. AfterRecreateInsert(a, id)
    BY <1>6 DEF Respond
  <2>. QED  BY <1>1, <2>1, AfterRecreateInsertLeaves
<1>7. CASE req.op = "archive"
  <2>1. AfterRecreateArchive(a)
    BY <1>7 DEF Respond
  <2>. QED  BY <1>1, <2>1, AfterRecreateArchiveLeaves
<1>8. CASE req.op = "trash"
  <2>1. AfterDeferredTrash(a)
    BY <1>8 DEF Respond
  <2>. QED  BY <1>1, <2>1, AfterDeferredTrashLeaves
<1>. QED  BY <1>2, <1>3, <1>4, <1>5, <1>6, <1>7, <1>8 DEF Sent

LEMMA RespondFlags ==
    ASSUME FlagsInv, NEW a, Respond(a)
    PROVE  FlagsInv'
<1>1. pc = "wait" /\ thread # "none" /\ thread' = thread
  BY DEF FlagsInv, BusyOwned, Respond
<1>. QED  BY <1>1, RespondLeaves, LeavesFlags

LEMMA ThreadFlags ==
    ASSUME FlagsInv, StartSave \/ StartApi \/ EndThread
    PROVE  FlagsInv'
<1>1. CASE StartSave
  <2>1. Tidy(Memory) /\ Memory.app = app /\ thread' = thread /\ thread # "none"
    BY <1>1, FlagsTidy, MemoryIsMem DEF StartSave
  <2>2. ContinueQueue(Memory)
    BY <1>1 DEF StartSave
  <2>. QED  BY <2>1, <2>2, ContinueQueueLeaves, LeavesFlags
<1>2. CASE StartApi
  BY <1>2 DEF StartApi, FlagsInv, BusyOwned, ThreadState, saveVars
<1>3. CASE EndThread
  <2>1. app' \in App /\ ~app'.isSaving /\ ~app'.saveThreadActive /\ ~app'.apiPending
    BY <1>3 DEF EndThread, FlagsInv, BusyOwned, App
  <2>. QED  BY <1>3, <2>1 DEF EndThread, FlagsInv, BusyOwned, ThreadState, saveVars
<1>. QED  BY <1>1, <1>2, <1>3

LEMMA SaveFlags ==
    ASSUME FlagsInv, doSave
    PROVE  FlagsInv'
<1>1. thread = "none" /\ pc = "none" /\ queue = <<>> /\ req' = req /\ req.op = "none"
      /\ app \in App /\ ~app.isSaving /\ ~app.saveThreadActive /\ ~app.apiPending
  BY DEF FlagsInv, BusyOwned, doSave, saving, App
<1> DEFINE begun == [app EXCEPT !.isSaving = TRUE, !.saveThreadActive = TRUE, !.hasDirty = FALSE]
<1>2. CASE thread' = "save" /\ pc' = "ready" /\ app' = begun
  BY <1>1, <1>2 DEF FlagsInv, BusyOwned, ThreadState, App
<1>3. CASE /\ thread' = thread /\ pc' = pc /\ queue' = <<>>
           /\ \E dirty \in BOOLEAN : app' = [app EXCEPT !.hasDirty = dirty]
  BY <1>1, <1>3 DEF FlagsInv, BusyOwned, ThreadState, App
<1>. QED  BY <1>2, <1>3 DEF doSave, Spawn, NoSpawn

(* A command that starts no thread leaves the flags alone. *)
LEMMA QuietFlags ==
    ASSUME FlagsInv, UNCHANGED <<queue, thread, pc, req>>,
           app' \in App, app'.isSaving = app.isSaving,
           app'.saveThreadActive = app.saveThreadActive,
           app'.apiPending = app.apiPending
    PROVE  FlagsInv'
BY DEF FlagsInv, BusyOwned, ThreadState

(* One that starts a thread for a block is given while nothing is busy. *)
LEMMA SpawnFlags ==
    ASSUME FlagsInv, ~busy, UNCHANGED queue, Spawn("api"), req'.op \in {"add", "delete"},
           app' \in App, ~app'.isSaving, app'.saveThreadActive, app'.apiPending
    PROVE  FlagsInv'
BY DEF FlagsInv, BusyOwned, ThreadState, Spawn, busy, saving, App

LEMMA AddBlockFlags ==
    ASSUME FlagsInv, NEW rs, NEW i, NEW row, NEW hasDirty \in BOOLEAN,
           AddBlock(rs, i, row, hasDirty)
    PROVE  FlagsInv'
<1>1. app \in App /\ UNCHANGED queue /\ ~busy
  BY DEF AddBlock, FlagsInv, saveVars
<1>2. CASE /\ Spawn("api") /\ req'.op = "add"
           /\ app' = [app EXCEPT !.apiPending = TRUE, !.saveThreadActive = TRUE,
                                 !.hasDirty = @ \/ hasDirty]
  <2>1. app' \in App /\ ~app'.isSaving /\ app'.saveThreadActive /\ app'.apiPending
    BY <1>1, <1>2 DEF App, busy, saving
  <2>. QED  BY <1>1, <1>2, <2>1, SpawnFlags
<1>3. CASE /\ NoSpawn /\ UNCHANGED req
           /\ app' = [app EXCEPT !.hasDirty = @ \/ hasDirty]
  <2>1. /\ app' \in App /\ app'.isSaving = app.isSaving
        /\ app'.saveThreadActive = app.saveThreadActive /\ app'.apiPending = app.apiPending
    BY <1>1, <1>3 DEF App
  <2>. QED  BY <1>1, <1>3, <2>1, QuietFlags DEF NoSpawn
<1>. QED  BY <1>2, <1>3 DEF AddBlock, NoReq

LEMMA DeleteBlockFlags ==
    ASSUME FlagsInv, NEW i, DeleteBlock(i)
    PROVE  FlagsInv'
<1>1. app \in App /\ UNCHANGED queue /\ ~busy
  BY DEF DeleteBlock, FlagsInv
<1>2. CASE /\ Spawn("api") /\ req'.op = "delete"
           /\ app' = [app EXCEPT !.apiPending = TRUE, !.saveThreadActive = TRUE]
  <2>1. app' \in App /\ ~app'.isSaving /\ app'.saveThreadActive /\ app'.apiPending
    BY <1>1, <1>2 DEF App, busy, saving
  <2>. QED  BY <1>1, <1>2, <2>1, SpawnFlags
<1>3. CASE UNCHANGED <<app, thread, pc, req>>
  BY <1>1, <1>3, QuietFlags
<1>. QED  BY <1>2, <1>3 DEF DeleteBlock, NoSpawn, NoReq

LEMMA ShowsFlags ==
    ASSUME FlagsInv, NEW p, Shows(p)
    PROVE  FlagsInv'
<1>1. /\ app' \in App /\ app'.isSaving = app.isSaving
      /\ app'.saveThreadActive = app.saveThreadActive /\ app'.apiPending = app.apiPending
      /\ UNCHANGED <<queue, thread, pc, req>>
  BY DEF Shows, FlagsInv, App, saveVars
<1>. QED  BY <1>1, QuietFlags

LEMMA LoadToggleFlags ==
    ASSUME FlagsInv, NEW i, LoadToggle(i)
    PROVE  FlagsInv'
<1>1. /\ app' \in App /\ app'.isSaving = app.isSaving
      /\ app'.saveThreadActive = app.saveThreadActive /\ app'.apiPending = app.apiPending
      /\ UNCHANGED <<queue, thread, req>>
  BY DEF LoadToggle, FlagsInv, App, saveVars
<1>2. CASE pc' = pc
  BY <1>1, <1>2, QuietFlags
<1>3. CASE pc \in {"ready", "wait"} /\ pc' = "clash" /\ UNCHANGED app
  BY <1>1, <1>3 DEF FlagsInv, BusyOwned, ThreadState
<1>. QED  BY <1>2, <1>3 DEF LoadToggle

LEMMA EditFlags ==
    ASSUME FlagsInv, NEW i, EditStep(i)
    PROVE  FlagsInv'
<1>1. CASE Type(i) \/ Indent(i) \/ DeletePiece(i)
  BY <1>1, ShowsFlags DEF Type, Indent, DeletePiece
<1>2. CASE \E kind \in Retypes : Retype(i, kind)
  BY <1>2, ShowsFlags DEF Retype
<1>3. CASE \E up \in BOOLEAN : Move(i, up)
  BY <1>3, ShowsFlags DEF Move
<1>4. CASE Split(i)
  BY <1>4, AddBlockFlags DEF Split
<1>5. CASE \E kind \in Retypes : Add(i, kind)
  BY <1>5, AddBlockFlags DEF Add
<1>6. CASE DeleteBlock(i)
  BY <1>6, DeleteBlockFlags
<1>7. CASE CloseToggle(i) \/ OpenFromCache(i)
  BY <1>7, QuietFlags DEF CloseToggle, OpenFromCache, saveVars, FlagsInv
<1>8. CASE LoadToggle(i)
  BY <1>8, LoadToggleFlags
<1>. QED  BY <1>1, <1>2, <1>3, <1>4, <1>5, <1>6, <1>7, <1>8 DEF EditStep

LEMMA NextFlags == FlagsInv /\ [Next]_vars => FlagsInv'
<1> SUFFICES ASSUME FlagsInv, [Next]_vars PROVE FlagsInv'
  OBVIOUS
<1>1. CASE PickIcon
  <2>1. /\ app' \in App /\ app'.isSaving = app.isSaving
        /\ app'.saveThreadActive = app.saveThreadActive /\ app'.apiPending = app.apiPending
        /\ UNCHANGED <<queue, thread, pc, req>>
    BY <1>1 DEF PickIcon, FlagsInv, App, saveVars
  <2>. QED  BY <2>1, QuietFlags
<1>2. CASE Save
  BY <1>2, SaveFlags DEF Save
<1>3. CASE \E i \in DOMAIN rows : EditStep(i)
  BY <1>3, EditFlags
<1>4. CASE StartSave \/ StartApi \/ EndThread
  BY <1>4, ThreadFlags
<1>5. CASE \E a \in Outcomes : Respond(a)
  BY <1>5, RespondFlags
<1>6. CASE FlushPageCache
  <2>1. /\ app' \in App /\ app'.isSaving = app.isSaving
        /\ app'.saveThreadActive = app.saveThreadActive /\ app'.apiPending = app.apiPending
        /\ UNCHANGED <<queue, thread, pc, req>>
    BY <1>6 DEF FlushPageCache, FlagsInv, App, saveVars
  <2>. QED  BY <2>1, QuietFlags
<1>7. CASE UNCHANGED vars
  BY <1>7, QuietFlags DEF vars, FlagsInv
<1>. QED  BY <1>1, <1>2, <1>3, <1>4, <1>5, <1>6, <1>7 DEF Next, UserStep, ThreadStep

(* The busy flags tell the truth about the cooperative thread, whatever    *)
(* the user does and Notion answers: see BusyOwned.                        *)
THEOREM FlagsOwned == Spec => []BusyOwned
<1>1. FlagsInv => BusyOwned
  BY DEF FlagsInv
<1>. QED  BY InitFlags, NextFlags, <1>1, PTL DEF Spec

-----------------------------------------------------------------------------
(***************************************************************************)
(* ListShowsAccepted.  A pending title or icon is the one of the request   *)
(* that is out, until its answer clears it; a 401 or a 403 does not.  After*)
(* a 401 the page is left, but after a 403 a save of the icon still runs:  *)
(* the theorem is about accounts Notion lets edit the page.                *)
(***************************************************************************)
RunFields == {"iconPending", "titlePending", "pendingIcon", "pendingTitle", "rejected"}

NothingPending(rn) == ~rn.iconPending /\ ~rn.titlePending

PendingSent ==
    /\ run.iconPending  => /\ pc \in {"wait", "clash"} /\ req.op = "icon"
                           /\ req.body = <<run.pendingIcon>>
    /\ run.titlePending => /\ pc \in {"wait", "clash"} /\ req.op = "title"
                           /\ req.body = <<run.pendingTitle>>

PendingInv ==
    /\ FlagsInv
    /\ DOMAIN run = RunFields
    /\ {"icon", "title"} \subseteq DOMAIN notion
    /\ app.needsReload => pc \notin {"ready", "wait"}
    /\ app.needsReload \/ PendingSent

(* How a handler leaves the page list and the pending title and icon when  *)
(* the answer to the request accepted none.                                *)
Settled ==
    /\ list'.icon = list.icon /\ list'.title = list.title
    /\ DOMAIN run' = RunFields
    /\ app'.needsReload => pc' = "unwind"
    /\ app'.needsReload \/ PendingSent'

(* ... and in general: what was pending is shown. *)
Shown(m) ==
    /\ list'.icon = IF m.run.iconPending THEN m.run.pendingIcon ELSE m.list.icon
    /\ list'.title = IF m.run.titlePending THEN m.run.pendingTitle ELSE m.list.title
    /\ DOMAIN run' = RunFields
    /\ app'.needsReload = m.app.needsReload
    /\ PendingSent'

LEMMA AcknowledgedShows ==
    ASSUME NEW m, IsMem(m), DOMAIN m.run = RunFields
    PROVE  LET n == Acknowledged(m)
           IN  /\ n.list.icon = IF m.run.iconPending THEN m.run.pendingIcon ELSE m.list.icon
               /\ n.list.title = IF m.run.titlePending THEN m.run.pendingTitle ELSE m.list.title
               /\ DOMAIN n.run = RunFields /\ NothingPending(n.run)
BY DEF Acknowledged, NonePending, NothingPending, IsMem, RunFields

LEMMA SendIconPends ==
    ASSUME NEW m, Tidy(m), DOMAIN m.run = RunFields, NothingPending(m.run), SendIcon(m)
    PROVE  /\ list' = m.list /\ DOMAIN run' = RunFields
           /\ app'.needsReload = m.app.needsReload /\ PendingSent'
BY DEF SendIcon, Send, Commit, Tidy, IsMem, App, PendingSent, NothingPending, RunFields, NoReq

LEMMA SendRowPends ==
    ASSUME NEW m, Tidy(m), DOMAIN m.run = RunFields, NothingPending(m.run), SendRow(m)
    PROVE  /\ list' = m.list /\ DOMAIN run' = RunFields
           /\ app' = m.app /\ PendingSent'
<1> DEFINE q == [m EXCEPT !.queue = Tail(@)]
           i == Head(m.queue)
<1>1. IsMem(q) /\ q.app = m.app /\ q.run = m.run /\ q.list = m.list
  BY DEF Tidy, IsMem
<1> HIDE DEF q
<1>2. CASE SendTitle(q, i)
  BY <1>1, <1>2 DEF SendTitle, Send, Commit, IsMem, PendingSent, NothingPending, RunFields, NoReq
<1>3. CASE SendRecreate(q, i) \/ SendText(q, i)
  <2>1. list' = m.list /\ run' = m.run /\ app' = m.app
    BY <1>1, <1>3 DEF SendRecreate, SendText, Send, Commit, IsMem
  <2>. QED  BY <2>1 DEF PendingSent, NothingPending
<1>. QED  BY <1>2, <1>3 DEF SendRow, q

LEMMA EndPends ==
    ASSUME NEW m, Tidy(m), DOMAIN m.run = RunFields, NothingPending(m.run),
           SendTrash(m) \/ FinishRun(m)
    PROVE  /\ list' = m.list /\ DOMAIN run' = RunFields
           /\ app'.needsReload = m.app.needsReload /\ PendingSent'
<1>1. CASE SendTrash(m)
  <2>1. list' = m.list /\ run' = m.run /\ app' = m.app
    BY <1>1 DEF SendTrash, Send, Commit, Tidy, IsMem
  <2>. QED  BY <2>1 DEF PendingSent, NothingPending
<1>2. CASE FinishRun(m)
  <2> DEFINE flags == [m.app EXCEPT !.saved = @ \/ (m.app.isSaving /\ ~m.run.rejected),
                                    !.isSaving = FALSE, !.cacheNeedsSave = ~m.run.rejected]
  <2>1. flags.needsReload = m.app.needsReload
    BY DEF Tidy, App
  <2>2. /\ list' = m.list /\ app' = flags /\ DOMAIN run' = RunFields
        /\ run'.iconPending = m.run.iconPending /\ run'.titlePending = m.run.titlePending
    BY <1>2 DEF FinishRun, Return, Commit, Tidy, IsMem, RunFields
  <2>. QED  BY <2>1, <2>2 DEF PendingSent, NothingPending
<1>. QED  BY <1>1, <1>2

LEMMA ContinueQueueShows ==
    ASSUME NEW m, Tidy(m), DOMAIN m.run = RunFields, ContinueQueue(m)
    PROVE  Shown(m)
<1> DEFINE n == Acknowledged(m)
           d == Drained(n)
           t == [d EXCEPT !.defer = DropCovered(d.rows, @)]
           Kept(x) == /\ Tidy(x) /\ x.app = m.app /\ x.run = n.run /\ x.list = n.list
<1>1. Tidy(n) /\ n.app = m.app
  BY AcknowledgedKeeps DEF Tidy
<1>2. Kept(d)
  BY <1>1, DrainedKeeps DEF Tidy
<1>3. Kept(t)
  BY <1>2 DEF Tidy, IsMem
<1>4. /\ n.list.icon = IF m.run.iconPending THEN m.run.pendingIcon ELSE m.list.icon
      /\ n.list.title = IF m.run.titlePending THEN m.run.pendingTitle ELSE m.list.title
      /\ DOMAIN n.run = RunFields /\ NothingPending(n.run)
  BY AcknowledgedShows DEF Tidy
<1>5. SendIcon(n) \/ SendRow(d) \/ SendTrash(t) \/ FinishRun(t)
  BY DEF ContinueQueue
<1> HIDE DEF n, d, t
<1>6. /\ list' = n.list /\ DOMAIN run' = RunFields
      /\ app'.needsReload = m.app.needsReload /\ PendingSent'
  <2>1. CASE SendIcon(n)
    BY <1>1, <1>4, <2>1, SendIconPends
  <2>2. CASE SendRow(d)
    BY <1>2, <1>4, <2>2, SendRowPends
  <2>3. CASE SendTrash(t) \/ FinishRun(t)
    BY <1>3, <1>4, <2>3, EndPends
  <2>. QED  BY <1>5, <2>1, <2>2, <2>3
<1>. QED  BY <1>4, <1>6 DEF Shown

LEMMA ContinueSettles ==
    ASSUME NEW m, Tidy(m), DOMAIN m.run = RunFields, NothingPending(m.run),
           m.list = list, ~m.app.needsReload, ContinueQueue(m)
    PROVE  Settled
BY ContinueQueueShows DEF Shown, Settled, NothingPending

LEMMA ReturnSettles ==
    ASSUME NEW m, DOMAIN m.run = RunFields, m.list = list, Return(m),
           NothingPending(m.run) \/ m.app.needsReload
    PROVE  Settled
BY DEF Return, Commit, Settled, PendingSent, NothingPending

(* The handlers of a request that is not the title's or the icon's.        *)
LEMMA OthersSettle ==
    ASSUME PendingInv, pc = "wait", req.op \notin {"icon", "title"},
           NEW a \in {"ok", "noId", "twice", "lost", "down", "busy", "refused", "expired"},
           Respond(a)
    PROVE  Settled
<1>1. /\ Tidy(Memory) /\ DOMAIN run = RunFields /\ NothingPending(run) /\ ~app.needsReload
      /\ Memory.run = run /\ Memory.list = list /\ Memory.app = app
      /\ req.op \in Sent \cup {"add", "delete"}
  BY FlagsTidy, MemoryIsMem DEF PendingInv, PendingSent, NothingPending, FlagsInv, ThreadState
<1> DEFINE id == IF a \in {"ok", "twice"} THEN Len(Effect(notion, req, a).blk) ELSE NoId
           Calm(m) == /\ Tidy(m) /\ DOMAIN m.run = RunFields /\ NothingPending(m.run)
                      /\ m.list = list /\ ~m.app.needsReload
           api == [Memory EXCEPT !.app.apiPending = FALSE]
<1>2. Calm(Memory) /\ Calm(api)
  BY <1>1, ApiDoneKeeps
<1>3. ASSUME NEW m, Calm(m), ContinueQueue(m) PROVE Settled
  BY <1>3, ContinueSettles
<1>4. ASSUME NEW m, Calm(m), Return(StopSaveForRetry(m)) PROVE Settled
  BY <1>4, StopKeeps, ReturnSettles
<1>5. ASSUME NEW m, Calm(m), WriteError(a) PROVE
        LET h == HandleWriteError(m, a)
        IN  /\ Tidy(h) /\ h.app.needsReload /\ DOMAIN h.run = RunFields /\ h.list = list
  <2>1. a = "expired"
    BY <1>5 DEF WriteError
  <2>2. Tidy(m) /\ DOMAIN m.run = RunFields /\ m.list = list
    BY <1>5
  <2>. QED  BY <2>1, <2>2, WriteErrorKeeps
<1>6. ASSUME Return(HandleWriteError(Memory, a)), WriteError(a) PROVE Settled
  BY <1>2, <1>5, <1>6, ReturnSettles
<1> HIDE DEF api
<1>7. CASE req.op = "text"
  <2> DEFINE settled == [Memory EXCEPT !.run = NonePending(run)]
             refusal == [settled EXCEPT !.run.rejected = TRUE]
             undone  == [settled EXCEPT !.rows = MarkedAgain,
                                        !.app.iconDirty = @ \/ run.iconPending]
  <2>1. Calm(refusal)
    BY <1>1 DEF Tidy, IsMem, NonePending, NothingPending, RunFields
  <2>2. Calm(undone)
    BY <1>1 DEF Tidy, IsMem, NonePending, NothingPending, RunFields, App
  <2>3. AfterPatch(a)
    BY <1>7 DEF Respond
  <2> HIDE DEF settled, refusal, undone, Calm
  <2>4. \/ WriteError(a) /\ Return(HandleWriteError(Memory, a))
        \/ ContinueQueue(refusal) \/ ContinueQueue(Memory) \/ Return(StopSaveForRetry(undone))
    BY <2>3 DEF AfterPatch, settled, refusal, undone
  <2>. QED  BY <1>2, <1>3, <1>4, <1>6, <2>1, <2>2, <2>4
<1>8. CASE req.op = "add"
  <2> DEFINE i == FindSerial(rows, req.serial)
             w == [HandleWriteError(api, a) EXCEPT
                      !.rows = IF i = 0 THEN @ ELSE EraseRows(@, i, i + 1)]
             n == IF i = 0 THEN api ELSE [api EXCEPT !.rows[i].id = id]
  <2>1. Calm(n)
    BY <1>2 DEF Tidy, IsMem
  <2>2. ASSUME WriteError(a) PROVE w.app.needsReload /\ DOMAIN w.run = RunFields /\ w.list = list
    <3>1. LET h == HandleWriteError(api, a)
          IN  /\ Tidy(h) /\ h.app.needsReload /\ DOMAIN h.run = RunFields /\ h.list = list
      BY <1>2, <1>5, <2>2
    <3>. QED  BY <3>1 DEF Tidy, IsMem
  <2>3. AfterAddInsert(a, id)
    BY <1>8 DEF Respond
  <2> HIDE DEF w, n, Calm
  <2>4. (WriteError(a) /\ Return(w)) \/ ContinueQueue(n)
    BY <2>3 DEF AfterAddInsert, api, w, n
  <2>. QED  BY <1>3, <2>1, <2>2, <2>4, ReturnSettles
<1>9. CASE req.op = "delete"
  <2> DEFINE n == [api EXCEPT !.del = NoDel]
             h == IF WriteError(a) THEN HandleWriteError(api, a) ELSE api
  <2>1. Calm(n)
    BY <1>2 DEF Tidy, IsMem
  <2>2. /\ Tidy(h) /\ DOMAIN h.run = RunFields /\ h.list = list
        /\ NothingPending(h.run) \/ h.app.needsReload
    BY <1>2, <1>5
  <2>3. AfterDeleteArchive(a)
    BY <1>9 DEF Respond
  <2> HIDE DEF h, n, Calm
  <2>4. Return(RestoreDeletedBlocks(h)) \/ ContinueQueue(n)
    BY <2>3 DEF AfterDeleteArchive, api, h, n
  <2>5. LET r == RestoreDeletedBlocks(h)
        IN  /\ DOMAIN r.run = RunFields /\ r.list = list
            /\ NothingPending(r.run) \/ r.app.needsReload
    BY <2>2, RestoreKeeps DEF Tidy
  <2>. QED  BY <1>3, <2>1, <2>4, <2>5, ReturnSettles
<1>10. CASE req.op = "recreate"
  <2> DEFINE i == FindSerial(rows, req.serial)
             Put(r, again) == [r EXCEPT !.recreate = TRUE, !.dirty = again,
                                        !.saveFirst = @ /\ again]
             Back(again) == IF i = 0 THEN Memory ELSE [Memory EXCEPT !.rows[i] = Put(@, again)]
             undone  == Back(TRUE)
             refusal == [Back(FALSE) EXCEPT !.run.rejected = TRUE]
  <2>1. ASSUME NEW again
        PROVE  /\ Tidy(Back(again)) /\ Back(again).app = app
               /\ Back(again).run = run /\ Back(again).list = list
    BY <1>1 DEF Tidy, IsMem
  <2>2. Calm(undone)
    BY <1>1, <2>1
  <2>3. Calm(refusal)
    <3> HIDE DEF Back
    <3>. QED  BY <1>1, <2>1 DEF Tidy, IsMem, NothingPending, RunFields
  <2>4. AfterRecreateInsert(a, id)
    BY <1>10 DEF Respond
  <2>5. ASSUME Recreated(Memory, i, id) PROVE Settled
    <3>1. PICK n : /\ Calm(n)
                   /\ \/ ContinueQueue(n)
                      \/ Send(n, [NoReq EXCEPT !.op = "archive", !.id = req.id])
      BY <1>1, <2>5, RecreatedGoesOn
    <3>2. CASE Send(n, [NoReq EXCEPT !.op = "archive", !.id = req.id])
      BY <1>1, <3>1, <3>2 DEF Send, Commit, Settled, PendingSent, NothingPending
    <3>. QED  BY <1>3, <3>1, <3>2
  <2> HIDE DEF undone, refusal, Back, Calm
  <2>6. \/ WriteError(a) /\ Return(HandleWriteError(Memory, a))
        \/ ContinueQueue(refusal) \/ Return(StopSaveForRetry(undone))
        \/ ContinueQueue(Memory) \/ Recreated(Memory, i, id)
    BY <2>4 DEF AfterRecreateInsert, undone, refusal, Back
  <2>. QED  BY <1>2, <1>3, <1>4, <1>6, <2>2, <2>3, <2>5, <2>6
<1>11. CASE req.op = "archive"
  <2>1. AfterRecreateArchive(a)
    BY <1>11 DEF Respond
  <2>. QED  BY <1>2, <1>3, <1>6, <2>1 DEF AfterRecreateArchive
<1>12. CASE req.op = "trash"
  <2> DEFINE n == [Memory EXCEPT !.defer = IF defer = <<>> THEN <<>> ELSE Front(defer)]
  <2>1. Calm(n)
    BY <1>2 DEF Tidy, IsMem
  <2>2. AfterDeferredTrash(a)
    BY <1>12 DEF Respond
  <2> HIDE DEF n, Calm
  <2>3. \/ WriteError(a) /\ Return(HandleWriteError(Memory, a))
        \/ Return(StopSaveForRetry(Memory)) \/ ContinueQueue(n)
    BY <2>2 DEF AfterDeferredTrash, n
  <2>. QED  BY <1>2, <1>3, <1>4, <1>6, <2>1, <2>3
<1>. QED  BY <1>1, <1>7, <1>8, <1>9, <1>10, <1>11, <1>12 DEF Sent

(* The handler of the title's or the icon's answer: accepted, the list     *)
(* shows what Notion now has.                                              *)
LEMMA PatchSettles ==
    ASSUME PendingInv, pc = "wait", req.op \in {"icon", "title"},
           NEW a \in {"ok", "noId", "twice", "lost", "down", "busy", "refused", "expired"},
           Respond(a)
    PROVE  Settled \/ (a = "ok" /\ Shown(Memory))
<1>1. /\ Tidy(Memory) /\ DOMAIN run = RunFields /\ ~app.needsReload
      /\ Memory.run = run /\ Memory.list = list /\ Memory.app = app
  BY FlagsTidy, MemoryIsMem DEF PendingInv
<1> DEFINE settled == [Memory EXCEPT !.run = NonePending(run)]
           refusal == [settled EXCEPT !.run.rejected = TRUE]
           undone  == [settled EXCEPT !.rows = MarkedAgain,
                                      !.app.iconDirty = @ \/ run.iconPending]
           Calm(m) == /\ Tidy(m) /\ DOMAIN m.run = RunFields /\ NothingPending(m.run)
                      /\ m.list = list /\ ~m.app.needsReload
<1>2. Calm(refusal)
  BY <1>1 DEF Tidy, IsMem, NonePending, NothingPending, RunFields
<1>3. Calm(undone)
  BY <1>1 DEF Tidy, IsMem, NonePending, NothingPending, RunFields, App
<1>4. AfterPatch(a) /\ a # "twice" /\ a # "noId"
  BY DEF Respond, MayAnswer, Inserts
<1> HIDE DEF settled, refusal, undone
<1>5. CASE WriteError(a) /\ Return(HandleWriteError(Memory, a))
  <2>1. LET h == HandleWriteError(Memory, a)
        IN  h.app.needsReload /\ h.run = run /\ h.list = list
    BY <1>1, <1>5, WriteErrorKeeps DEF WriteError
  <2>. QED  BY <1>1, <1>5, <2>1, ReturnSettles
<1>6. CASE ContinueQueue(refusal)
  BY <1>2, <1>6, ContinueSettles
<1>7. CASE Return(StopSaveForRetry(undone))
  BY <1>3, <1>7, StopKeeps, ReturnSettles
<1>8. CASE Status200(a) /\ ContinueQueue(Memory)
  BY <1>1, <1>4, <1>8, ContinueQueueShows DEF Status200
<1>. QED
  BY <1>4, <1>5, <1>6, <1>7, <1>8 DEF AfterPatch, settled, refusal, undone

LEMMA InitPending == Init => PendingInv
<1> SUFFICES ASSUME Init PROVE PendingInv
  OBVIOUS
<1>1. FlagsInv
  BY InitFlags
<1>2. DOMAIN run = RunFields /\ {"icon", "title"} \subseteq DOMAIN notion
  BY DEF Init, RunFields
<1>. QED  BY <1>1, <1>2 DEF Init, PendingInv, PendingSent

(* What an answer does to the page list. *)
ListStep == /\ list'.title # list.title => <<list'.title>> = notion'.title
            /\ list'.icon # list.icon => <<list'.icon>> = notion'.icon

LEMMA RespondPending ==
    ASSUME "denied" \notin Answers, PendingInv, NEW a \in Outcomes, Respond(a)
    PROVE  PendingInv' /\ ListStep
<1>1. /\ pc = "wait" /\ FlagsInv'
      /\ a \in {"ok", "noId", "twice", "lost", "down", "busy", "refused", "expired"}
  BY RespondFlags DEF PendingInv, Respond, MayAnswer, Outcomes
<1>2. {"icon", "title"} \subseteq DOMAIN notion'
  BY DEF PendingInv, Respond, Effect, Served
<1>3. CASE Settled
  BY <1>1, <1>2, <1>3 DEF Settled, PendingInv, ListStep
<1>4. CASE req.op \in {"icon", "title"} /\ a = "ok" /\ Shown(Memory)
  <2>1. Shown(Memory) /\ ~app.needsReload /\ PendingSent
    BY <1>1, <1>4 DEF PendingInv
  <2>2. PendingInv'
    BY <1>1, <1>2, <2>1, MemoryIsMem DEF Shown, PendingInv
  <2>3. /\ req.op = "title" => notion'.title = req.body
        /\ req.op = "icon" => notion'.icon = req.body
    <3>1. notion' = Served(notion, req)
      BY <1>4 DEF Respond, Effect
    <3>2. ASSUME req.op = "title" PROVE notion' = [notion EXCEPT !.title = req.body]
      BY <3>1, <3>2 DEF Served, Inserts
    <3>3. ASSUME req.op = "icon" PROVE notion' = [notion EXCEPT !.icon = req.body]
      BY <3>1, <3>3 DEF Served, Inserts
    <3>. QED  BY <3>2, <3>3 DEF PendingInv
  <2>4. ListStep
    BY <2>1, <2>3, MemoryIsMem DEF Shown, PendingSent, ListStep
  <2>. QED  BY <2>2, <2>4
<1>. QED  BY <1>1, <1>3, <1>4, OthersSettle, PatchSettles

LEMMA StartSavePending ==
    ASSUME PendingInv, StartSave
    PROVE  PendingInv' /\ ListStep
<1>1. /\ Tidy(Memory) /\ DOMAIN run = RunFields /\ ~app.needsReload /\ NothingPending(run)
      /\ Memory.run = run /\ Memory.list = list /\ Memory.app = app /\ notion' = notion
  BY FlagsTidy, MemoryIsMem DEF PendingInv, StartSave, PendingSent, NothingPending
<1>2. Settled
  BY <1>1, ContinueSettles DEF StartSave
<1>. QED  BY <1>1, <1>2, ThreadFlags DEF Settled, PendingInv, ListStep

LEMMA SavePending ==
    ASSUME PendingInv, ~app.needsReload, doSave
    PROVE  PendingInv' /\ ListStep
<1>1. /\ FlagsInv' /\ pc = "none" /\ NothingPending(run) /\ app \in App
      /\ list' = list /\ notion' = notion /\ run' = [run EXCEPT !.rejected = FALSE]
  BY SaveFlags DEF PendingInv, doSave, saving, FlagsInv, BusyOwned, PendingSent, NothingPending
<1>2. app'.needsReload = app.needsReload
  <2>1. \/ \E dirty \in BOOLEAN : app' = [app EXCEPT !.hasDirty = dirty]
        \/ app' = [app EXCEPT !.isSaving = TRUE, !.saveThreadActive = TRUE, !.hasDirty = FALSE]
    BY DEF doSave
  <2>. QED  BY <1>1, <2>1 DEF App
<1>3. DOMAIN run' = RunFields /\ NothingPending(run')
  BY <1>1 DEF PendingInv, NothingPending, RunFields
<1>. QED  BY <1>1, <1>2, <1>3 DEF PendingInv, PendingSent, NothingPending, ListStep

(* The other steps neither answer a request nor start one of the save      *)
(* thread: the page list and what is pending stay.                         *)
LEMMA CalmPending ==
    ASSUME PendingInv, FlagsInv', UNCHANGED <<run, list, notion>>,
           \/ ~app.needsReload /\ UNCHANGED app.needsReload /\ PendingSent'
           \/ app'.needsReload /\ pc' \notin {"ready", "wait"}
    PROVE  PendingInv' /\ ListStep
BY DEF PendingInv, ListStep

LEMMA EditPending ==
    ASSUME PendingInv, NEW i, EditStep(i)
    PROVE  PendingInv' /\ ListStep
<1>1. /\ FlagsInv' /\ app \in App
      /\ UNCHANGED <<run, list, notion>> /\ ~app.needsReload
  BY EditFlags DEF PendingInv, FlagsInv, EditStep, Type, Retype, Add, Indent, Split, Move,
                   DeletePiece, DeleteBlock, CloseToggle, OpenFromCache, LoadToggle,
                   MayClick, Edits, Gives, Shows, AddBlock, saveVars
<1>2. PendingSent
  BY <1>1 DEF PendingInv
<1>3. CASE app'.needsReload = app.needsReload /\ UNCHANGED <<pc, req>>
  BY <1>1, <1>2, <1>3, CalmPending DEF PendingSent
<1>4. CASE app'.needsReload = app.needsReload /\ pc = "none"
  BY <1>1, <1>2, <1>4, CalmPending DEF PendingSent
<1>5. CASE LoadToggle(i)
  <2>1. UNCHANGED req
    BY <1>5 DEF LoadToggle
  <2>2. CASE pc \in {"ready", "wait"}
    BY <1>1, <1>2, <1>5, <2>1, <2>2, CalmPending DEF LoadToggle, PendingSent
  <2>3. CASE pc \notin {"ready", "wait"}
    <3>1. pc' = pc /\ {app.needsReload, app'.needsReload} \subseteq BOOLEAN
      BY <1>1, <1>5, <2>3 DEF LoadToggle, FlagsInv, App
    <3>2. CASE app'.needsReload
      BY <1>1, <2>3, <3>1, <3>2, CalmPending
    <3>. QED  BY <1>3, <2>1, <3>1, <3>2, <1>1
  <2>. QED  BY <2>2, <2>3
<1>6. CASE CloseToggle(i) \/ OpenFromCache(i)
  BY <1>3, <1>6 DEF CloseToggle, OpenFromCache
<1>7. ASSUME NEW p, Shows(p) PROVE PendingInv' /\ ListStep
  BY <1>1, <1>3, <1>7 DEF Shows, App
<1>8. ASSUME NEW rs, NEW row, NEW hasDirty \in BOOLEAN, AddBlock(rs, i, row, hasDirty)
      PROVE  PendingInv' /\ ListStep
  <2>1. pc = "none"
    BY <1>8 DEF AddBlock, busy, saving, PendingInv, FlagsInv, BusyOwned
  <2>2. \/ app' = [app EXCEPT !.apiPending = TRUE, !.saveThreadActive = TRUE,
                              !.hasDirty = @ \/ hasDirty]
        \/ app' = [app EXCEPT !.hasDirty = @ \/ hasDirty]
    BY <1>8 DEF AddBlock
  <2>3. app'.needsReload = app.needsReload
    BY <1>1, <2>2 DEF App
  <2>. QED  BY <1>4, <2>1, <2>3
<1>9. CASE DeleteBlock(i)
  <2>1. pc = "none"
    BY <1>9 DEF DeleteBlock, busy, saving, PendingInv, FlagsInv, BusyOwned
  <2>2. \/ app' = [app EXCEPT !.apiPending = TRUE, !.saveThreadActive = TRUE]
        \/ app' = app
    BY <1>9 DEF DeleteBlock
  <2>3. app'.needsReload = app.needsReload
    BY <1>1, <2>2 DEF App
  <2>. QED  BY <1>4, <2>1, <2>3
<1>. QED
  BY <1>5, <1>6, <1>7, <1>8, <1>9 DEF EditStep, Type, Retype, Add, Indent, Split, Move, DeletePiece

LEMMA NextPending ==
    ASSUME "denied" \notin Answers, PendingInv, [Next]_vars
    PROVE  PendingInv' /\ ListStep
<1>1. FlagsInv' /\ app \in App /\ app.needsReload \in BOOLEAN
  BY NextFlags DEF PendingInv, FlagsInv, App
<1>2. CASE PickIcon \/ FlushPageCache
  <2>1. /\ UNCHANGED <<run, list, notion, pc, req>>
        /\ app'.needsReload = app.needsReload
    BY <1>1, <1>2 DEF PickIcon, FlushPageCache, App, saveVars
  <2>. QED  BY <1>1, <2>1, CalmPending DEF PendingInv, PendingSent
<1>3. CASE Save
  BY <1>3, SavePending DEF Save, Gives
<1>4. CASE \E i \in DOMAIN rows : EditStep(i)
  BY <1>4, EditPending
<1>5. CASE StartSave
  BY <1>5, StartSavePending
<1>6. CASE StartApi \/ EndThread
  <2>1. /\ UNCHANGED <<run, list, notion, req>> /\ pc' \in {"none", "wait"}
        /\ pc = "ready" \/ pc' = "none"
        /\ pc \in {"ready", "unwind"} /\ app'.needsReload = app.needsReload
    BY <1>1, <1>6 DEF StartApi, EndThread, App, saveVars
  <2>. QED  BY <1>1, <2>1, CalmPending DEF PendingInv, PendingSent
<1>7. CASE \E a \in Outcomes : Respond(a)
  BY <1>7, RespondPending
<1>8. CASE UNCHANGED vars
  BY <1>1, <1>8, CalmPending DEF vars, PendingInv, PendingSent
<1>. QED
  BY <1>2, <1>3, <1>4, <1>5, <1>6, <1>7, <1>8 DEF Next, UserStep, ThreadStep

(* As long as Notion lets the account edit the page, the page list shows a *)
(* title or an icon only once Notion has it: see ListShowsAccepted.        *)
THEOREM ListAccepted ==
    ASSUME "denied" \notin Answers
    PROVE  Spec => ListShowsAccepted
<1>1. PendingInv /\ [Next]_vars => PendingInv'
  BY NextPending
<1>2. PendingInv /\ [Next]_vars => [ListStep]_vars
  BY NextPending
<1>. QED
  BY InitPending, <1>1, <1>2, PTL DEF Spec, ListShowsAccepted, ListStep

-----------------------------------------------------------------------------
LEMMA EditVersions ==
    ASSUME ControlOK, NEW i, EditStep(i)
    PROVE  icon' = icon /\ edits' \in 0 .. MaxEdits
<1>1. \/ edits' = edits
      \/ edits < MaxEdits /\ edits' = edits + 1
  BY DEF EditStep, Type, Retype, Add, Indent, Split, Move, DeletePiece, DeleteBlock,
         CloseToggle, OpenFromCache, LoadToggle, Edits
<1>2. icon' = icon
  BY DEF EditStep, Type, Retype, Add, Indent, Split, Move, DeletePiece, DeleteBlock,
         CloseToggle, OpenFromCache, LoadToggle, Shows, AddBlock
<1>. QED  BY <1>1, <1>2, SaveAssumption DEF ControlOK

LEMMA NextVersions ==
    ASSUME ControlOK, [Next]_vars
    PROVE  icon' \in Nat /\ edits' \in 0 .. MaxEdits
<1>1. CASE PickIcon
  BY <1>1, SaveAssumption DEF PickIcon, Edits, Ver, ControlOK
<1>2. CASE \E i \in DOMAIN rows : EditStep(i)
  BY <1>2, EditVersions DEF ControlOK
<1>3. CASE Save \/ ThreadStep \/ FlushPageCache \/ UNCHANGED vars
  BY <1>3 DEF Save, doSave, ThreadStep, StartSave, StartApi, EndThread, Respond,
              FlushPageCache, vars, editVars, ControlOK
<1>. QED  BY <1>1, <1>2, <1>3 DEF Next, UserStep

-----------------------------------------------------------------------------
(* The types of the program's memory.                                      *)
Copies  == [rows : Seq(Row), after : Nat, idx : Nat]
OldCopy == [oldId : Int, newId : Int, covered : BOOLEAN, kidsLeft : BOOLEAN]
Titles  == [icon : Nat, title : Nat]
Indices == Seq(Nat \ {0})
Waiting == Seq(OldCopy)

Memories == [rows : RowLists, del : Copies, app : App, queue : Indices, run : Run,
             defer : Waiting, list : Titles]

(* What a handler leaves that began with the memory m: no row is added,    *)
(* removed or moved, and the copy of a deleted block stays.                *)
Lands(m) ==
    /\ rows' \in RowLists /\ InPlace(rows', m.rows)
    /\ del' = m.del
    /\ app' \in App /\ queue' \in Indices /\ run' \in Run
    /\ defer' \in Waiting /\ list' \in Titles
    /\ req' \in Request

LEMMA FieldsTyped ==
    ASSUME NEW m \in Memories
    PROVE  /\ m.rows \in RowLists /\ m.del \in Copies /\ m.app \in App
           /\ m.queue \in Indices /\ m.run \in Run /\ m.defer \in Waiting
           /\ m.list \in Titles
BY DEF Memories

LEMMA FieldWritten ==
    ASSUME NEW m \in Memories
    PROVE  /\ \A w \in RowLists : [m EXCEPT !.rows = w] \in Memories
           /\ \A w \in App : [m EXCEPT !.app = w] \in Memories
           /\ \A w \in Indices : [m EXCEPT !.queue = w] \in Memories
           /\ \A w \in Run : [m EXCEPT !.run = w] \in Memories
           /\ \A w \in Waiting : [m EXCEPT !.defer = w] \in Memories
           /\ \A w \in Titles : [m EXCEPT !.list = w] \in Memories
           /\ \A w \in Copies : [m EXCEPT !.del = w] \in Memories
BY DEF Memories

LEMMA CommitLands ==
    ASSUME NEW m \in Memories, NEW n \in Memories, InPlace(n.rows, m.rows),
           n.del = m.del, Commit(n), req' \in Request
    PROVE  Lands(m)
BY FieldsTyped DEF Commit, Lands

LEMMA SameInPlace ==
    ASSUME NEW w
    PROVE  InPlace(w, w)
BY DEF InPlace

LEMMA NoReqTyped == NoReq \in Request
<1>1. <<>> \in Seq(Nat) /\ "text" \in Kinds
  BY DEF Kinds
<1> QED
  BY <1>1 DEF NoReq, Request, NoId

LEMMA AcknowledgedTyped ==
    ASSUME NEW m \in Memories
    PROVE  LET n == Acknowledged(m)
           IN  /\ n \in Memories /\ n.rows = m.rows /\ n.del = m.del
               /\ n.app = m.app
<1> DEFINE shown == [icon  |-> IF m.run.iconPending  THEN m.run.pendingIcon  ELSE m.list.icon,
                     title |-> IF m.run.titlePending THEN m.run.pendingTitle ELSE m.list.title]
           rn == NonePending(m.run)
<1>1. shown \in Titles /\ rn \in Run
  BY FieldsTyped DEF Titles, Run, NonePending
<1>2. Acknowledged(m) = [m EXCEPT !.list = shown, !.run = rn]
  BY DEF Acknowledged
<1> HIDE DEF shown, rn
<1> QED
  BY <1>1, <1>2 DEF Memories

LEMMA DrainedTyped ==
    ASSUME NEW m \in Memories
    PROVE  LET n == Drained(m)
           IN  /\ n \in Memories /\ InPlace(n.rows, m.rows) /\ n.del = m.del
               /\ n.app = m.app
               /\ n.queue # <<>> => Head(n.queue) \in 1 .. Len(n.rows)
<1> DEFINE q == m.queue
           L == Len(q)
           T == {k \in 1 .. L + 1 : k = L + 1 \/ Sendable(m.rows, q[k])}
           n == Least(T)
           skipped == {q[k] : k \in 1 .. n - 1}
           F(i) == [m.rows[i] EXCEPT !.dirty = @ /\ i \notin skipped]
           clean == [i \in DOMAIN m.rows |-> F(i)]
           rest == SubSeq(q, n, L)
<1>1. q \in Indices /\ L \in Nat /\ \A k \in 1 .. L : q[k] \in Nat \ {0}
  BY FieldsTyped, RowAt DEF Indices
<1>2. /\ m.rows \in RowLists /\ DOMAIN m.rows = 1 .. Len(m.rows)
      /\ \A k \in 1 .. Len(m.rows) : m.rows[k] \in Row
  BY FieldsTyped, RowInList
<1>3. Drained(m) = [m EXCEPT !.queue = rest, !.rows = clean]
  BY DEF Drained
<1>4. n \in 1 .. L + 1 /\ n \in T
  <2>1. L + 1 \in 1 .. L + 1
    BY <1>1
  <2>2. T \subseteq 1 .. L + 1 /\ L + 1 \in T
    BY <2>1
  <2> HIDE DEF T
  <2>3. T \subseteq Nat /\ T # {}
    BY <2>2
  <2>4. Least(T) \in T
    BY <2>3, LeastIn
  <2> QED
    BY <2>2, <2>4
<1> HIDE DEF n
<1>5. n <= L => Sendable(m.rows, q[n])
  BY <1>1, <1>4
<1> HIDE DEF T
<1>6. \A i \in 1 .. Len(m.rows) : F(i) \in Row /\ F(i).serial = m.rows[i].serial
  <2> SUFFICES ASSUME NEW i \in 1 .. Len(m.rows)
               PROVE  F(i) \in Row /\ F(i).serial = m.rows[i].serial
    OBVIOUS
  <2> DEFINE r == m.rows[i]
             b == r.dirty /\ i \notin skipped
  <2>1. r \in Row
    BY <1>2
  <2>2. F(i) = [r EXCEPT !.dirty = b]
    OBVIOUS
  <2>3. b \in BOOLEAN
    <3>1. r.dirty \in BOOLEAN
      BY <2>1 DEF Row
    <3> HIDE DEF r, skipped
    <3> QED
      BY <3>1
  <2> HIDE DEF r, b, F
  <2>4. [r EXCEPT !.dirty = b] \in Row /\ [r EXCEPT !.dirty = b].serial = r.serial
    BY <2>1, <2>3, FieldTyped
  <2> QED
    BY <2>2, <2>4 DEF r
<1>7. clean = [i \in DOMAIN m.rows |-> clean[i]]
  OBVIOUS
<1>8. \A i \in 1 .. Len(m.rows) : clean[i] \in Row /\ clean[i].serial = m.rows[i].serial
  BY <1>2, <1>6
<1> HIDE DEF clean
<1>9. clean \in RowLists /\ InPlace(clean, m.rows)
  BY <1>2, <1>7, <1>8, EachChanged
<1>10. rest \in Indices /\ (rest # <<>> => n <= L /\ Head(rest) = q[n])
  <2> DEFINE to == L + 1
  <2>1. q \in Seq(Nat \ {0}) /\ n \in 1 .. Len(q) + 1 /\ to \in n .. Len(q) + 1 /\ to - 1 = L
    BY <1>1, <1>4 DEF Indices
  <2>2. rest \in Seq(Nat \ {0}) /\ Len(rest) = to - n
    <3> HIDE DEF L
    <3>1. SubSeq(q, n, to - 1) \in Seq(Nat \ {0}) /\ Len(SubSeq(q, n, to - 1)) = to - n
      <4> HIDE DEF to
      <4> QED
        BY <2>1, PartOf
    <3> QED
      BY <2>1, <3>1
  <2>3. ASSUME rest # <<>> PROVE n <= L /\ Head(rest) = q[n]
    <3>1. n <= L
      BY <1>1, <1>4, <2>2, <2>3
    <3>2. rest[1] = q[n]
      BY <1>1, <1>4, <3>1
    <3> HIDE DEF rest
    <3> QED
      BY <2>2, <2>3, <3>1, <3>2
  <2> QED
    BY <2>2, <2>3 DEF Indices
<1>11. ASSUME rest # <<>> PROVE Head(rest) \in 1 .. Len(clean)
  <2>1. q[n] \in DOMAIN m.rows
    BY <1>5, <1>10, <1>11 DEF Sendable
  <2> QED
    BY <1>2, <1>9, <1>10, <1>11, <2>1 DEF InPlace
<1> HIDE DEF rest
<1>12. Drained(m) \in Memories
  BY <1>3, <1>9, <1>10 DEF Memories
<1>13. /\ Drained(m).rows = clean /\ Drained(m).queue = rest
       /\ Drained(m).del = m.del /\ Drained(m).app = m.app
  BY <1>3 DEF Memories
<1> QED
  BY <1>9, <1>11, <1>12, <1>13

-----------------------------------------------------------------------------
(* The old copies waiting for the trash.                                   *)
LEMMA ReadyOf ==
    ASSUME NEW rs, NEW df \in Waiting
    PROVE  ReadyDeferred(rs, df) \in 0 .. Len(df) /\ Len(df) \in Nat
<1> DEFINE T == {i \in DOMAIN df :
                   LET x == FindBlockIdx(rs, df[i].newId)
                   IN  x # 0 /\ ~RecreatePendingIn(rs, x, df[i].kidsLeft)}
           n == Len(df)
<1>1. n \in Nat /\ DOMAIN df = 1 .. n
  BY RowAt DEF Waiting
<1>2. T \subseteq 1 .. n
  BY <1>1
<1>3. ReadyDeferred(rs, df) = Greatest(T)
  BY DEF ReadyDeferred
<1> HIDE DEF T
<1> QED
  BY <1>1, <1>2, <1>3, GreatestFound

LEMMA LastSwappedOf ==
    ASSUME NEW df \in Waiting, NEW i \in 1 .. Len(df)
    PROVE  /\ LastSwapped(df, i) \in Waiting /\ Len(LastSwapped(df, i)) = Len(df)
           /\ LastSwapped(df, i)[Len(df)] \in OldCopy
           /\ Front(LastSwapped(df, i)) \in Waiting
           /\ Len(Front(LastSwapped(df, i))) = Len(df) - 1
<1> DEFINE n == Len(df)
           w == LastSwapped(df, i)
<1>1. df \in Seq(OldCopy) /\ n \in Nat /\ DOMAIN df = 1 .. n /\ i \in 1 .. n
      /\ \A k \in 1 .. n : df[k] \in OldCopy
  BY RowAt DEF Waiting
<1>2. n \in 1 .. n
  BY <1>1
<1>3. w = [k \in 1 .. n |-> w[k]] /\ \A k \in 1 .. n : w[k] \in OldCopy
  BY <1>1, <1>2 DEF LastSwapped
<1> HIDE DEF w
<1>4. w \in Seq(OldCopy) /\ Len(w) = n
  BY <1>1, <1>3, Mapped
<1>5. Front(w) = SubSeq(w, 1, n - 1)
  BY <1>4 DEF Front
<1>6. SubSeq(w, 1, n - 1) \in Seq(OldCopy) /\ Len(SubSeq(w, 1, n - 1)) = n - 1
  BY <1>1, <1>2, <1>4, PartOf
<1> QED
  BY <1>2, <1>3, <1>4, <1>5, <1>6 DEF Waiting, w

LEMMA DropOneOf ==
    ASSUME NEW rs, NEW df \in Waiting
    PROVE  DropOne(rs, df) \in Waiting
<1> DEFINE i == ReadyDeferred(rs, df)
<1>1. i \in 0 .. Len(df) /\ Len(df) \in Nat
  BY ReadyOf
<1>2. DropOne(rs, df) = df \/ (i # 0 /\ DropOne(rs, df) = Front(LastSwapped(df, i)))
  BY DEF DropOne
<1> HIDE DEF i
<1> QED
  BY <1>1, <1>2, LastSwappedOf

LEMMA DropCoveredOf ==
    ASSUME NEW rs, NEW df \in Waiting
    PROVE  DropCovered(rs, df) \in Waiting
<1> DEFINE n == Len(df)
           left == CHOOSE f : f = [k \in 0 .. n |-> IF k = 0 THEN df ELSE DropOne(rs, f[k - 1])]
           step == [d \in Waiting |-> DropOne(rs, d)]
<1>1. n \in Nat /\ df \in Waiting
  BY ReadyOf
<1>2. \A d \in Waiting : step[d] = DropOne(rs, d) /\ DropOne(rs, d) \in Waiting
  BY DropOneOf
<1>3. DropCovered(rs, df) = left[n]
  BY DEF DropCovered
<1> HIDE DEF left, step, n
<1>4. \E f : f = [k \in 0 .. n |-> IF k = 0 THEN df ELSE DropOne(rs, f[k - 1])]
  <2>1. PICK f : Repeats(f, n, df, step)
    BY <1>1, RepeatsExist
  <2>2. f = [k \in 0 .. n |-> IF k = 0 THEN df ELSE step[f[k - 1]]]
    BY <2>1 DEF Repeats
  <2> DEFINE T == {k \in 0 .. n : f[k] \in Waiting}
  <2>3. 0 \in T
    BY <1>1, <2>2
  <2>4. ASSUME NEW k \in 1 .. n, k - 1 \in T PROVE k \in T
    <3>1. f[k] = step[f[k - 1]] /\ f[k - 1] \in Waiting
      BY <1>1, <2>2, <2>4
    <3>2. f[k] \in Waiting /\ k \in 0 .. n
      BY <1>2, <3>1
    <3> QED
      BY <3>2
  <2> HIDE DEF T
  <2>5. 0 .. n \subseteq T
    BY <1>1, <2>3, <2>4, StaysTo
  <2>6. \A k \in 1 .. n : step[f[k - 1]] = DropOne(rs, f[k - 1])
    <3> SUFFICES ASSUME NEW k \in 1 .. n PROVE step[f[k - 1]] = DropOne(rs, f[k - 1])
      OBVIOUS
    <3>1. k - 1 \in 0 .. n
      BY <1>1
    <3>2. f[k - 1] \in Waiting
      BY <2>5, <3>1 DEF T
    <3> QED
      BY <1>2, <3>2
  <2>7. \A k \in 0 .. n : (IF k = 0 THEN df ELSE step[f[k - 1]])
                            = (IF k = 0 THEN df ELSE DropOne(rs, f[k - 1]))
    <3>1. \A k \in 0 .. n : k # 0 => k \in 1 .. n
      BY <1>1
    <3> QED
      BY <2>6, <3>1
  <2>8. f = [k \in 0 .. n |-> IF k = 0 THEN df ELSE DropOne(rs, f[k - 1])]
    BY <2>2, <2>7
  <2> QED
    BY <2>8
<1>5. left = [k \in 0 .. n |-> IF k = 0 THEN df ELSE DropOne(rs, left[k - 1])]
  BY <1>4 DEF left
<1> DEFINE U == {k \in 0 .. n : left[k] \in Waiting}
<1>6. 0 \in U
  BY <1>1, <1>5
<1>7. ASSUME NEW k \in 1 .. n, k - 1 \in U PROVE k \in U
  <2>1. left[k] = DropOne(rs, left[k - 1]) /\ left[k - 1] \in Waiting
    BY <1>1, <1>5, <1>7
  <2>2. left[k] \in Waiting /\ k \in 0 .. n
    BY <1>2, <2>1
  <2> QED
    BY <2>2
<1> HIDE DEF U
<1>8. 0 .. n \subseteq U
  BY <1>1, <1>6, <1>7, StaysTo
<1>9. left[n] \in Waiting
  BY <1>1, <1>8 DEF U
<1> QED
  BY <1>3, <1>9

-----------------------------------------------------------------------------
(* The requests, and the memory they are sent from.                        *)
LEMMA ContentOf ==
    ASSUME NEW rs \in RowLists, NEW h \in 1 .. Len(rs)
    PROVE  Content(rs, h) \in Seq(Nat)
<1> DEFINE end == GroupEnd(rs, h)
           n == end - h
           w == [k \in 1 .. n |-> rs[h + k - 1].ver]
<1>1. rs \in Seq(Row) /\ Len(rs) \in Nat /\ \A k \in 1 .. Len(rs) : rs[k] \in Row
  BY RowInList
<1>2. end \in h + 1 .. Len(rs) + 1
  BY <1>1, GroupEndOf
<1>3. Content(rs, h) = w
  BY DEF Content
<1> HIDE DEF end
<1>4. n \in Nat /\ \A k \in 1 .. n : h + k - 1 \in 1 .. Len(rs)
  BY <1>1, <1>2
<1>5. \A k \in 1 .. n : w[k] \in Nat
  <2> SUFFICES ASSUME NEW k \in 1 .. n PROVE rs[h + k - 1].ver \in Nat
    OBVIOUS
  <2> DEFINE r == rs[h + k - 1]
  <2>1. r \in Row
    BY <1>1, <1>4
  <2> HIDE DEF r
  <2>2. r.ver \in Nat
    BY <2>1 DEF Row
  <2> QED
    BY <2>2 DEF r
<1>6. w = [k \in 1 .. n |-> w[k]]
  OBVIOUS
<1> HIDE DEF w, n
<1> QED
  BY <1>3, <1>4, <1>5, <1>6, Mapped

LEMMA PreparedOf ==
    ASSUME NEW rs \in RowLists, NEW from, NEW to
    PROVE  PrepareGroup(rs, from, to) \in RowLists /\ InPlace(PrepareGroup(rs, from, to), rs)
<1> DEFINE F(r) == [r EXCEPT !.dirty = FALSE]
           w == PrepareGroup(rs, from, to)
<1>1. DOMAIN rs = 1 .. Len(rs) /\ \A k \in 1 .. Len(rs) : rs[k] \in Row
  BY RowInList
<1>2. w = Change(rs, from, to, F)
  BY DEF PrepareGroup
<1>3. w = [k \in DOMAIN rs |-> IF k \in from .. to - 1 THEN F(rs[k]) ELSE rs[k]]
  BY <1>2 DEF Change
<1>4. \A r \in Row : F(r) \in Row /\ F(r).serial = r.serial
  BY FieldTyped
<1> HIDE DEF F, w
<1>5. w = [k \in DOMAIN rs |-> w[k]]
  BY <1>3
<1>6. \A k \in 1 .. Len(rs) : w[k] \in Row /\ w[k].serial = rs[k].serial
  BY <1>1, <1>3, <1>4
<1> QED
  BY <1>5, <1>6, EachChanged DEF w

LEMMA AnchorOf ==
    ASSUME NEW rs \in RowLists, NEW i \in 1 .. Len(rs)
    PROVE  RecreateAnchor(rs, i) \in Int
<1> DEFINE b == rs[i]
           T == {k \in 2 .. i - 1 :
                   IF IsChild(b)
                   THEN rs[k].id = b.parent \/ (IsChild(rs[k]) /\ SameParent(rs[k], b))
                   ELSE ~IsChild(rs[k])}
           j == Greatest(T)
           m == i - 1
<1>1. i \in Nat /\ m \in Nat /\ m < Len(rs) /\ \A k \in 1 .. Len(rs) : rs[k] \in Row
      /\ Len(rs) \in Nat
  BY RowInList
<1>2. T \subseteq 1 .. m
  BY <1>1
<1>3. RecreateAnchor(rs, i) = NoId \/ (j # 0 /\ RecreateAnchor(rs, i) = rs[j].id)
  BY DEF RecreateAnchor
<1> HIDE DEF T
<1>4. j \in 0 .. m
  BY <1>1, <1>2, GreatestFound
<1> HIDE DEF j, b
<1>5. j # 0 => rs[j] \in Row
  BY <1>1, <1>4
<1> DEFINE r == rs[j]
<1>6. j # 0 => r.id \in Int
  <2> HIDE DEF r
  <2>1. r \in Row => r.id \in Int
    BY DEF Row
  <2> QED
    BY <1>5, <2>1 DEF r
<1> QED
  BY <1>3, <1>6 DEF NoId

LEMMA SendIconLands ==
    ASSUME NEW m \in Memories, icon \in Nat, SendIcon(m)
    PROVE  Lands(m)
<1> DEFINE q == [NoReq EXCEPT !.op = "icon", !.id = Page, !.body = <<icon>>]
           n == [m EXCEPT !.app.iconDirty = FALSE,
                          !.run.iconPending = TRUE, !.run.pendingIcon = icon]
<1>1. Commit(n) /\ req' = q
  BY DEF SendIcon, Send
<1>2. q \in Request
  <2> DEFINE body == <<icon>>
  <2>1. body \in Seq(Nat) /\ Page \in Int
    BY DEF Page
  <2> HIDE DEF body
  <2>2. [NoReq EXCEPT !.op = "icon", !.id = Page, !.body = body] \in Request
    BY <2>1, NoReqTyped DEF Request
  <2> QED
    BY <2>2 DEF body
<1>3. n \in Memories
  <2> DEFINE a == [m.app EXCEPT !.iconDirty = FALSE]
             u == [m.run EXCEPT !.iconPending = TRUE, !.pendingIcon = icon]
  <2>1. a \in App
    BY FieldsTyped DEF App
  <2>2. u \in Run
    BY FieldsTyped DEF Run
  <2>3. n = [m EXCEPT !.app = a, !.run = u]
    BY DEF Memories, Run
  <2> HIDE DEF a, u
  <2> QED
    BY <2>1, <2>2, <2>3 DEF Memories
<1>4. n.rows = m.rows /\ n.del = m.del
  BY DEF Memories
<1> HIDE DEF n, q
<1> QED
  BY <1>1, <1>2, <1>3, <1>4, SameInPlace, CommitLands

LEMMA SendTitleLands ==
    ASSUME NEW m \in Memories, NEW i \in 1 .. Len(m.rows), SendTitle(m, i)
    PROVE  Lands(m)
<1> DEFINE b == m.rows[i]
           d == [b EXCEPT !.dirty = FALSE]
           w == [m.rows EXCEPT ![i] = d]
           u == [m.run EXCEPT !.titlePending = TRUE, !.pendingTitle = b.ver]
           q == [NoReq EXCEPT !.op = "title", !.id = Page, !.body = <<b.ver>>,
                              !.from = i, !.to = i + 1]
           n == [m EXCEPT !.rows = w, !.run = u]
<1>1. Commit(n) /\ req' = q
  BY DEF SendTitle, Send, Memories, Run
<1>2. m.rows \in RowLists /\ m.run \in Run /\ b \in Row /\ i \in Nat
  BY FieldsTyped, RowInList
<1> HIDE DEF b
<1>3. b.ver \in Nat /\ d \in Row /\ d.serial = b.serial
  <2>1. b.ver \in Nat
    BY <1>2 DEF Row
  <2> QED
    BY <1>2, <2>1, FieldTyped
<1> HIDE DEF d
<1>4. w \in RowLists /\ InPlace(w, m.rows)
  BY <1>2, <1>3, OneChanged DEF b
<1>5. u \in Run
  BY <1>2, <1>3 DEF Run
<1>6. q \in Request
  <2> DEFINE body == <<b.ver>>
             s == [NoReq EXCEPT !.op = "title", !.id = Page, !.body = body]
             to == i + 1
  <2>1. body \in Seq(Nat) /\ Page \in Int /\ to \in Nat
    BY <1>2, <1>3 DEF Page
  <2> HIDE DEF body, to
  <2>2. s \in Request
    BY <2>1, NoReqTyped DEF Request
  <2>3. q = [s EXCEPT !.from = i, !.to = to]
    BY NoReqTyped DEF Request, body, to
  <2> HIDE DEF s
  <2>4. [s EXCEPT !.from = i, !.to = to] \in Request
    BY <1>2, <2>1, <2>2 DEF Request
  <2> QED
    BY <2>3, <2>4
<1> HIDE DEF u, q, w
<1>7. n \in Memories /\ n.rows = w /\ n.del = m.del
  BY <1>4, <1>5 DEF Memories
<1> HIDE DEF n
<1> QED
  BY <1>1, <1>4, <1>6, <1>7, CommitLands

LEMMA SendTextLands ==
    ASSUME NEW m \in Memories, NEW i \in 1 .. Len(m.rows), SendText(m, i)
    PROVE  Lands(m)
<1> DEFINE b == m.rows[i]
           end == GroupEnd(m.rows, i)
           w == PrepareGroup(m.rows, i, end)
           body == Content(m.rows, i)
           q == [NoReq EXCEPT !.op = "text", !.id = b.id, !.kind = b.kind,
                              !.body = body, !.from = i, !.to = end]
           n == [m EXCEPT !.rows = w]
<1>1. Commit(n) /\ req' = q
  BY DEF SendText, Send
<1>2. m.rows \in RowLists /\ m.rows \in Seq(Row) /\ b \in Row /\ i \in Nat /\ Len(m.rows) \in Nat
  BY FieldsTyped, RowInList
<1>3. w \in RowLists /\ InPlace(w, m.rows)
  BY <1>2, PreparedOf
<1>4. end \in Nat
  <2>1. end \in i + 1 .. Len(m.rows) + 1
    BY <1>2, GroupEndOf
  <2> HIDE DEF end
  <2> QED
    BY <1>2, <2>1
<1>5. body \in Seq(Nat)
  BY <1>2, ContentOf
<1> HIDE DEF b, body, end, w
<1>6. q \in Request
  <2> DEFINE id == b.id
             kind == b.kind
  <2>1. id \in Int /\ kind \in Kinds
    BY <1>2 DEF Row
  <2> HIDE DEF id, kind
  <2>2. [NoReq EXCEPT !.op = "text", !.id = id, !.kind = kind,
                      !.body = body, !.from = i, !.to = end] \in Request
    BY <1>2, <1>4, <1>5, <2>1, NoReqTyped DEF Request
  <2> QED
    BY <2>2 DEF id, kind
<1>7. n \in Memories /\ n.rows = w /\ n.del = m.del
  BY <1>3 DEF Memories
<1> HIDE DEF n, q
<1> QED
  BY <1>1, <1>3, <1>6, <1>7, CommitLands

LEMMA SendRecreateLands ==
    ASSUME NEW m \in Memories, NEW i \in 1 .. Len(m.rows), SendRecreate(m, i)
    PROVE  Lands(m)
<1> DEFINE b == m.rows[i]
           end == GroupEnd(m.rows, i)
           p == PrepareGroup(m.rows, i, end)
           c == [p[i] EXCEPT !.recreate = FALSE]
           w == [p EXCEPT ![i] = c]
           body == Content(m.rows, i)
           after == RecreateAnchor(m.rows, i)
           q == [NoReq EXCEPT !.op = "recreate", !.id = b.id, !.parent = b.parent,
                              !.after = after, !.kind = b.kind, !.body = body,
                              !.serial = b.serial]
           n == [m EXCEPT !.rows = w]
<1>1. Commit(n) /\ req' = q
  BY DEF SendRecreate, Send
<1>2. m.rows \in RowLists /\ b \in Row
  BY FieldsTyped, RowInList
<1>3. p \in RowLists /\ InPlace(p, m.rows)
  BY <1>2, PreparedOf
<1>4. body \in Seq(Nat) /\ after \in Int
  BY <1>2, ContentOf, AnchorOf
<1> HIDE DEF b, body, after, p
<1>5. c \in Row /\ c.serial = p[i].serial
  <2> DEFINE r == p[i]
  <2>1. r \in Row
    BY <1>3, RowInList DEF InPlace
  <2> HIDE DEF r
  <2>2. [r EXCEPT !.recreate = FALSE] \in Row /\ [r EXCEPT !.recreate = FALSE].serial = r.serial
    BY <2>1 DEF Row
  <2> QED
    BY <2>2 DEF r
<1> HIDE DEF c
<1>6. w \in RowLists /\ InPlace(w, p)
  BY <1>3, <1>5, OneChanged
<1> HIDE DEF w
<1>7. w \in RowLists /\ InPlace(w, m.rows)
  BY <1>3, <1>6, InPlaceIn
<1>8. q \in Request
  <2> DEFINE id == b.id
             kind == b.kind
             parent == b.parent
             serial == b.serial
  <2>1. id \in Int /\ parent \in Int /\ kind \in Kinds /\ serial \in Nat
    BY <1>2 DEF Row
  <2> HIDE DEF id, kind, parent, serial
  <2>2. [NoReq EXCEPT !.op = "recreate", !.id = id, !.parent = parent, !.after = after,
                      !.kind = kind, !.body = body, !.serial = serial] \in Request
    BY <1>4, <2>1, NoReqTyped DEF Request
  <2> QED
    BY <2>2 DEF id, kind, parent, serial
<1>9. n \in Memories /\ n.rows = w /\ n.del = m.del
  BY <1>7 DEF Memories
<1> HIDE DEF n, q
<1> QED
  BY <1>1, <1>7, <1>8, <1>9, CommitLands

LEMMA SendRowLands ==
    ASSUME NEW m \in Memories, m.queue # <<>>, Head(m.queue) \in 1 .. Len(m.rows), SendRow(m)
    PROVE  Lands(m)
<1> DEFINE n == [m EXCEPT !.queue = Tail(@)]
           i == Head(m.queue)
           t == Tail(m.queue)
<1>1. t \in Indices
  BY FieldsTyped DEF Indices
<1> HIDE DEF t
<1>2. n \in Memories /\ n.rows = m.rows /\ n.del = m.del
  BY <1>1 DEF Memories, t
<1>3. SendTitle(n, i) \/ SendRecreate(n, i) \/ SendText(n, i)
  BY DEF SendRow
<1> HIDE DEF n, i
<1>4. i \in 1 .. Len(n.rows)
  BY <1>2 DEF i
<1>5. Lands(n)
  BY <1>2, <1>3, <1>4, SendTitleLands, SendRecreateLands, SendTextLands
<1> QED
  BY <1>2, <1>5 DEF Lands

LEMMA SendTrashLands ==
    ASSUME NEW m \in Memories, ReadyDeferred(m.rows, m.defer) # 0, SendTrash(m)
    PROVE  Lands(m)
<1> DEFINE i == ReadyDeferred(m.rows, m.defer)
           df == LastSwapped(m.defer, i)
           last == df[Len(df)]
           n == [m EXCEPT !.defer = df]
           q == [NoReq EXCEPT !.op = "trash", !.id = last.oldId]
<1>1. Commit(n) /\ req' = q
  BY DEF SendTrash, Send
<1>2. m.defer \in Waiting /\ i \in 1 .. Len(m.defer)
  <2>1. m.defer \in Waiting
    BY FieldsTyped
  <2>2. i \in 0 .. Len(m.defer) /\ Len(m.defer) \in Nat /\ i # 0
    BY <2>1, ReadyOf
  <2> QED
    BY <2>1, <2>2
<1> HIDE DEF i
<1>3. df \in Waiting /\ last \in OldCopy
  BY <1>2, LastSwappedOf
<1> HIDE DEF df, last
<1>4. q \in Request
  <2> DEFINE id == last.oldId
  <2>1. id \in Int
    BY <1>3 DEF OldCopy
  <2> HIDE DEF id
  <2>2. [NoReq EXCEPT !.op = "trash", !.id = id] \in Request
    BY <2>1, NoReqTyped DEF Request
  <2> QED
    BY <2>2 DEF id
<1>5. n \in Memories /\ n.rows = m.rows /\ n.del = m.del
  BY <1>3 DEF Memories
<1> HIDE DEF n, q
<1> QED
  BY <1>1, <1>4, <1>5, SameInPlace, CommitLands

LEMMA FinishRunLands ==
    ASSUME NEW m \in Memories, FinishRun(m)
    PROVE  Lands(m)
<1> DEFINE flags == [m.app EXCEPT !.saved = @ \/ (m.app.isSaving /\ ~m.run.rejected),
                                  !.isSaving = FALSE, !.cacheNeedsSave = ~m.run.rejected]
           u == [m.run EXCEPT !.rejected = FALSE]
           n == [m EXCEPT !.app = flags, !.run = u]
<1>1. Commit(n) /\ req' = NoReq
  BY DEF FinishRun, Return, Memories, Run
<1>2. flags \in App
  BY FieldsTyped DEF App, Run
<1>3. u \in Run
  BY FieldsTyped DEF Run
<1> HIDE DEF flags, u
<1>4. n \in Memories /\ n.rows = m.rows /\ n.del = m.del
  BY <1>2, <1>3 DEF Memories
<1> HIDE DEF n
<1> QED
  BY <1>1, <1>4, NoReqTyped, SameInPlace, CommitLands

(* patchNext, whichever way it goes on. *)
LEMMA ContinueQueueLands ==
    ASSUME NEW m \in Memories, icon \in Nat, ContinueQueue(m)
    PROVE  Lands(m)
<1> DEFINE n == Acknowledged(m)
           d == Drained(n)
           df == DropCovered(d.rows, d.defer)
           t == [d EXCEPT !.defer = df]
<1>1. n \in Memories /\ n.rows = m.rows /\ n.del = m.del
  BY AcknowledgedTyped
<1>2. ContinueQueue(m) = IF n.app.iconDirty THEN SendIcon(n)
                         ELSE IF d.queue # <<>> THEN SendRow(d)
                         ELSE IF ReadyDeferred(t.rows, t.defer) # 0 THEN SendTrash(t)
                         ELSE FinishRun(t)
  BY DEF ContinueQueue
<1> HIDE DEF n
<1>3. /\ d \in Memories /\ InPlace(d.rows, n.rows) /\ d.del = n.del
      /\ d.queue # <<>> => Head(d.queue) \in 1 .. Len(d.rows)
  BY <1>1, DrainedTyped
<1> HIDE DEF d
<1>4. df \in Waiting
  BY <1>3, FieldsTyped, DropCoveredOf
<1> HIDE DEF df
<1>5. t \in Memories /\ t.rows = d.rows /\ t.del = d.del
  BY <1>3, <1>4 DEF Memories
<1> HIDE DEF t
<1>6. Lands(n) \/ Lands(d) \/ Lands(t)
  BY <1>1, <1>2, <1>3, <1>5, SendIconLands, SendRowLands, SendTrashLands, FinishRunLands
<1>7. /\ n.del = m.del /\ d.del = m.del /\ t.del = m.del
      /\ \A w : InPlace(w, n.rows) \/ InPlace(w, d.rows) \/ InPlace(w, t.rows)
                  => InPlace(w, m.rows)
  BY <1>1, <1>3, <1>5, InPlaceIn
<1> QED
  BY <1>6, <1>7 DEF Lands

-----------------------------------------------------------------------------
(* The handlers of the answers.                                            *)
LEMMA MemoryTyped ==
    ASSUME TypeOK
    PROVE  /\ Memory \in Memories /\ Memory.rows = rows /\ Memory.del = del
           /\ icon \in Nat /\ req \in Request
BY DEF TypeOK, ControlOK, Memory, Memories, RowLists, Copies, Indices, Waiting, OldCopy, Titles

LEMMA ReturnLands ==
    ASSUME NEW m \in Memories, Return(m)
    PROVE  Lands(m)
BY NoReqTyped, SameInPlace, CommitLands DEF Return

LEMMA WriteErrorTyped ==
    ASSUME NEW m \in Memories, NEW a
    PROVE  LET n == HandleWriteError(m, a)
           IN  n \in Memories /\ n.rows = m.rows /\ n.del = m.del
<1> DEFINE flags == [m.app EXCEPT !.isSaving = FALSE, !.hasDirty = FALSE,
                                  !.readOnly = @ \/ a = "denied",
                                  !.needsReload = @ \/ a = "expired"]
           n == [m EXCEPT !.queue = <<>>, !.app = flags]
<1>1. flags \in App
  BY FieldsTyped DEF App
<1>2. <<>> \in Indices
  BY DEF Indices
<1>3. HandleWriteError(m, a) = n
  BY DEF HandleWriteError
<1> HIDE DEF flags
<1> QED
  BY <1>1, <1>2, <1>3 DEF Memories

LEMMA StopTyped ==
    ASSUME NEW m \in Memories
    PROVE  LET n == StopSaveForRetry(m)
           IN  n \in Memories /\ n.rows = m.rows /\ n.del = m.del
<1> DEFINE flags == [m.app EXCEPT !.isSaving = FALSE, !.hasDirty = TRUE]
           n == [m EXCEPT !.queue = <<>>, !.app = flags]
<1>1. flags \in App
  BY FieldsTyped DEF App
<1>2. <<>> \in Indices
  BY DEF Indices
<1>3. StopSaveForRetry(m) = n
  BY FieldsTyped DEF StopSaveForRetry, MarkDirty, Memories, App
<1> HIDE DEF flags
<1> QED
  BY <1>1, <1>2, <1>3 DEF Memories

LEMMA MarkedAgainOf ==
    ASSUME rows \in RowLists
    PROVE  MarkedAgain \in RowLists /\ InPlace(MarkedAgain, rows)
<1> DEFINE F(r) == [r EXCEPT !.dirty = TRUE]
           w == MarkedAgain
           from == req.from
           to == req.to
<1>1. DOMAIN rows = 1 .. Len(rows) /\ \A k \in 1 .. Len(rows) : rows[k] \in Row
  BY RowInList
<1>2. w = Change(rows, from, to, F)
  BY DEF MarkedAgain
<1> HIDE DEF from, to
<1>3. w = [k \in DOMAIN rows |-> IF k \in from .. to - 1 THEN F(rows[k]) ELSE rows[k]]
  BY <1>2 DEF Change
<1>4. \A r \in Row : F(r) \in Row /\ F(r).serial = r.serial
  BY FieldTyped
<1> HIDE DEF F, w
<1>5. w = [k \in DOMAIN rows |-> w[k]]
  BY <1>3
<1>6. \A k \in 1 .. Len(rows) : w[k] \in Row /\ w[k].serial = rows[k].serial
  BY <1>1, <1>3, <1>4
<1> QED
  BY <1>5, <1>6, EachChanged DEF w

(* A handler lands with its own memory where it passes one on. *)
LEMMA PassedOn ==
    ASSUME NEW m, NEW n, InPlace(n.rows, m.rows), n.del = m.del, Lands(n)
    PROVE  Lands(m)
BY InPlaceIn DEF Lands

LEMMA AfterPatchLands ==
    ASSUME TypeOK, NEW a, AfterPatch(a)
    PROVE  Lands(Memory)
<1> DEFINE u == NonePending(run)
           v == [u EXCEPT !.rejected = TRUE]
           settled == [Memory EXCEPT !.run = u]
           refusal == [settled EXCEPT !.run.rejected = TRUE]
           flags == [app EXCEPT !.iconDirty = @ \/ run.iconPending]
           undone  == [settled EXCEPT !.rows = MarkedAgain, !.app.iconDirty = @ \/ run.iconPending]
<1>1. Memory \in Memories /\ Memory.rows = rows /\ Memory.del = del /\ icon \in Nat
  BY MemoryTyped
<1>2. Memory.app = app /\ app \in App /\ run \in Run /\ rows \in RowLists
  BY DEF Memory, TypeOK, ControlOK, RowLists
<1>3. u \in Run /\ v \in Run /\ flags \in App
  <2>1. u \in Run
    BY <1>2 DEF NonePending, Run
  <2> HIDE DEF u
  <2>2. v \in Run
    BY <2>1 DEF Run
  <2> DEFINE b == run.iconPending
  <2>3. b \in BOOLEAN
    BY <1>2 DEF Run
  <2> HIDE DEF b
  <2>4. [app EXCEPT !.iconDirty = @ \/ b] \in App
    BY <1>2, <2>3 DEF App
  <2> QED
    BY <2>1, <2>2, <2>4 DEF b
<1>4. MarkedAgain \in RowLists /\ InPlace(MarkedAgain, rows)
  BY <1>2, MarkedAgainOf
<1>5. \/ Return(HandleWriteError(Memory, a)) \/ ContinueQueue(refusal)
      \/ ContinueQueue(Memory) \/ Return(StopSaveForRetry(undone))
  BY DEF AfterPatch
<1>6. refusal = [Memory EXCEPT !.run = v] /\ undone = [Memory EXCEPT !.run = u,
                                                     !.rows = MarkedAgain, !.app = flags]
  BY <1>1, <1>2 DEF Memories
<1> HIDE DEF refusal, undone, u, v, flags
<1>7. refusal \in Memories /\ refusal.rows = rows /\ refusal.del = del
  BY <1>1, <1>3, <1>6 DEF Memories
<1>8. undone \in Memories /\ undone.rows = MarkedAgain /\ undone.del = del
  BY <1>1, <1>3, <1>4, <1>6 DEF Memories
<1>9. CASE Return(HandleWriteError(Memory, a))
  <2> DEFINE n == HandleWriteError(Memory, a)
  <2>1. n \in Memories /\ n.rows = Memory.rows /\ n.del = Memory.del
    BY <1>1, WriteErrorTyped
  <2> HIDE DEF n
  <2>2. Lands(n)
    BY <1>9, <2>1, ReturnLands DEF n
  <2> QED
    BY <2>1, <2>2, SameInPlace, PassedOn
<1>10. CASE ContinueQueue(refusal)
  BY <1>1, <1>7, <1>10, ContinueQueueLands, SameInPlace, PassedOn
<1>11. CASE ContinueQueue(Memory)
  BY <1>1, <1>11, ContinueQueueLands
<1>12. CASE Return(StopSaveForRetry(undone))
  <2> DEFINE n == StopSaveForRetry(undone)
  <2>1. n \in Memories /\ n.rows = undone.rows /\ n.del = undone.del
    BY <1>8, StopTyped
  <2> HIDE DEF n
  <2>2. Lands(n)
    BY <1>12, <2>1, ReturnLands DEF n
  <2> QED
    BY <1>1, <1>4, <1>8, <2>1, <2>2, PassedOn
<1> QED
  BY <1>5, <1>9, <1>10, <1>11, <1>12

LEMMA FindOf ==
    ASSUME NEW rs \in RowLists, NEW s
    PROVE  /\ FindSerial(rs, s) \in 0 .. Len(rs)
           /\ FindSerial(rs, s) # 0 => rs[FindSerial(rs, s)].serial = s
<1> DEFINE T == {k \in DOMAIN rs : s # 0 /\ rs[k].serial = s}
           n == Len(rs)
           i == FindSerial(rs, s)
<1>1. n \in Nat /\ T \subseteq 1 .. n /\ \A k \in T : rs[k].serial = s
  BY RowInList
<1>2. i = Least(T)
  BY DEF FindSerial
<1> HIDE DEF T
<1>3. i \in 0 .. n /\ (i # 0 => i \in T)
  BY <1>1, <1>2, LeastFound
<1> QED
  BY <1>1, <1>3

(* The whole memory has its types, whatever became of the rows. *)
Typed == /\ rows \in RowLists /\ del \in Copies /\ app \in App /\ queue \in Indices
         /\ run \in Run /\ defer \in Waiting /\ list \in Titles /\ req \in Request

LEMMA LandsTyped ==
    ASSUME NEW m, m.del \in Copies, Lands(m)
    PROVE  Typed'
BY DEF Lands, Typed

LEMMA AfterDeferredTrashLands ==
    ASSUME TypeOK, NEW a, AfterDeferredTrash(a)
    PROVE  Lands(Memory)
<1> DEFINE df == IF defer = <<>> THEN <<>> ELSE Front(defer)
           m == [Memory EXCEPT !.defer = df]
<1>1. Memory \in Memories /\ icon \in Nat /\ defer \in Waiting
  BY MemoryTyped DEF TypeOK, Waiting, OldCopy
<1>2. \/ Return(HandleWriteError(Memory, a)) \/ Return(StopSaveForRetry(Memory))
      \/ ContinueQueue(m)
  BY DEF AfterDeferredTrash
<1>3. df \in Waiting
  <2>1. <<>> \in Waiting
    BY DEF Waiting
  <2>2. ASSUME defer # <<>> PROVE Front(defer) \in Waiting
    <3> DEFINE n == Len(defer)
    <3>1. defer \in Seq(OldCopy) /\ n \in Nat
      BY <1>1, RowAt DEF Waiting
    <3>2. n # 0
      BY <2>2, <3>1
    <3>3. 1 \in 1 .. Len(defer) + 1 /\ n \in 1 .. Len(defer) + 1
      BY <3>1, <3>2
    <3>4. SubSeq(defer, 1, n - 1) \in Seq(OldCopy)
      <4> HIDE DEF n
      <4> QED
        BY <3>1, <3>3, PartOf
    <3>5. Front(defer) = SubSeq(defer, 1, n - 1)
      BY DEF Front
    <3> QED
      BY <3>4, <3>5 DEF Waiting
  <2> QED
    BY <2>1, <2>2
<1> HIDE DEF df
<1>4. m \in Memories /\ m.rows = Memory.rows /\ m.del = Memory.del
  BY <1>1, <1>3 DEF Memories
<1> HIDE DEF m
<1>5. CASE Return(HandleWriteError(Memory, a))
  <2> DEFINE n == HandleWriteError(Memory, a)
  <2>1. n \in Memories /\ n.rows = Memory.rows /\ n.del = Memory.del
    BY <1>1, WriteErrorTyped
  <2> HIDE DEF n
  <2> QED
    BY <1>5, <2>1, ReturnLands, SameInPlace, PassedOn DEF n
<1>6. CASE Return(StopSaveForRetry(Memory))
  <2> DEFINE n == StopSaveForRetry(Memory)
  <2>1. n \in Memories /\ n.rows = Memory.rows /\ n.del = Memory.del
    BY <1>1, StopTyped
  <2> HIDE DEF n
  <2> QED
    BY <1>6, <2>1, ReturnLands, SameInPlace, PassedOn DEF n
<1>7. CASE ContinueQueue(m)
  BY <1>1, <1>4, <1>7, ContinueQueueLands, SameInPlace, PassedOn
<1> QED
  BY <1>2, <1>5, <1>6, <1>7

LEMMA AfterRecreateArchiveLands ==
    ASSUME TypeOK, NEW a, AfterRecreateArchive(a)
    PROVE  Lands(Memory)
<1>1. Memory \in Memories /\ icon \in Nat
  BY MemoryTyped
<1>2. Return(HandleWriteError(Memory, a)) \/ ContinueQueue(Memory)
  BY DEF AfterRecreateArchive
<1>3. CASE Return(HandleWriteError(Memory, a))
  <2> DEFINE n == HandleWriteError(Memory, a)
  <2>1. n \in Memories /\ n.rows = Memory.rows /\ n.del = Memory.del
    BY <1>1, WriteErrorTyped
  <2> HIDE DEF n
  <2> QED
    BY <1>3, <2>1, ReturnLands, SameInPlace, PassedOn DEF n
<1> QED
  BY <1>1, <1>2, <1>3, ContinueQueueLands

LEMMA AfterAddInsertTyped ==
    ASSUME TypeOK, req.op = "add", rows[1].serial # req.serial,
           NEW a, NEW newId \in Int, AfterAddInsert(a, newId)
    PROVE  Typed' /\ del' = del
<1> DEFINE i == FindSerial(rows, req.serial)
           flags == [app EXCEPT !.apiPending = FALSE]
           m == [Memory EXCEPT !.app.apiPending = FALSE]
           h == HandleWriteError(m, a)
           left == EraseRows(rows, i, i + 1)
           w == [h EXCEPT !.rows = IF i = 0 THEN @ ELSE EraseRows(@, i, i + 1)]
           r == [rows[i] EXCEPT !.id = newId]
           put == [rows EXCEPT ![i] = r]
           n == IF i = 0 THEN m ELSE [m EXCEPT !.rows[i].id = newId]
<1>1. /\ Memory \in Memories /\ Memory.rows = rows /\ Memory.del = del /\ icon \in Nat
      /\ del \in Copies /\ Memory.app = app /\ app \in App /\ rows \in RowLists
  BY MemoryTyped DEF TypeOK, ControlOK, Copies, RowLists, Memory
<1>2. Return(w) \/ ContinueQueue(n)
  BY DEF AfterAddInsert
<1>3. m = [Memory EXCEPT !.app = flags] /\ flags \in App
  BY <1>1 DEF Memories, App
<1> HIDE DEF m, flags
<1>4. m \in Memories /\ m.rows = rows /\ m.del = del
  BY <1>1, <1>3 DEF Memories
<1>5. h \in Memories /\ h.rows = rows /\ h.del = del
  BY <1>4, WriteErrorTyped
<1> HIDE DEF h
<1>6. i \in 0 .. Len(rows) /\ i # 1 /\ Len(rows) \in 1 .. MaxRows /\ Len(rows) \in Nat
      /\ rows \in Seq(Row)
  BY <1>1, FindOf, RowInList
<1> HIDE DEF i
<1>7. CASE Return(w)
  <2>1. i # 0 => left \in RowLists
    <3> SUFFICES ASSUME i # 0 PROVE left \in RowLists
      OBVIOUS
    <3> DEFINE to == i + 1
    <3>1. i \in 1 .. Len(rows) + 1 /\ to \in i .. Len(rows) + 1 /\ to - i = 1 /\ Len(rows) >= 2
      BY <1>6
    <3> HIDE DEF to
    <3> DEFINE e == EraseRows(rows, i, to)
               L == Len(rows)
    <3>2. e \in Seq(Row) /\ Len(e) = L - (to - i)
      BY <1>6, <3>1, EraseOf
    <3>3. MaxRows \in Nat /\ L \in 1 .. MaxRows /\ L >= 2
      BY <1>6, <3>1, BlocksAssumption
    <3> HIDE DEF e, L
    <3>4. Len(e) = L - 1
      BY <3>1, <3>2
    <3>5. e \in RowLists
      BY <3>2, <3>3, <3>4 DEF RowLists
    <3> QED
      BY <3>5 DEF e, to
  <2>2. w = [h EXCEPT !.rows = IF i = 0 THEN rows ELSE left]
    BY <1>5
  <2> HIDE DEF left, w
  <2>3. w \in Memories /\ w.del = del
    BY <1>1, <1>5, <2>1, <2>2 DEF Memories
  <2>4. Lands(w)
    BY <1>7, <2>3, ReturnLands
  <2> QED
    BY <1>1, <2>3, <2>4, LandsTyped DEF Lands
<1>8. CASE ContinueQueue(n)
  <2>1. i # 0 => put \in RowLists
    <3> SUFFICES ASSUME i # 0 PROVE put \in RowLists
      OBVIOUS
    <3> DEFINE b == rows[i]
    <3>1. b \in Row
      BY <1>1, <1>6, RowInList
    <3> HIDE DEF b
    <3>2. [b EXCEPT !.id = newId] \in Row /\ [b EXCEPT !.id = newId].serial = b.serial
      BY <3>1 DEF Row
    <3>3. r \in Row /\ r.serial = rows[i].serial
      BY <3>2 DEF b
    <3> HIDE DEF r
    <3> QED
      BY <1>1, <3>3, OneChanged
  <2>2. n = IF i = 0 THEN m ELSE [m EXCEPT !.rows = put]
    BY <1>4 DEF Memories
  <2> HIDE DEF put, n
  <2>3. n \in Memories /\ n.del = del
    BY <1>4, <2>1, <2>2 DEF Memories
  <2>4. Lands(n)
    BY <1>1, <1>8, <2>3, ContinueQueueLands
  <2> QED
    BY <1>1, <2>3, <2>4, LandsTyped DEF Lands
<1> QED
  BY <1>2, <1>7, <1>8

(* A deleted block put back: every row of the copy, if there is room. *)
LEMMA RestoreTyped ==
    ASSUME NEW m \in Memories, m.del.idx # 0
    PROVE  LET n == RestoreDeletedBlocks(m)
           IN  /\ n \in Memories /\ n.del = NoDel
               /\ Len(m.rows) + Len(m.del.rows) <= MaxRows
                    => Len(n.rows) = Len(m.rows) + Len(m.del.rows)
<1> DEFINE rs == m.rows
           copy == m.del.rows
           L == Len(rs)
           above == FindSerial(rs, m.del.after)
           d == m.del.idx
           at == IF above # 0 THEN above + 1 ELSE IF d > L THEN L + 1 ELSE d
           w == UnpackRows(rs, copy, at, -1, {})
           n == [m EXCEPT !.rows = w, !.del = NoDel]
<1>1. /\ rs \in RowLists /\ rs \in Seq(Row) /\ L \in 1 .. MaxRows /\ L \in Nat /\ L <= MaxRows
      /\ MaxRows \in Nat
  BY FieldsTyped, RowInList
<1>2. copy \in Seq(Row) /\ d \in Nat /\ d # 0
  BY FieldsTyped DEF Copies
<1>3. above \in 0 .. L
  BY <1>1, FindOf
<1>4. RestoreDeletedBlocks(m) = n
  BY DEF RestoreDeletedBlocks
<1> HIDE DEF above, rs, copy
<1>5. at \in 1 .. L + 1
  <2> HIDE DEF L, d
  <2> QED
    BY <1>1, <1>2, <1>3
<1> HIDE DEF at
<1>6. /\ w \in Seq(Row) /\ Len(w) \in L .. MaxRows
      /\ L + Len(copy) <= MaxRows => Len(w) = L + Len(copy)
  <2>1. -1 \in Nat \cup {-1} /\ {} \in SUBSET Nat /\ IsFiniteSet({})
    BY FS_EmptySet
  <2> QED
    BY <1>1, <1>2, <1>5, <2>1, UnpackedOf
<1> HIDE DEF w
<1>7. w \in RowLists
  BY <1>1, <1>6 DEF RowLists
<1>8. NoDel \in Copies
  BY DEF NoDel, Copies
<1>9. n \in Memories /\ n.rows = w /\ n.del = NoDel
  BY <1>7, <1>8 DEF Memories
<1> HIDE DEF n
<1> QED
  BY <1>4, <1>6, <1>9 DEF rs, copy

LEMMA AfterDeleteTyped ==
    ASSUME TypeOK, del.idx # 0, NEW a, AfterDeleteArchive(a)
    PROVE  /\ Typed' /\ del' = NoDel
           /\ ~Status200(a) /\ Len(rows) + Len(del.rows) <= MaxRows
                => Len(rows') = Len(rows) + Len(del.rows)
<1> DEFINE flags == [app EXCEPT !.apiPending = FALSE]
           m == [Memory EXCEPT !.app.apiPending = FALSE]
           h == IF WriteError(a) THEN HandleWriteError(m, a) ELSE m
           n == [m EXCEPT !.del = NoDel]
           back == RestoreDeletedBlocks(h)
<1>1. /\ Memory \in Memories /\ Memory.rows = rows /\ Memory.del = del /\ icon \in Nat
      /\ Memory.app = app /\ app \in App
  BY MemoryTyped DEF TypeOK, ControlOK, Memory
<1>2. /\ Status200(a) => ContinueQueue(n)
      /\ ~Status200(a) => Return(back)
  BY DEF AfterDeleteArchive
<1>3. m = [Memory EXCEPT !.app = flags] /\ flags \in App
  BY <1>1 DEF Memories, App
<1> HIDE DEF m, flags
<1>4. m \in Memories /\ m.rows = rows /\ m.del = del
  BY <1>1, <1>3 DEF Memories
<1>5. h \in Memories /\ h.rows = rows /\ h.del = del
  BY <1>4, WriteErrorTyped
<1> HIDE DEF h
<1>6. NoDel \in Copies
  BY DEF NoDel, Copies
<1>7. n \in Memories /\ n.del = NoDel
  BY <1>4, <1>6 DEF Memories
<1> HIDE DEF n
<1>8. CASE Status200(a)
  <2>1. Lands(n)
    BY <1>1, <1>2, <1>7, <1>8, ContinueQueueLands
  <2> QED
    BY <1>6, <1>7, <1>8, <2>1, LandsTyped DEF Lands
<1>9. CASE ~Status200(a)
  <2>1. /\ back \in Memories /\ back.del = NoDel
        /\ Len(rows) + Len(del.rows) <= MaxRows
              => Len(back.rows) = Len(rows) + Len(del.rows)
    BY <1>5, RestoreTyped
  <2> HIDE DEF back
  <2>2. Lands(back)
    BY <1>2, <1>9, <2>1, ReturnLands
  <2>3. Len(rows') = Len(back.rows)
    BY <2>2 DEF Lands, InPlace
  <2> QED
    BY <1>6, <2>1, <2>2, <2>3, LandsTyped DEF Lands
<1> QED
  BY <1>8, <1>9

(* A block re-created: its rows and its children get their new names.      *)
LEMMA RecreatedLands ==
    ASSUME TypeOK, NEW i \in 1 .. Len(rows), NEW newId \in Int, Recreated(Memory, i, newId)
    PROVE  Lands(Memory)
<1> DEFINE nb       == Memory.rows[i]
           head     == [nb EXCEPT !.id = newId, !.saveFirst = FALSE,
                           !.inOldParent = FALSE, !.leftParent = FALSE, !.kidsLeft = FALSE]
           fresh    == [Memory.rows EXCEPT ![i] = [@ EXCEPT !.id = newId, !.saveFirst = FALSE,
                           !.inOldParent = FALSE, !.leftParent = FALSE, !.kidsLeft = FALSE]]
           deferred == /\ RecreatePendingIn(fresh, i, nb.kidsLeft)
                       /\ Len(Memory.defer) < MaxDefer
           Named(r) == [r EXCEPT !.id = newId]
           Child(r) == IF r.parent # req.id THEN r
                       ELSE [r EXCEPT !.parent = newId,
                                      !.inOldParent = @ \/ (deferred /\ ~r.leftParent)]
           end      == GroupEnd(fresh, i)
           named    == Change(fresh, i + 1, GroupEnd(fresh, i),
                                     LAMBDA r : [r EXCEPT !.id = newId])
           renamed  == Change(Change(fresh, i + 1, GroupEnd(fresh, i),
                                     LAMBDA r : [r EXCEPT !.id = newId]),
                              1, Len(fresh) + 1, Child)
           entry    == [oldId |-> req.id, newId |-> newId, covered |-> nb.inOldParent,
                        kidsLeft |-> nb.kidsLeft]
           df       == IF deferred THEN Append(Memory.defer, entry) ELSE Memory.defer
           n        == [Memory EXCEPT !.rows = renamed,
                           !.defer = IF deferred THEN Append(Memory.defer, entry)
                                                 ELSE Memory.defer]
           q        == [NoReq EXCEPT !.op = "archive", !.id = req.id]
<1>1. ContinueQueue(n) \/ Send(n, q)
  BY Zenon DEF Recreated
<1>2. /\ Memory \in Memories /\ Memory.rows = rows /\ Memory.del = del /\ icon \in Nat
      /\ rows \in RowLists /\ Memory.defer \in Waiting /\ req \in Request
  BY MemoryTyped, FieldsTyped
<1>3. n = [Memory EXCEPT !.rows = renamed, !.defer = df]
  OBVIOUS
<1>4. renamed = Change(named, 1, Len(fresh) + 1, Child)
  OBVIOUS
<1>5. named = Change(fresh, i + 1, end, Named)
  OBVIOUS
<1>6. fresh = [rows EXCEPT ![i] = head]
  BY <1>2
<1>21. deferred \in BOOLEAN
  OBVIOUS
<1> HIDE DEF deferred
<1> HIDE DEF n, renamed, named, end
<1>7. nb \in Row
  BY <1>2, RowInList
<1>8. entry \in OldCopy /\ head \in Row /\ head.serial = rows[i].serial
  <2> HIDE DEF nb
  <2>1. nb.inOldParent \in BOOLEAN /\ nb.kidsLeft \in BOOLEAN /\ req.id \in Int
    BY <1>2, <1>7 DEF Row, Request
  <2>2. entry \in OldCopy
    BY <2>1 DEF OldCopy
  <2>3. head \in Row /\ head.serial = nb.serial
    BY <1>7 DEF Row
  <2> QED
    BY <1>2, <2>2, <2>3 DEF nb
<1> HIDE DEF head, entry
<1>9. df \in Waiting
  BY <1>2, <1>8 DEF Waiting
<1>10. fresh \in RowLists /\ InPlace(fresh, rows)
  BY <1>2, <1>6, <1>8, OneChanged
<1> HIDE DEF fresh, df
<1>11. \A r \in Row : Named(r) \in Row /\ Named(r).serial = r.serial
  BY DEF Row
<1>12. ASSUME NEW r \in Row PROVE Child(r) \in Row /\ Child(r).serial = r.serial
  <2> DEFINE c == r.inOldParent \/ (deferred /\ ~r.leftParent)
  <2>1. c \in BOOLEAN
    BY <1>21 DEF Row
  <2>2. Child(r) = r \/ Child(r) = [r EXCEPT !.parent = newId, !.inOldParent = c]
    OBVIOUS
  <2> HIDE DEF c, Child
  <2>3. [r EXCEPT !.parent = newId, !.inOldParent = c] \in Row
        /\ [r EXCEPT !.parent = newId, !.inOldParent = c].serial = r.serial
    BY <2>1 DEF Row
  <2> QED
    BY <2>2, <2>3
<1>13. named = [k \in DOMAIN fresh |->
                  IF k \in i + 1 .. end - 1 THEN Named(fresh[k]) ELSE fresh[k]]
  BY <1>5 DEF Change
<1> HIDE DEF Named, Child
<1>14. renamed = [k \in DOMAIN named |->
                   IF k \in 1 .. (Len(fresh) + 1) - 1 THEN Child(named[k]) ELSE named[k]]
  BY <1>4 DEF Change
<1>15. named \in RowLists /\ InPlace(named, fresh)
  <2>1. DOMAIN fresh = 1 .. Len(fresh) /\ \A k \in 1 .. Len(fresh) : fresh[k] \in Row
    BY <1>10, RowInList
  <2>2. named = [k \in DOMAIN fresh |-> named[k]]
    BY <1>13
  <2>3. \A k \in 1 .. Len(fresh) : named[k] \in Row /\ named[k].serial = fresh[k].serial
    BY <1>11, <1>13, <2>1
  <2> QED
    BY <1>10, <2>2, <2>3, EachChanged
<1>16. renamed \in RowLists /\ InPlace(renamed, named)
  <2>1. DOMAIN named = 1 .. Len(named) /\ \A k \in 1 .. Len(named) : named[k] \in Row
    BY <1>15, RowInList
  <2>2. renamed = [k \in DOMAIN named |-> renamed[k]]
    BY <1>14
  <2>3. \A k \in 1 .. Len(named) : renamed[k] \in Row /\ renamed[k].serial = named[k].serial
    BY <1>12, <1>14, <2>1
  <2> QED
    BY <1>15, <2>2, <2>3, EachChanged
<1>17. InPlace(renamed, rows)
  BY <1>10, <1>15, <1>16, InPlaceIn
<1>18. n \in Memories /\ n.rows = renamed /\ n.del = del
  BY <1>2, <1>3, <1>9, <1>16 DEF Memories
<1>19. CASE ContinueQueue(n)
  BY <1>2, <1>17, <1>18, <1>19, ContinueQueueLands, PassedOn
<1>20. CASE Send(n, q)
  <2> DEFINE id == req.id
  <2>1. id \in Int
    BY <1>2 DEF Request
  <2> HIDE DEF id
  <2>2. [NoReq EXCEPT !.op = "archive", !.id = id] \in Request
    BY <2>1, NoReqTyped DEF Request
  <2>3. q \in Request
    BY <2>2 DEF id
  <2> HIDE DEF q
  <2>4. Commit(n) /\ req' \in Request
    BY <1>20, <2>3 DEF Send
  <2> QED
    BY <1>2, <1>17, <1>18, <2>4, CommitLands
<1> QED
  BY <1>1, <1>19, <1>20

LEMMA AfterRecreateInsertLands ==
    ASSUME TypeOK, NEW a, NEW newId \in Int, AfterRecreateInsert(a, newId)
    PROVE  Lands(Memory)
<1> DEFINE i == FindSerial(rows, req.serial)
           Put(r, again) == [r EXCEPT !.recreate = TRUE, !.dirty = again,
                                      !.saveFirst = @ /\ again]
           Back(again) == IF i = 0 THEN Memory ELSE [Memory EXCEPT !.rows[i] = Put(@, again)]
           undone  == Back(TRUE)
           refusal == [Back(FALSE) EXCEPT !.run.rejected = TRUE]
           v == [run EXCEPT !.rejected = TRUE]
           r == rows[i]
<1>1. /\ Memory \in Memories /\ Memory.rows = rows /\ Memory.del = del /\ icon \in Nat
      /\ rows \in RowLists /\ Memory.run = run /\ run \in Run
  BY MemoryTyped, FieldsTyped DEF Memory
<1>2. \/ Return(HandleWriteError(Memory, a)) \/ ContinueQueue(refusal)
      \/ Return(StopSaveForRetry(undone)) \/ ContinueQueue(Memory)
      \/ (i # 0 /\ Recreated(Memory, i, newId))
  BY DEF AfterRecreateInsert
<1>3. i \in 0 .. Len(rows) /\ Len(rows) \in Nat
  BY <1>1, FindOf, RowInList
<1>4. ASSUME NEW again \in BOOLEAN
      PROVE  /\ Back(again) \in Memories /\ InPlace(Back(again).rows, rows)
             /\ Back(again).del = del /\ Back(again).run = run
  <2>1. CASE i = 0
    BY <1>1, <2>1, SameInPlace
  <2>2. CASE i # 0
    <3> DEFINE c == Put(r, again)
               w == [rows EXCEPT ![i] = c]
    <3>1. Back(again) = [Memory EXCEPT !.rows = w]
      BY <1>1, <2>2 DEF Memories
    <3>2. r \in Row
      BY <1>1, <1>3, <2>2, RowInList
    <3>3. c \in Row /\ c.serial = r.serial
      <4> HIDE DEF r
      <4>1. r.saveFirst \in BOOLEAN
        BY <3>2 DEF Row
      <4> QED
        BY <3>2, <4>1 DEF Row
    <3> HIDE DEF c, Put
    <3>4. w \in RowLists /\ InPlace(w, rows)
      BY <1>1, <3>3, OneChanged
    <3> HIDE DEF w, Back
    <3> QED
      BY <1>1, <3>1, <3>4 DEF Memories
  <2> QED
    BY <2>1, <2>2
<1>5. v \in Run
  BY <1>1 DEF Run
<1> HIDE DEF Back
<1>6. refusal = [Back(FALSE) EXCEPT !.run = v]
  <2> DEFINE bk == Back(FALSE)
  <2>1. bk \in Memories /\ bk.run = run
    BY <1>4
  <2> HIDE DEF bk
  <2>2. [bk EXCEPT !.run.rejected = TRUE] = [bk EXCEPT !.run = v]
    BY <2>1 DEF Memories
  <2> QED
    BY <2>2 DEF bk
<1> HIDE DEF refusal, v
<1>7. refusal \in Memories /\ InPlace(refusal.rows, rows) /\ refusal.del = del
  BY <1>4, <1>5, <1>6 DEF Memories
<1>8. undone \in Memories /\ InPlace(undone.rows, rows) /\ undone.del = del
  BY <1>4
<1> HIDE DEF undone
<1>9. CASE Return(HandleWriteError(Memory, a))
  <2> DEFINE n == HandleWriteError(Memory, a)
  <2>1. n \in Memories /\ n.rows = Memory.rows /\ n.del = Memory.del
    BY <1>1, WriteErrorTyped
  <2> HIDE DEF n
  <2> QED
    BY <1>9, <2>1, ReturnLands, SameInPlace, PassedOn DEF n
<1>10. CASE ContinueQueue(refusal)
  BY <1>1, <1>7, <1>10, ContinueQueueLands, PassedOn
<1>11. CASE Return(StopSaveForRetry(undone))
  <2> DEFINE n == StopSaveForRetry(undone)
  <2>1. n \in Memories /\ n.rows = undone.rows /\ n.del = undone.del
    BY <1>8, StopTyped
  <2> HIDE DEF n
  <2> QED
    BY <1>1, <1>8, <1>11, <2>1, ReturnLands, PassedOn DEF n
<1>12. CASE ContinueQueue(Memory)
  BY <1>1, <1>12, ContinueQueueLands
<1>13. CASE i # 0 /\ Recreated(Memory, i, newId)
  <2>1. i \in 1 .. Len(rows)
    BY <1>3, <1>13
  <2> HIDE DEF i
  <2> QED
    BY <1>13, <2>1, RecreatedLands
<1> QED
  BY <1>2, <1>9, <1>10, <1>11, <1>12, <1>13

-----------------------------------------------------------------------------
(* Notion.                                                                 *)

(* What Notion holds: a block's type and text are such as the program      *)
(* sends, and a block is older than its children.                          *)
NotionShape(nt) ==
    /\ DOMAIN nt = {"title", "icon", "blk"}
    /\ \E S : nt.blk \in Seq(S)
    /\ \A b \in 1 .. Len(nt.blk) :
          /\ DOMAIN nt.blk[b] = {"kind", "body", "parent", "gone", "of"}
          /\ nt.blk[b].kind \in Kinds /\ nt.blk[b].body \in Seq(Nat)
          /\ nt.blk[b].parent \in 0 .. b - 1

LEMMA LiveIn ==
    ASSUME NEW nt
    PROVE  Live(nt) \subseteq 1 .. Len(nt.blk)
<1> DEFINE live == CHOOSE f : f = [b \in 1 .. Len(nt.blk) |->
                        /\ nt.blk[b].gone = "no"
                        /\ nt.blk[b].parent = Page \/ f[nt.blk[b].parent]]
<1>1. Live(nt) = {b \in 1 .. Len(nt.blk) : live[b]}
  BY DEF Live
<1> HIDE DEF live
<1> QED
  BY <1>1

LEMMA BlkAdded ==
    ASSUME NEW nt, NotionShape(nt), NEW r \in Request, Inserts(r),
           r.parent \in 0 .. Len(nt.blk)
    PROVE  /\ NotionShape(Served(nt, r))
           /\ Len(Served(nt, r).blk) = Len(nt.blk) + 1 /\ Len(nt.blk) \in Nat
<1> DEFINE old == nt.blk
           n == Len(old)
           new == NewBlk(nt, r)
           w == Append(old, new)
           of == IF r.op = "add" THEN Len(nt.blk) + 1 ELSE nt.blk[r.id].of
<1>1. PICK S : old \in Seq(S)
  BY DEF NotionShape
<1>2. n \in Nat /\ DOMAIN old = 1 .. n /\ \A k \in 1 .. n : old[k] \in S
  BY <1>1, RowAt
<1>3. new = [kind |-> r.kind, body |-> r.body, parent |-> r.parent, gone |-> "no", of |-> of]
  BY DEF NewBlk
<1> HIDE DEF of
<1>4. /\ DOMAIN new = {"kind", "body", "parent", "gone", "of"}
      /\ new.kind \in Kinds /\ new.body \in Seq(Nat) /\ new.parent \in 0 .. n
  BY <1>3 DEF Request
<1> HIDE DEF new
<1>5. w \in Seq(S \cup {new}) /\ Len(w) = n + 1 /\ w[n + 1] = new
      /\ \A k \in 1 .. n : w[k] = old[k]
  <2>1. old \in Seq(S \cup {new}) /\ new \in S \cup {new}
    BY <1>1
  <2> HIDE DEF old
  <2> QED
    BY <2>1, <1>2, AppendProperties
<1>6. Served(nt, r) = [nt EXCEPT !.blk = w]
  BY DEF Served, Inserts, new
<1>7. ASSUME NEW b \in 1 .. n + 1
      PROVE  /\ DOMAIN w[b] = {"kind", "body", "parent", "gone", "of"}
             /\ w[b].kind \in Kinds /\ w[b].body \in Seq(Nat) /\ w[b].parent \in 0 .. b - 1
  <2>1. CASE b = n + 1
    BY <1>2, <1>4, <1>5, <2>1
  <2>2. CASE b # n + 1
    <3>1. b \in 1 .. n
      BY <1>2, <2>2
    <3>2. w[b] = old[b]
      BY <1>5, <3>1
    <3> QED
      BY <3>1, <3>2 DEF NotionShape
  <2> QED
    BY <2>1, <2>2
<1> HIDE DEF w
<1>8. Served(nt, r).blk = w /\ DOMAIN Served(nt, r) = {"title", "icon", "blk"}
  BY <1>6 DEF NotionShape
<1> HIDE DEF old
<1> QED
  BY <1>2, <1>5, <1>7, <1>8 DEF NotionShape, old

LEMMA BlkWritten ==
    ASSUME NEW nt, NotionShape(nt), NEW r \in Request, ~Inserts(r)
    PROVE  NotionShape(Served(nt, r)) /\ Len(Served(nt, r).blk) = Len(nt.blk)
<1> DEFINE old == nt.blk
           n == Len(old)
           Good(b, k) == /\ DOMAIN b = {"kind", "body", "parent", "gone", "of"}
                         /\ b.kind \in Kinds /\ b.body \in Seq(Nat) /\ b.parent \in 0 .. k - 1
           Put(b) == [old EXCEPT ![r.id] = b]
<1>1. PICK S : old \in Seq(S)
  BY DEF NotionShape
<1>2. n \in Nat /\ DOMAIN old = 1 .. n /\ \A k \in 1 .. n : old[k] \in S
  BY <1>1, RowAt
<1>3. ASSUME NEW b, \A k \in 1 .. n : Good(old[k], k) /\ k = r.id => Good(b, k)
      PROVE  NotionShape([nt EXCEPT !.blk = Put(b)]) /\ Len(Put(b)) = n
  <2> DEFINE w == Put(b)
  <2>1. w = [k \in 1 .. n |-> w[k]] /\ \A k \in 1 .. n : w[k] \in S \cup {b}
    BY <1>2
  <2>2. \A k \in 1 .. n : w[k] = IF k = r.id THEN b ELSE old[k]
    BY <1>2
  <2> HIDE DEF w
  <2>3. w \in Seq(S \cup {b}) /\ Len(w) = n
    BY <1>2, <2>1, Mapped
  <2>4. \A k \in 1 .. n : Good(old[k], k)
    BY DEF NotionShape
  <2> HIDE DEF Good
  <2>5. \A k \in 1 .. n : Good(w[k], k)
    BY <1>3, <2>2, <2>4
  <2> DEFINE s == [nt EXCEPT !.blk = w]
  <2>6. s.blk = w /\ DOMAIN s = {"title", "icon", "blk"}
    BY DEF NotionShape
  <2> HIDE DEF s
  <2>7. NotionShape(s)
    BY <2>3, <2>5, <2>6 DEF NotionShape, Good
  <2> QED
    BY <2>3, <2>7 DEF s, w
<1>4. CASE r.op = "icon" \/ r.op = "title"
  <2>1. /\ Served(nt, r).blk = nt.blk
        /\ DOMAIN Served(nt, r) = {"title", "icon", "blk"}
    BY <1>4 DEF Served, NotionShape
  <2> QED
    BY <2>1 DEF NotionShape
<1> DEFINE body == [old[r.id] EXCEPT !.body = r.body]
           dead == [old[r.id] EXCEPT !.gone = "deleted"]
           away == [old[r.id] EXCEPT !.gone = "replaced"]
<1>5. /\ \A k \in 1 .. n : Good(old[k], k) /\ k = r.id => Good(body, k)
      /\ \A k \in 1 .. n : Good(old[k], k) /\ k = r.id => Good(dead, k)
      /\ \A k \in 1 .. n : Good(old[k], k) /\ k = r.id => Good(away, k)
  <2>1. r.body \in Seq(Nat)
    BY DEF Request
  <2> QED
    BY <2>1
<1> HIDE DEF Good
<1>6. CASE r.op # "icon" /\ r.op # "title"
  <2>1. \/ Served(nt, r) = [nt EXCEPT !.blk = Put(body)]
        \/ Served(nt, r) = [nt EXCEPT !.blk = Put(dead)]
        \/ Served(nt, r) = [nt EXCEPT !.blk = Put(away)]
    BY <1>6 DEF Served, NotionShape
  <2> HIDE DEF body, dead, away, Put
  <2>2. \A w : [nt EXCEPT !.blk = w].blk = w
    BY DEF NotionShape
  <2>3. NotionShape([nt EXCEPT !.blk = Put(body)]) /\ Len(Put(body)) = n
    BY <1>3, <1>5
  <2>4. NotionShape([nt EXCEPT !.blk = Put(dead)]) /\ Len(Put(dead)) = n
    BY <1>3, <1>5
  <2>5. NotionShape([nt EXCEPT !.blk = Put(away)]) /\ Len(Put(away)) = n
    BY <1>3, <1>5
  <2> QED
    BY <2>1, <2>2, <2>3, <2>4, <2>5
<1> QED
  BY <1>4, <1>6

LEMMA AnswerShape ==
    ASSUME NEW nt, NotionShape(nt), NEW r \in Request, NEW a, MayAnswer(nt, r, a)
    PROVE  NotionShape(Effect(nt, r, a)) /\ Len(Effect(nt, r, a).blk) \in Nat
<1>1. ASSUME NEW x, NotionShape(x) PROVE Len(x.blk) \in Nat
  BY <1>1, RowAt DEF NotionShape
<1>2. CASE Inserts(r) /\ a \in {"ok", "noId", "twice", "lost"}
  <2> DEFINE one == Served(nt, r)
             two == Served(one, r)
             n == Len(nt.blk)
  <2>1. r.parent \in 0 .. n
    <3>1. LivePlace(nt, r.parent)
      BY <1>2 DEF MayAnswer, Acceptable, Inserts
    <3> QED
      BY <3>1, <1>1, LiveIn DEF LivePlace, Page
  <2>2. NotionShape(one) /\ Len(one.blk) = n + 1 /\ n \in Nat
    BY <1>2, <2>1, BlkAdded
  <2> HIDE DEF one
  <2>3. NotionShape(two)
    <3>1. r.parent \in 0 .. Len(one.blk)
      BY <2>1, <2>2
    <3> QED
      BY <1>2, <2>2, <3>1, BlkAdded
  <2>4. Effect(nt, r, a) = one \/ Effect(nt, r, a) = two
    BY <1>2 DEF Effect, one
  <2> HIDE DEF two
  <2> QED
    BY <1>1, <2>2, <2>3, <2>4
<1>3. CASE ~Inserts(r) /\ a \in {"ok", "noId", "twice", "lost"}
  <2>1. Effect(nt, r, a) = Served(nt, r)
    BY <1>3 DEF Effect, MayAnswer
  <2> QED
    BY <1>1, <1>3, <2>1, BlkWritten
<1>4. CASE a \notin {"ok", "noId", "twice", "lost"}
  BY <1>1, <1>4 DEF Effect
<1> QED
  BY <1>2, <1>3, <1>4

-----------------------------------------------------------------------------
(* The invariant.                                                          *)

(* The program never takes the page's first row for the one it asked       *)
(* Notion to add, and the thread that deletes a block has the block's copy.*)
FirstRowStays == req.op = "add" => rows[1].serial # req.serial
DeleteHasCopy == req.op = "delete" => del.idx # 0

SaveInv == /\ TypeOK
           /\ FlagsInv
           /\ NotionShape(notion)
           /\ FirstRowStays
           /\ DeleteHasCopy

LEMMA TypedOK ==
    ASSUME ControlOK, cache \in Caches
    PROVE  Typed <=> TypeOK
BY DEF Typed, TypeOK, RowLists, Caches, Copies, Indices, Waiting, OldCopy, Titles, ControlOK

LEMMA RespondSave ==
    ASSUME SaveInv, NEW a, Respond(a)
    PROVE  /\ Typed' /\ NotionShape(notion')
           /\ req.op \in Sent => InPlace(rows', rows)
           /\ req.op # "delete" => del' = del
           /\ req.op = "delete" =>
                 /\ del' = NoDel
                 /\ ~Status200(a) /\ Len(rows) + Len(del.rows) <= MaxRows
                      => Len(rows') = Len(rows) + Len(del.rows)
<1> DEFINE id == IF a \in {"ok", "twice"} THEN Len(Effect(notion, req, a).blk) ELSE NoId
<1>1. TypeOK /\ req \in Request /\ NotionShape(notion) /\ MayAnswer(notion, req, a) /\ pc = "wait"
  BY DEF SaveInv, TypeOK, Respond
<1>2. NotionShape(notion') /\ id \in Int
  <2>1. notion' = Effect(notion, req, a)
    BY DEF Respond
  <2>2. NotionShape(Effect(notion, req, a)) /\ Len(Effect(notion, req, a).blk) \in Nat
    BY <1>1, AnswerShape
  <2> QED
    BY <2>1, <2>2 DEF NoId
<1>3. req.op \in Sent \cup {"add", "delete"}
  BY <1>1 DEF SaveInv, FlagsInv, ThreadState
<1>4. Memory \in Memories /\ Memory.rows = rows /\ Memory.del = del /\ Memory.del \in Copies
  BY <1>1, MemoryTyped, FieldsTyped
<1>5. Lands(Memory) => Typed' /\ InPlace(rows', rows) /\ del' = del
  BY <1>4, LandsTyped DEF Lands
<1>6. CASE req.op \in {"icon", "title", "text"}
  <2>1. AfterPatch(a)
    BY <1>6 DEF Respond
  <2> QED
    BY <1>1, <1>2, <1>5, <1>6, <2>1, AfterPatchLands
<1>7. CASE req.op = "add"
  <2>1. AfterAddInsert(a, id)
    BY <1>7 DEF Respond
  <2>2. rows[1].serial # req.serial
    BY <1>7 DEF SaveInv, FirstRowStays
  <2> HIDE DEF id
  <2> QED
    BY <1>1, <1>2, <1>7, <2>1, <2>2, AfterAddInsertTyped DEF Sent
<1>8. CASE req.op = "delete"
  <2>1. AfterDeleteArchive(a)
    BY <1>8 DEF Respond
  <2>2. del.idx # 0
    BY <1>8 DEF SaveInv, DeleteHasCopy
  <2> HIDE DEF id
  <2> QED
    BY <1>1, <1>2, <1>8, <2>1, <2>2, AfterDeleteTyped DEF Sent
<1>9. CASE req.op = "recreate"
  <2>1. AfterRecreateInsert(a, id)
    BY <1>9 DEF Respond
  <2> HIDE DEF id
  <2> QED
    BY <1>1, <1>2, <1>5, <1>9, <2>1, AfterRecreateInsertLands
<1>10. CASE req.op = "archive"
  <2>1. AfterRecreateArchive(a)
    BY <1>10 DEF Respond
  <2> QED
    BY <1>1, <1>2, <1>5, <1>10, <2>1, AfterRecreateArchiveLands
<1>11. CASE req.op = "trash"
  <2>1. AfterDeferredTrash(a)
    BY <1>11 DEF Respond
  <2> QED
    BY <1>1, <1>2, <1>5, <1>11, <2>1, AfterDeferredTrashLands
<1> QED
  BY <1>3, <1>6, <1>7, <1>8, <1>9, <1>10, <1>11 DEF Sent

-----------------------------------------------------------------------------
(* doSave.                                                                 *)
LEMMA HeadsMarkedOf ==
    ASSUME NEW rs \in RowLists
    PROVE  HeadsMarked(rs) \in RowLists /\ InPlace(HeadsMarked(rs), rs)
<1> DEFINE b(i) == ~rs[i].cont /\ \E k \in i .. GroupEnd(rs, i) - 1 : rs[k].dirty
           w == [i \in DOMAIN rs |-> [rs[i] EXCEPT !.dirty = b(i)]]
<1>1. HeadsMarked(rs) = w
  BY DEF HeadsMarked
<1>2. \A i \in 1 .. Len(rs) : b(i) \in BOOLEAN
  OBVIOUS
<1>3. DOMAIN rs = 1 .. Len(rs) /\ \A k \in 1 .. Len(rs) : rs[k] \in Row
  BY RowInList
<1> HIDE DEF b
<1>4. \A k \in 1 .. Len(rs) : [rs[k] EXCEPT !.dirty = b(k)] \in Row
                              /\ [rs[k] EXCEPT !.dirty = b(k)].serial = rs[k].serial
  BY <1>2, <1>3, FieldTyped
<1>5. /\ w = [k \in DOMAIN rs |-> w[k]]
      /\ \A k \in 1 .. Len(rs) : w[k] \in Row /\ w[k].serial = rs[k].serial
  BY <1>3, <1>4
<1> HIDE DEF w
<1> QED
  BY <1>1, <1>5, EachChanged

(* The rows as a save leaves them: what is cut short is never sent.        *)
Kept(rs) == [i \in DOMAIN rs |->
               IF ToSave(rs, i) /\ rs[i].cut
               THEN [rs[i] EXCEPT !.dirty = FALSE, !.recreate = FALSE]
               ELSE rs[i]]

LEMMA KeptOf ==
    ASSUME NEW rs \in RowLists
    PROVE  Kept(rs) \in RowLists /\ InPlace(Kept(rs), rs)
<1> DEFINE F(r) == [r EXCEPT !.dirty = FALSE, !.recreate = FALSE]
           w == Kept(rs)
<1>1. DOMAIN rs = 1 .. Len(rs) /\ \A k \in 1 .. Len(rs) : rs[k] \in Row
  BY RowInList
<1>2. \A r \in Row : F(r) \in Row /\ F(r).serial = r.serial
  BY DEF Row
<1>3. w = [i \in DOMAIN rs |-> IF ToSave(rs, i) /\ rs[i].cut THEN F(rs[i]) ELSE rs[i]]
  BY Zenon DEF Kept
<1> HIDE DEF F, w
<1>4. /\ w = [k \in DOMAIN rs |-> w[k]]
      /\ \A k \in 1 .. Len(rs) : w[k] \in Row /\ w[k].serial = rs[k].serial
  BY <1>1, <1>2, <1>3
<1> QED
  BY <1>4, EachChanged DEF w

LEMMA SaveQueueOf ==
    ASSUME NEW rs \in RowLists
    PROVE  SaveQueue(rs) \in Indices
<1> DEFINE A == {i \in DOMAIN rs : /\ ToSave(rs, i) /\ ~rs[i].cut
                                   /\ rs[i].saveFirst = TRUE}
           B == {i \in DOMAIN rs : /\ ToSave(rs, i) /\ ~rs[i].cut
                                   /\ rs[i].saveFirst = FALSE}
           n == Len(rs)
<1>1. SaveQueue(rs) = Ascending(A) \o Ascending(B)
  BY DEF SaveQueue
<1>2. n \in Nat /\ DOMAIN rs = 1 .. n
  BY RowInList
<1>3. IsFiniteSet(1 .. n)
  BY <1>2, FS_Interval
<1>4. A \subseteq 1 .. n /\ B \subseteq 1 .. n
  BY <1>2
<1> HIDE DEF A, B
<1>5. ASSUME NEW S, S \subseteq 1 .. n PROVE Ascending(S) \in Seq(Nat \ {0})
  <2>1. S \subseteq Nat /\ S \subseteq Nat \ {0} /\ IsFiniteSet(S)
    <3>1. IsFiniteSet(S)
      <4> DEFINE T == 1 .. n
      <4> HIDE DEF T
      <4> QED
        BY <1>3, <1>5, FS_Subset DEF T
    <3> QED
      BY <1>2, <1>5, <3>1
  <2> DEFINE a == Ascending(S)
  <2>2. a \in Seq(S)
    BY <2>1, AscendingOf
  <2> HIDE DEF a
  <2>3. a \in Seq(Nat \ {0})
    <3> DEFINE T == Nat \ {0}
    <3>1. S \subseteq T
      BY <2>1
    <3> HIDE DEF T
    <3>2. a \in Seq(T)
      BY <2>2, <3>1
    <3> QED
      BY <3>2 DEF T
  <2> QED
    BY <2>3 DEF a
<1>6. Ascending(A) \in Seq(Nat \ {0}) /\ Ascending(B) \in Seq(Nat \ {0})
  BY <1>4, <1>5
<1> QED
  BY <1>1, <1>6 DEF Indices

LEMMA doSaveTyped ==
    ASSUME SaveInv, doSave
    PROVE  /\ rows' \in RowLists /\ InPlace(rows', rows) /\ queue' \in Indices /\ run' \in Run
           /\ UNCHANGED <<cache, del, icon, defer, list, req, notion, edits>>
<1> DEFINE marked == HeadsMarked(rows)
           kept   == Kept(marked)
           queued == SaveQueue(marked)
           clear  == [run EXCEPT !.rejected = FALSE]
<1>1. rows \in RowLists /\ run \in Run
  BY DEF SaveInv, TypeOK, RowLists
<1>2. marked \in RowLists /\ InPlace(marked, rows)
  BY <1>1, HeadsMarkedOf
<1>3. /\ rows' = kept /\ run' = clear
      /\ queue' = <<>> \/ queue' = queued
      /\ UNCHANGED <<cache, del, icon, defer, list, req, notion, edits>>
  <2>1. doSave => rows' = kept /\ run' = clear
    BY Zenon DEF doSave, Kept
  <2>2. doSave => queue' = <<>> \/ queue' = queued
    BY Zenon DEF doSave
  <2>3. doSave => UNCHANGED <<cache, del, icon, defer, list, req, notion, edits>>
    BY Zenon DEF doSave
  <2> QED
    BY <2>1, <2>2, <2>3
<1>7. clear \in Run
  BY <1>1 DEF Run
<1> HIDE DEF marked
<1>4. kept \in RowLists /\ InPlace(kept, marked)
  BY <1>2, KeptOf
<1>5. queued \in Indices /\ <<>> \in Indices
  BY <1>2, SaveQueueOf DEF Indices
<1> HIDE DEF kept, queued, clear
<1> QED
  BY <1>2, <1>3, <1>4, <1>5, <1>7, InPlaceIn

LEMMA StartSaveTyped ==
    ASSUME SaveInv, StartSave
    PROVE  Typed' /\ InPlace(rows', rows) /\ del' = del
<1>1. /\ Memory \in Memories /\ Memory.rows = rows /\ Memory.del = del /\ icon \in Nat
      /\ Memory.del \in Copies
  BY MemoryTyped, FieldsTyped DEF SaveInv
<1>2. Lands(Memory)
  BY <1>1, ContinueQueueLands DEF StartSave
<1> QED
  BY <1>1, <1>2, LandsTyped DEF Lands

-----------------------------------------------------------------------------
(* The user's commands.                                                    *)

(* What a command leaves. *)
Edited == Typed' /\ cache' \in Caches /\ FirstRowStays' /\ DeleteHasCopy'

LEMMA ScreenTyped ==
    ASSUME SaveInv
    PROVE  /\ Screen \in Screens /\ Screen.rows = rows /\ Screen.cache = cache
           /\ rows \in RowLists /\ cache \in Caches /\ rows \in Seq(Row)
           /\ Len(rows) \in Nat /\ DOMAIN rows = 1 .. Len(rows)
           /\ \A k \in 1 .. Len(rows) : rows[k] \in Row
<1>1. rows \in RowLists /\ cache \in Caches
  BY DEF SaveInv, TypeOK, RowLists, Caches
<1> QED
  BY <1>1, RowInList DEF Screen, Screens

LEMMA IdleRequest ==
    ASSUME FlagsInv, ~busy
    PROVE  req.op = "none"
BY DEF FlagsInv, BusyOwned, busy, saving

LEMMA ShowsTyped ==
    ASSUME SaveInv, NEW p \in Screens, Shows(p), req.op = "add" => p.rows[1].serial = rows[1].serial
    PROVE  Edited
<1>1. /\ rows' = p.rows /\ cache' = p.cache /\ app' = [app EXCEPT !.hasDirty = TRUE]
      /\ UNCHANGED <<del, queue, run, defer, list, req>>
  BY DEF Shows, saveVars
<1>2. Typed
  BY TypedOK, ScreenTyped DEF SaveInv, TypeOK
<1>3. rows' \in RowLists /\ cache' \in Caches
  BY <1>1 DEF Screens
<1>4. app' \in App
  BY <1>1, <1>2 DEF App, Typed
<1>5. Typed'
  BY <1>1, <1>2, <1>3, <1>4 DEF Typed
<1>6. FirstRowStays' /\ DeleteHasCopy'
  BY <1>1 DEF SaveInv, FirstRowStays, DeleteHasCopy
<1> QED
  BY <1>3, <1>5, <1>6 DEF Edited

LEMMA TypeTyped ==
    ASSUME SaveInv, NEW i \in DOMAIN rows, Type(i)
    PROVE  Edited /\ InPlace(rows', rows)
<1> DEFINE r == rows[i]
           t == [r EXCEPT !.ver = Ver, !.dirty = TRUE]
           w == [rows EXCEPT ![i] = t]
           p == [Screen EXCEPT !.rows[i] = [@ EXCEPT !.ver = Ver, !.dirty = TRUE]]
<1>1. /\ Screen \in Screens /\ Screen.rows = rows /\ r \in Row /\ rows \in RowLists
      /\ 1 \in 1 .. Len(rows)
  BY ScreenTyped, RowInList
<1>2. Ver \in Nat
  BY SaveAssumption DEF SaveInv, TypeOK, ControlOK, Ver
<1>3. t \in Row /\ t.serial = r.serial
  <2> HIDE DEF r
  <2> QED
    BY <1>1, <1>2 DEF Row
<1>4. p = [Screen EXCEPT !.rows = w]
  BY <1>1 DEF Screens
<1>5. Shows(p)
  BY DEF Type
<1> HIDE DEF t, p
<1>6. w \in RowLists /\ InPlace(w, rows)
  BY <1>1, <1>3, OneChanged
<1> HIDE DEF w
<1>7. p \in Screens /\ p.rows = w
  BY <1>1, <1>4, <1>6 DEF Screens
<1>8. rows' = w
  BY <1>5, <1>7 DEF Shows
<1> QED
  BY <1>1, <1>5, <1>6, <1>7, <1>8, ShowsTyped DEF InPlace

LEMMA RetypeTyped ==
    ASSUME SaveInv, NEW i \in DOMAIN rows, NEW kind \in Retypes, Retype(i, kind)
    PROVE  Edited /\ InPlace(rows', rows)
<1> DEFINE w == RetypeBlock(rows, i, kind)
           p == [Screen EXCEPT !.rows = w]
<1>1. /\ Screen \in Screens /\ Screen.rows = rows /\ rows \in RowLists
      /\ i \in 1 .. Len(rows) /\ 1 \in 1 .. Len(rows)
  BY ScreenTyped, RowInList
<1>2. kind \in Kinds
  BY SaveAssumption
<1>3. w \in RowLists /\ InPlace(w, rows)
  BY <1>1, <1>2, RetypeOf
<1>4. Shows(p)
  BY DEF Retype
<1> HIDE DEF w
<1>5. p \in Screens /\ p.rows = w
  BY <1>1, <1>3 DEF Screens
<1> HIDE DEF p
<1>6. rows' = w
  BY <1>4, <1>5 DEF Shows
<1> QED
  BY <1>1, <1>3, <1>4, <1>5, <1>6, ShowsTyped DEF InPlace

LEMMA IndentTyped ==
    ASSUME SaveInv, NEW i \in DOMAIN rows, Indent(i)
    PROVE  Edited
<1> DEFINE p == doIndentBlock(Screen, i)
<1>1. Screen \in Screens /\ Screen.rows = rows /\ i \in 1 .. Len(rows)
  BY ScreenTyped
<1>2. i > 1 /\ IndentParent(rows, i) # 0 /\ Shows(p) /\ ~busy
  BY DEF Indent, MayIndent
<1>3. i \in 2 .. Len(rows)
  BY <1>1, <1>2
<1>4. p \in Screens
  BY <1>1, <1>2, <1>3, IndentOf
<1>5. req.op = "none"
  BY <1>2, IdleRequest DEF SaveInv
<1> HIDE DEF p
<1> QED
  BY <1>2, <1>4, <1>5, ShowsTyped

LEMMA MoveTyped ==
    ASSUME SaveInv, NEW i \in DOMAIN rows, NEW up \in BOOLEAN, Move(i, up)
    PROVE  Edited
<1> DEFINE p == moveBlock(Screen, i, up)
<1>1. Screen \in Screens /\ Screen.rows = rows /\ i \in 1 .. Len(rows)
  BY ScreenTyped
<1>2. i > 1 /\ Shows(p) /\ ~busy
  BY DEF Move
<1>3. i \in 2 .. Len(rows)
  BY <1>1, <1>2
<1>4. p \in Screens
  BY <1>1, <1>3, MoveOf
<1>5. req.op = "none"
  BY <1>2, IdleRequest DEF SaveInv
<1> HIDE DEF p
<1> QED
  BY <1>2, <1>4, <1>5, ShowsTyped

LEMMA DeletePieceTyped ==
    ASSUME SaveInv, NEW i \in DOMAIN rows, DeletePiece(i)
    PROVE  Edited
<1> DEFINE w == PieceDeleted(rows, i)
           p == [Screen EXCEPT !.rows = w]
<1>1. Screen \in Screens /\ rows \in RowLists /\ i \in 1 .. Len(rows)
  BY ScreenTyped
<1>2. i > 1 /\ Shows(p) /\ ~busy
  BY DEF DeletePiece
<1>3. i \in 2 .. Len(rows)
  BY <1>1, <1>2
<1>4. w \in RowLists
  BY <1>1, <1>3, PieceDeletedOf
<1> HIDE DEF w
<1>5. p \in Screens
  BY <1>1, <1>4 DEF Screens
<1>6. req.op = "none"
  BY <1>2, IdleRequest DEF SaveInv
<1> HIDE DEF p
<1> QED
  BY <1>2, <1>5, <1>6, ShowsTyped

(* A block added below row i of a page rs. *)
LEMMA AddBlockTyped ==
    ASSUME SaveInv, NEW rs \in RowLists, NEW i \in 1 .. Len(rs), NEW row \in Row,
           NEW hasDirty \in BOOLEAN, AddBlock(rs, i, row, hasDirty)
    PROVE  Edited
<1> DEFINE at == AddPlace(rs, i)
           r == [row EXCEPT !.parent = at.parent, !.depth = at.depth]
           new == InsertBlockAt(rs, at.at, r, {})
           k == at.at
           s == new[k].serial
           ask == [NoReq EXCEPT !.op = "add", !.parent = at.parent, !.after = at.after,
                                !.kind = row.kind, !.body = <<0>>, !.serial = s]
           waiting == [app EXCEPT !.apiPending = TRUE, !.saveThreadActive = TRUE,
                                  !.hasDirty = @ \/ hasDirty]
           failed == [app EXCEPT !.hasDirty = @ \/ hasDirty]
<1>1. /\ ~busy /\ Len(rs) < MaxRows /\ rows' = new
      /\ UNCHANGED <<cache, del, queue, run, defer, list>>
      /\ \/ req' = ask /\ app' = waiting
         \/ UNCHANGED req /\ app' = failed
  <2>1. AddBlock(rs, i, row, hasDirty) =>
          /\ ~busy /\ Len(rs) < MaxRows /\ rows' = new
          /\ UNCHANGED <<cache, saveVars>>
          /\ \/ req' = ask /\ app' = waiting
             \/ UNCHANGED req /\ app' = failed
    BY Zenon DEF AddBlock
  <2> HIDE DEF new, ask, waiting, failed
  <2> QED
    BY <2>1 DEF saveVars
<1>2. /\ at.at \in i + 1 .. Len(rs) + 1
      /\ at.parent \in Int /\ at.depth \in Nat /\ at.after \in Int
  BY AddPlaceOf
<1> HIDE DEF at
<1>3. /\ rs \in Seq(Row) /\ Len(rs) \in 1 .. MaxRows /\ Len(rs) \in Nat /\ MaxRows \in Nat
      /\ \A j \in 1 .. Len(rs) : rs[j] \in Row
  BY RowInList
<1>4. k \in 1 .. Len(rs) + 1 /\ k >= 2
  BY <1>2, <1>3
<1> HIDE DEF k
<1>5. r \in Row
  BY <1>2 DEF Row
<1> HIDE DEF r
<1>6. new \in Seq(Row) /\ Inserted(new, rs, k, <<r>>)
  BY <1>1, <1>3, <1>4, <1>5, InsertBlockOf DEF k
<1> HIDE DEF new
<1>7. /\ Len(new) = Len(rs) + 1 /\ new[1] = rs[1]
      /\ new[k].serial \notin SerialsOf(rs)
  BY <1>3, <1>4, <1>6 DEF Inserted
<1>8. new \in RowLists
  BY <1>1, <1>3, <1>6, <1>7 DEF RowLists
<1>9. s \in Nat /\ new[1].serial # s
  <2>1. k \in 1 .. Len(new) /\ 1 \in 1 .. Len(rs) /\ DOMAIN rs = 1 .. Len(rs)
    BY <1>3, <1>4, <1>7, RowInList
  <2>2. new[k] \in Row
    BY <1>8, <2>1, RowInList
  <2>3. new[k].serial \in Nat
    <3> DEFINE b == new[k]
    <3>1. b \in Row
      BY <2>2
    <3> HIDE DEF b
    <3>2. b.serial \in Nat
      BY <3>1 DEF Row
    <3> QED
      BY <3>2 DEF b
  <2>4. rs[1].serial \in SerialsOf(rs)
    BY <2>1 DEF SerialsOf
  <2> QED
    BY <1>7, <2>3, <2>4
<1> HIDE DEF s
<1>10. ask \in Request /\ ask.op = "add" /\ ask.serial = s
  <2> DEFINE kind == row.kind
             body == <<0>>
             parent == at.parent
             after == at.after
  <2>1. kind \in Kinds /\ body \in Seq(Nat) /\ parent \in Int /\ after \in Int
    BY <1>2 DEF Row
  <2> HIDE DEF kind, body, parent, after
  <2> DEFINE q == [NoReq EXCEPT !.op = "add", !.parent = parent, !.after = after,
                                !.kind = kind, !.body = body, !.serial = s]
  <2>2. q \in Request /\ q.op = "add" /\ q.serial = s
    BY <1>9, <2>1, NoReqTyped DEF Request
  <2> QED
    BY <2>2 DEF kind, body, parent, after
<1>11. Typed /\ app \in App
  BY TypedOK, ScreenTyped DEF SaveInv, TypeOK, ControlOK
<1>12. waiting \in App /\ failed \in App
  BY <1>11 DEF App
<1>13. req.op = "none"
  BY <1>1, IdleRequest DEF SaveInv
<1> HIDE DEF ask, waiting, failed
<1>14. Typed' /\ cache' \in Caches
  BY <1>1, <1>8, <1>10, <1>11, <1>12, ScreenTyped DEF Typed
<1>15. FirstRowStays' /\ DeleteHasCopy'
  BY <1>1, <1>9, <1>10, <1>13 DEF FirstRowStays, DeleteHasCopy
<1> QED
  BY <1>14, <1>15 DEF Edited

LEMMA NewRowTyped ==
    ASSUME NEW kind \in Kinds
    PROVE  NewRow(kind) \in Row
<1>1. BlankRow \in Row
  BY DEF BlankRow, Row, NoId, Page, Kinds
<1>2. NewRow(kind) = [BlankRow EXCEPT !.kind = kind, !.open = (kind \in Toggles)]
  BY DEF NewRow
<1> DEFINE b == kind \in Toggles
<1>3. b \in BOOLEAN
  OBVIOUS
<1> HIDE DEF b
<1>4. [BlankRow EXCEPT !.kind = kind, !.open = b] \in Row
  BY <1>1, <1>3 DEF Row
<1> QED
  BY <1>2, <1>4 DEF b

LEMMA AddTyped ==
    ASSUME SaveInv, NEW i \in DOMAIN rows, NEW kind \in Retypes, Add(i, kind)
    PROVE  Edited
<1> DEFINE row == NewRow(kind)
<1>1. rows \in RowLists /\ i \in 1 .. Len(rows)
  BY ScreenTyped
<1>2. row \in Row
  BY SaveAssumption, NewRowTyped
<1>3. AddBlock(rows, i, row, FALSE)
  BY DEF Add
<1> HIDE DEF row
<1> QED
  BY <1>1, <1>2, <1>3, AddBlockTyped

LEMMA SplitTyped ==
    ASSUME SaveInv, NEW i \in DOMAIN rows, Split(i)
    PROVE  Edited
<1> DEFINE kind == IF rows[i].kind = "list" THEN "list" ELSE "text"
           r == rows[i]
           t == [r EXCEPT !.ver = Ver, !.dirty = TRUE]
           cut == [rows EXCEPT ![i] = [@ EXCEPT !.ver = Ver, !.dirty = TRUE]]
           b == NewRow(kind)
           row == [b EXCEPT !.ver = Ver, !.dirty = TRUE]
<1>1. rows \in RowLists /\ i \in 1 .. Len(rows) /\ r \in Row
  BY ScreenTyped
<1>2. Ver \in Nat
  BY SaveAssumption DEF SaveInv, TypeOK, ControlOK, Ver
<1>3. t \in Row /\ t.serial = r.serial
  <2> HIDE DEF r
  <2> QED
    BY <1>1, <1>2 DEF Row
<1>4. cut = [rows EXCEPT ![i] = t]
  OBVIOUS
<1>5. AddBlock(cut, i, row, TRUE)
  BY DEF Split
<1>6. kind \in Kinds
  BY DEF Kinds
<1> HIDE DEF cut, t, kind
<1>7. cut \in RowLists /\ Len(cut) = Len(rows)
  <2> DEFINE w == [rows EXCEPT ![i] = t]
  <2>1. w \in RowLists /\ InPlace(w, rows)
    BY <1>1, <1>3, OneChanged
  <2> HIDE DEF w
  <2>2. w \in RowLists /\ Len(w) = Len(rows)
    BY <2>1 DEF InPlace
  <2> QED
    BY <1>4, <2>2 DEF w
<1>8. b \in Row
  BY <1>6, NewRowTyped
<1> HIDE DEF b
<1>9. row \in Row
  BY <1>2, <1>8 DEF Row
<1> HIDE DEF row
<1> QED
  BY <1>1, <1>5, <1>7, <1>9, AddBlockTyped

LEMMA DeleteBlockTyped ==
    ASSUME SaveInv, NEW i \in DOMAIN rows, DeleteBlock(i)
    PROVE  /\ Edited
           /\ del' # NoDel => req'.op = "delete" \/ del' = del
           /\ req'.op = "delete" => Len(rows') + Len(del'.rows) <= MaxRows
<1> DEFINE end  == DeleteEnd(rows, i)
           id   == rows[i].id
           left == EraseRows(rows, i, end)
           pack == PackRows(rows, i, end)
           after == rows[i - 1].serial
           copy == [rows |-> pack, after |-> after, idx |-> i]
           kept == ToggleCacheEvict(cache, id)
           gone == [Memory EXCEPT !.rows = left, !.del = copy]
           back == RestoreDeletedBlocks(gone)
           ask == [NoReq EXCEPT !.op = "delete", !.id = id]
           waiting == [app EXCEPT !.apiPending = TRUE, !.saveThreadActive = TRUE]
<1>1. /\ ~busy /\ i > 1 /\ UNCHANGED <<queue, run, defer, list>>
      /\ \/ rows' = left /\ UNCHANGED <<cache, del, app, req>>
         \/ /\ cache' = kept
            /\ \/ rows' = left /\ del' = copy /\ req' = ask /\ app' = waiting
               \/ UNCHANGED <<app, req>> /\ del' = NoDel /\ rows' = back.rows
  <2>1. DeleteBlock(i) =>
      /\ ~busy /\ i > 1 /\ UNCHANGED <<icon, queue, run, defer, list, notion, refused>>
      /\ \/ rows' = left /\ UNCHANGED <<cache, del, app, thread, pc, req>>
         \/ /\ cache' = kept
            /\ \/ rows' = left /\ del' = copy /\ req' = ask /\ app' = waiting
               \/ UNCHANGED <<app, req>> /\ del' = NoDel /\ rows' = back.rows
    BY Zenon DEF DeleteBlock
  <2> HIDE DEF left, copy, ask, waiting, kept, back
  <2> QED
    BY <2>1
<1>2. /\ rows \in RowLists /\ rows \in Seq(Row) /\ i \in 1 .. Len(rows) /\ Len(rows) \in Nat
      /\ Len(rows) \in 1 .. MaxRows /\ MaxRows \in Nat
      /\ \A k \in 1 .. Len(rows) : rows[k] \in Row
      /\ cache \in Caches
  BY ScreenTyped, RowInList
<1>3. end \in i + 1 .. Len(rows) + 1
  BY <1>2, SubtreeEndOf DEF DeleteEnd
<1>4. i \in 2 .. Len(rows) /\ i \in 1 .. Len(rows) + 1 /\ end \in i .. Len(rows) + 1
      /\ i - 1 \in 1 .. Len(rows)
  BY <1>1, <1>2, <1>3
<1> HIDE DEF end
<1>5. left \in Seq(Row) /\ Len(left) = Len(rows) - (end - i)
  BY <1>2, <1>4, EraseOf
<1>6. pack \in Seq(Row) /\ Len(pack) = end - i
  BY <1>2, <1>4, PackedOf
<1> HIDE DEF left, pack
<1>7. left \in RowLists /\ Len(left) + Len(pack) = Len(rows)
  <2> DEFINE L == Len(rows)
             l == Len(left)
             p == Len(pack)
  <2>1. /\ L \in Nat /\ L \in 1 .. MaxRows /\ MaxRows \in Nat /\ l = L - (end - i)
        /\ p = end - i /\ i \in 2 .. L /\ end \in i + 1 .. L + 1
    BY <1>2, <1>3, <1>4, <1>5, <1>6
  <2> HIDE DEF L, l, p
  <2>2. l \in 1 .. MaxRows /\ l + p = L
    BY <2>1
  <2>3. left \in RowLists
    BY <1>5, <2>2 DEF RowLists, l
  <2> QED
    BY <2>2, <2>3 DEF L, l, p
<1>8. after \in Nat /\ id \in Int
  <2> DEFINE a == rows[i - 1]
             b == rows[i]
  <2>1. a \in Row /\ b \in Row
    BY <1>2, <1>4
  <2> HIDE DEF a, b
  <2>2. a.serial \in Nat /\ b.id \in Int
    BY <2>1 DEF Row
  <2> QED
    BY <2>2 DEF a, b
<1> HIDE DEF after, id
<1>9. copy \in Copies /\ copy.idx = i /\ copy.rows = pack
  BY <1>4, <1>6, <1>8 DEF Copies
<1>10. kept \in Caches
  BY <1>2, EvictTyped
<1>11. ask \in Request /\ ask.op = "delete"
  BY <1>8, NoReqTyped DEF Request
<1>12. Typed /\ app \in App
  BY TypedOK, ScreenTyped DEF SaveInv, TypeOK, ControlOK
<1>13. waiting \in App
  BY <1>12 DEF App
<1> HIDE DEF copy, kept, ask, waiting
<1>14. back.rows \in RowLists
  <2>1. Memory \in Memories
    BY MemoryTyped DEF SaveInv
  <2>2. gone \in Memories /\ gone.del = copy
    BY <1>7, <1>9, <2>1 DEF Memories
  <2> HIDE DEF gone
  <2>4. gone.del.idx # 0
    BY <1>4, <1>9, <2>2
  <2>3. back \in Memories
    BY <2>2, <2>4, RestoreTyped
  <2> HIDE DEF back
  <2> QED
    BY <2>3, FieldsTyped
<1> HIDE DEF back
<1>15. req.op = "none"
  BY <1>1, IdleRequest DEF SaveInv
<1>16. NoDel \in Copies
  BY DEF NoDel, Copies
<1>17. CASE rows' = left /\ UNCHANGED <<cache, del, app, req>>
  BY <1>1, <1>2, <1>7, <1>12, <1>15, <1>17 DEF Edited, Typed, FirstRowStays, DeleteHasCopy
<1>18. CASE cache' = kept /\ rows' = left /\ del' = copy /\ req' = ask /\ app' = waiting
  <2>1. Typed' /\ cache' \in Caches
    BY <1>1, <1>7, <1>9, <1>10, <1>11, <1>12, <1>13, <1>18 DEF Typed
  <2>2. FirstRowStays' /\ DeleteHasCopy'
    BY <1>4, <1>9, <1>11, <1>18 DEF FirstRowStays, DeleteHasCopy
  <2>3. Len(rows') + Len(del'.rows) <= MaxRows /\ req'.op = "delete"
    BY <1>2, <1>7, <1>9, <1>11, <1>18
  <2> QED
    BY <2>1, <2>2, <2>3 DEF Edited
<1>19. CASE cache' = kept /\ UNCHANGED <<app, req>> /\ del' = NoDel /\ rows' = back.rows
  BY <1>1, <1>10, <1>12, <1>14, <1>15, <1>16, <1>19
     DEF Edited, Typed, FirstRowStays, DeleteHasCopy
<1> QED
  BY <1>1, <1>17, <1>18, <1>19

LEMMA CloseToggleTyped ==
    ASSUME SaveInv, NEW i \in DOMAIN rows, CloseToggle(i)
    PROVE  Edited
<1> DEFINE c == CloseToggleAt(rows, cache, i)
<1>1. rows \in RowLists /\ cache \in Caches /\ i \in 1 .. Len(rows)
  BY ScreenTyped
<1>2. c \in Screens /\ c.rows[1].serial = rows[1].serial
  BY <1>1, CloseToggleOf
<1>3. rows' = c.rows /\ cache' = c.cache /\ UNCHANGED <<del, app, queue, run, defer, list, req>>
  BY DEF CloseToggle, saveVars
<1> HIDE DEF c
<1>4. Typed
  BY TypedOK, ScreenTyped DEF SaveInv, TypeOK
<1>5. Typed' /\ cache' \in Caches
  BY <1>2, <1>3, <1>4 DEF Typed, Screens
<1>6. FirstRowStays' /\ DeleteHasCopy'
  BY <1>2, <1>3 DEF SaveInv, FirstRowStays, DeleteHasCopy
<1> QED
  BY <1>5, <1>6 DEF Edited

LEMMA HeldTyped ==
    ASSUME SaveInv
    PROVE  Held \in SUBSET Nat /\ IsFiniteSet(Held)
<1>1. del.after \in Nat /\ req.serial \in Nat
  BY DEF SaveInv, TypeOK, Request
<1>2. IsFiniteSet({del.after}) /\ IsFiniteSet({del.after} \cup {req.serial})
  BY FS_Singleton, FS_AddElement
<1>3. Held = {del.after} \cup {req.serial}
  BY DEF Held
<1> QED
  BY <1>1, <1>2, <1>3

(* A toggle opened stays where it is. *)
LEMMA OpenedOf ==
    ASSUME NEW rs \in RowLists, NEW i \in 1 .. Len(rs)
    PROVE  [rs EXCEPT ![i].open = TRUE] \in RowLists /\ InPlace([rs EXCEPT ![i].open = TRUE], rs)
<1> DEFINE r == rs[i]
           o == [r EXCEPT !.open = TRUE]
<1>1. r \in Row
  BY RowInList
<1> HIDE DEF r
<1>2. o \in Row /\ o.serial = r.serial
  BY <1>1, FieldTyped
<1> HIDE DEF o
<1>3. [rs EXCEPT ![i] = o] \in RowLists /\ InPlace([rs EXCEPT ![i] = o], rs)
  BY <1>2, OneChanged DEF r
<1> QED
  BY <1>3 DEF o, r

LEMMA OpenFromCacheTyped ==
    ASSUME SaveInv, NEW i \in DOMAIN rows, OpenFromCache(i)
    PROVE  Edited
<1> DEFINE e == Entry(i)
           packed == cache[e].rows
           opened == [rows EXCEPT ![i].open = TRUE]
           at == i + 1
           depth == rows[i].depth + 1
           w == UnpackRows(opened, packed, at, depth, Held)
<1>1. rows \in RowLists /\ cache \in Caches /\ i \in 1 .. Len(rows) /\ Len(rows) \in Nat
      /\ rows[i] \in Row
  BY ScreenTyped
<1>2. rows' = w /\ e # 0 /\ UNCHANGED <<cache, del, app, queue, run, defer, list, req>>
  BY DEF OpenFromCache, saveVars
<1>3. opened \in RowLists /\ InPlace(opened, rows)
  BY <1>1, OpenedOf
<1>4. packed \in Seq(Row)
  <2> DEFINE T == {k \in DOMAIN cache : cache[k].id = rows[i].id}
             n == Len(cache)
  <2>1. n \in Nat /\ DOMAIN cache = 1 .. n /\ \A k \in 1 .. n : cache[k] \in CacheEntry
    BY <1>1, RowAt DEF Caches
  <2>2. T \subseteq 1 .. n
    BY <2>1
  <2>3. e = Least(T)
    BY DEF Entry, ToggleCacheFind
  <2> HIDE DEF T
  <2>4. e \in 1 .. n
    BY <1>2, <2>1, <2>2, <2>3, LeastFound
  <2>5. cache[e] \in CacheEntry
    BY <2>1, <2>4
  <2> DEFINE c == cache[e]
  <2> HIDE DEF c
  <2>6. c.rows \in Seq(Row)
    BY <2>5 DEF CacheEntry, c
  <2> QED
    BY <2>6 DEF c
<1>5. depth \in Nat
  <2> DEFINE r == rows[i]
  <2> HIDE DEF r
  <2>1. r.depth \in Nat
    BY <1>1 DEF Row, r
  <2> QED
    BY <2>1 DEF r
<1>6. at \in 1 .. Len(opened) + 1 /\ at - 1 = i /\ 1 \in 1 .. at - 1
  BY <1>1, <1>3 DEF InPlace
<1>7. Held \in SUBSET Nat /\ IsFiniteSet(Held)
  BY HeldTyped
<1> HIDE DEF opened
<1>8. /\ opened \in Seq(Row) /\ Len(opened) \in 1 .. MaxRows /\ MaxRows \in Nat
      /\ Len(opened) \in Nat /\ Len(opened) <= MaxRows /\ 1 \in 1 .. Len(rows)
  <2>1. opened \in Seq(Row) /\ Len(opened) \in 1 .. MaxRows /\ MaxRows \in Nat
    BY <1>3, RowInList
  <2>2. 1 \in 1 .. Len(rows)
    BY <1>1
  <2> QED
    BY <2>1, <2>2
<1>15. depth \in Nat \cup {-1}
  BY <1>5
<1> HIDE DEF e, packed, at, depth
<1>9. w \in Seq(Row) /\ Len(w) \in Len(opened) .. MaxRows /\ w[1] = opened[1]
  <2>1. /\ w \in Seq(Row) /\ Len(w) \in Len(opened) .. MaxRows
        /\ \A k \in 1 .. at - 1 : w[k] = opened[k]
    BY <1>4, <1>6, <1>7, <1>8, <1>15, UnpackedOf
  <2> QED
    BY <1>6, <2>1
<1> HIDE DEF w
<1>10. w \in RowLists
  BY <1>8, <1>9 DEF RowLists
<1>11. w[1].serial = rows[1].serial
  BY <1>3, <1>8, <1>9 DEF InPlace
<1>12. Typed
  BY TypedOK, ScreenTyped DEF SaveInv, TypeOK
<1>13. Typed' /\ cache' \in Caches
  BY <1>1, <1>2, <1>10, <1>12 DEF Typed
<1>14. FirstRowStays' /\ DeleteHasCopy'
  BY <1>2, <1>11 DEF SaveInv, FirstRowStays, DeleteHasCopy
<1> QED
  BY <1>13, <1>14 DEF Edited

-----------------------------------------------------------------------------
(* A toggle's children come from Notion.                                   *)

(* The sequences of s up to the k-th, one after the other. *)
Joined(f, s, k) == f = [i \in 1 .. k |-> IF i = 1 THEN s[i] ELSE f[i - 1] \o s[i]]

LEMMA JoinedExist ==
    ASSUME NEW s, NEW n \in Nat
    PROVE  \E f : Joined(f, s, n)
<1> DEFINE T == {k \in Nat : \E f : Joined(f, s, k)}
<1>1. 0 \in T
  <2> DEFINE f == [i \in 1 .. 0 |-> 0]
             g == [i \in 1 .. 0 |-> IF i = 1 THEN s[i] ELSE f[i - 1] \o s[i]]
  <2>1. f = g
    OBVIOUS
  <2>2. Joined(f, s, 0)
    BY <2>1 DEF Joined
  <2> QED
    BY <2>2
<1>2. ASSUME NEW k \in Nat, k \in T
      PROVE  k + 1 \in T
  <2>1. PICK f : Joined(f, s, k)
    BY <1>2
  <2> DEFINE last == IF k = 0 THEN s[k + 1] ELSE f[k] \o s[k + 1]
             g == [j \in 1 .. k + 1 |-> IF j = k + 1 THEN last ELSE f[j]]
             h == [j \in 1 .. k + 1 |-> IF j = 1 THEN s[j] ELSE g[j - 1] \o s[j]]
  <2>2. \A j \in 1 .. k : f[j] = IF j = 1 THEN s[j] ELSE f[j - 1] \o s[j]
    BY <2>1 DEF Joined
  <2>3. ASSUME NEW j \in 1 .. k + 1 PROVE g[j] = IF j = 1 THEN s[j] ELSE g[j - 1] \o s[j]
    <3>1. \A m \in 1 .. k : g[m] = f[m]
      OBVIOUS
    <3>2. CASE j = k + 1
      <4>1. g[j] = last
        BY <3>2
      <4>2. j # 1 => k \in 1 .. k /\ j - 1 = k
        BY <3>2
      <4>3. j # 1 => g[j - 1] = f[k]
        BY <3>1, <4>2
      <4> HIDE DEF g
      <4> QED
        BY <3>2, <4>1, <4>3
    <3>3. CASE j # k + 1
      <4>1. j \in 1 .. k /\ (j # 1 => j - 1 \in 1 .. k)
        BY <3>3
      <4> HIDE DEF g
      <4> QED
        BY <2>2, <3>1, <4>1
    <3> QED
      BY <3>2, <3>3
  <2>4. g = h
    <3>1. g = [j \in 1 .. k + 1 |-> g[j]]
      OBVIOUS
    <3> HIDE DEF g
    <3> QED
      BY <2>3, <3>1
  <2>5. Joined(g, s, k + 1)
    BY <2>4 DEF Joined
  <2> QED
    BY <2>5
<1> HIDE DEF T
<1>3. Nat \subseteq T
  BY <1>1, <1>2, AllNumbers
<1> QED
  BY <1>3 DEF T

LEMMA FlattenOf ==
    ASSUME NEW S, NEW s, NEW n \in Nat, Len(s) = n, n = 0 => s = <<>>,
           \A k \in 1 .. n : s[k] \in Seq(S)
    PROVE  FlattenSeq(s) \in Seq(S)
<1> DEFINE flat == CHOOSE f : f = [i \in 1 .. n |-> IF i = 1 THEN s[i] ELSE f[i - 1] \o s[i]]
<1>1. n # 0 => FlattenSeq(s) = flat[n]
  BY DEF FlattenSeq
<1>2. n = 0 => FlattenSeq(s) = <<>>
  BY DEF FlattenSeq
<1> HIDE DEF flat
<1>3. flat = [i \in 1 .. n |-> IF i = 1 THEN s[i] ELSE flat[i - 1] \o s[i]]
  <2>1. \E f : f = [i \in 1 .. n |-> IF i = 1 THEN s[i] ELSE f[i - 1] \o s[i]]
    BY JoinedExist DEF Joined
  <2> QED
    BY <2>1, Zenon DEF flat
<1> DEFINE U == {k \in 0 .. n : k # 0 => flat[k] \in Seq(S)}
<1>4. 0 \in U
  OBVIOUS
<1>5. ASSUME NEW k \in 1 .. n, k - 1 \in U PROVE k \in U
  <2>1. CASE k = 1
    <3>1. flat[k] = s[k]
      BY <1>3, <2>1
    <3> QED
      BY <3>1
  <2>2. CASE k # 1
    <3>1. flat[k] = flat[k - 1] \o s[k]
      BY <1>3, <2>2
    <3> DEFINE a == flat[k - 1]
               b == s[k]
    <3>2. a \in Seq(S) /\ b \in Seq(S)
      BY <1>5, <2>2
    <3> HIDE DEF a, b
    <3>3. a \o b \in Seq(S)
      BY <3>2, ConcatProperties
    <3>4. flat[k] \in Seq(S)
      BY <3>1, <3>3 DEF a, b
    <3> QED
      BY <3>4
  <2> QED
    BY <2>1, <2>2
<1> HIDE DEF U
<1>6. 0 .. n \subseteq U
  BY <1>4, <1>5, StaysTo
<1>7. n # 0 => flat[n] \in Seq(S)
  BY <1>6 DEF U
<1>8. n = 0 => FlattenSeq(s) \in Seq(S)
  <2>1. <<>> \in Seq(S)
    OBVIOUS
  <2> QED
    BY <1>2, <2>1, Zenon
<1>9. n # 0 => FlattenSeq(s) \in Seq(S)
  BY <1>1, <1>7
<1> HIDE DEF flat
<1> QED
  BY <1>8, <1>9

LEMMA LoadedOf ==
    ASSUME NotionShape(notion), NEW t \in Row
    PROVE  LoadedRows(t) \in Seq(Row)
<1> DEFINE blk == notion.blk
           kids == Ascending({b \in Live(notion) : notion.blk[b].parent = t.id})
           n == Len(kids)
           hasKids(b) == \E c \in Live(notion) : notion.blk[c].parent = b
           Piece(b, k) == [BlankRow EXCEPT
               !.id = b, !.parent = t.id, !.depth = t.depth + 1, !.kind = notion.blk[b].kind,
               !.ver = notion.blk[b].body[k], !.cont = k > 1,
               !.hasKids = \E c \in Live(notion) : notion.blk[c].parent = b]
           s == [j \in DOMAIN kids |->
                   [k \in DOMAIN notion.blk[kids[j]].body |-> Piece(kids[j], k)]]
<1>1. LoadedRows(t) = FlattenSeq(s)
  BY Zenon DEF LoadedRows
<1>2. n \in Nat /\ DOMAIN kids = 1 .. n /\ \A j \in 1 .. n : kids[j] \in 1 .. Len(blk)
  <2> DEFINE K == {b \in Live(notion) : notion.blk[b].parent = t.id}
             L == Len(blk)
  <2>1. L \in Nat /\ K \subseteq 1 .. L
    BY LiveIn, RowAt DEF NotionShape
  <2> HIDE DEF K, L
  <2>2. K \subseteq Nat /\ IsFiniteSet(K)
    <3>1. IsFiniteSet(1 .. L)
      BY <2>1, FS_Interval
    <3> DEFINE T == 1 .. L
    <3>2. T \subseteq Nat
      BY <2>1
    <3> HIDE DEF T
    <3> QED
      BY <2>1, <3>1, <3>2, FS_Subset DEF T
  <2> DEFINE a == Ascending(K)
  <2>3. a \in Seq(K)
    BY <2>2, AscendingOf
  <2> HIDE DEF a
  <2>4. Len(a) \in Nat /\ DOMAIN a = 1 .. Len(a) /\ \A j \in 1 .. Len(a) : a[j] \in K
    BY <2>3, RowAt
  <2> QED
    BY <2>1, <2>4 DEF a, K, L
<1>3. BlankRow \in Row /\ BlankRow.serial = 0
  BY DEF BlankRow, Row, NoId, Page, Kinds
<1>4. t.id \in Int /\ t.depth + 1 \in Nat
  BY DEF Row
<1>5. ASSUME NEW b \in 1 .. Len(blk), NEW k \in DOMAIN notion.blk[b].body
      PROVE  Piece(b, k) \in Row
  <2> DEFINE kind == notion.blk[b].kind
             body == notion.blk[b].body
             ver == body[k]
             cont == k > 1
             has == hasKids(b)
             id == t.id
             depth == t.depth + 1
  <2>1. kind \in Kinds /\ body \in Seq(Nat) /\ b \in Int
    BY RowAt DEF NotionShape
  <2> HIDE DEF body
  <2>2. ver \in Nat
    <3>1. k \in DOMAIN body
      BY <1>5 DEF body
    <3> QED
      BY <2>1, <3>1, RowAt
  <2>3. cont \in BOOLEAN /\ has \in BOOLEAN /\ id \in Int /\ depth \in Nat
    BY <1>4
  <2> HIDE DEF kind, ver, cont, has, id, depth
  <2>4. [BlankRow EXCEPT !.id = b, !.parent = id, !.depth = depth, !.kind = kind,
                         !.ver = ver, !.cont = cont, !.hasKids = has] \in Row
    BY <1>3, <2>1, <2>2, <2>3 DEF Row
  <2> QED
    BY <2>4 DEF kind, ver, cont, has, id, depth, body
<1> HIDE DEF Piece, kids
<1>6. s = [j \in 1 .. n |-> s[j]]
  BY <1>2
<1>7. \A j \in 1 .. n : s[j] = [k \in DOMAIN notion.blk[kids[j]].body |-> Piece(kids[j], k)]
  BY <1>2
<1> HIDE DEF s
<1>8. ASSUME NEW j \in 1 .. n PROVE s[j] \in Seq(Row)
  <2> DEFINE b == kids[j]
             body == notion.blk[b].body
             w == s[j]
  <2>1. b \in 1 .. Len(blk)
    BY <1>2
  <2> HIDE DEF b
  <2>2. body \in Seq(Nat)
    BY <2>1 DEF NotionShape
  <2>3. \A k \in DOMAIN body : Piece(b, k) \in Row
    BY <1>5, <2>1
  <2>4. w = [k \in DOMAIN body |-> Piece(b, k)]
    BY <1>7 DEF b
  <2> HIDE DEF body, w
  <2>5. Len(body) \in Nat /\ DOMAIN body = 1 .. Len(body)
    BY <2>2, RowAt
  <2>6. w = [k \in 1 .. Len(body) |-> w[k]] /\ \A k \in 1 .. Len(body) : w[k] \in Row
    BY <2>3, <2>4, <2>5
  <2>7. w \in Seq(Row)
    BY <2>5, <2>6, Mapped
  <2> QED
    BY <2>7 DEF w
<1> HIDE DEF n
<1>9. Len(s) = n /\ (n = 0 => s = <<>>)
  <2>1. s \in Seq(Seq(Row)) /\ Len(s) = n
    BY <1>2, <1>6, <1>8, Mapped
  <2>2. n = 0 => s = <<>>
    BY <2>1
  <2> QED
    BY <2>1, <2>2
<1> QED
  BY <1>1, <1>2, <1>8, <1>9, FlattenOf

LEMMA TakenOf ==
    ASSUME rows \in RowLists, NEW packed \in Seq(Row)
    PROVE  /\ Taken(packed) \in Seq(Row)
           /\ Len(rows) + Len(Taken(packed)) <= MaxRows
<1> DEFINE room == MaxRows - Len(rows)
           n == IF Len(packed) <= room THEN Len(packed) ELSE room
           Torn(r) == \E k \in room + 1 .. Len(packed) : packed[k].id = r.id
           w == [k \in 1 .. n |-> [packed[k] EXCEPT !.cut = Torn(packed[k])]]
<1>1. Taken(packed) = w
  BY Zenon DEF Taken
<1>2. /\ Len(rows) \in Nat /\ room \in Nat /\ Len(packed) \in Nat /\ MaxRows \in Nat
      /\ \A k \in 1 .. Len(packed) : packed[k] \in Row
  <2>1. Len(rows) \in 1 .. MaxRows /\ MaxRows \in Nat
    BY RowInList
  <2> QED
    BY <2>1, RowAt
<1>3. n \in Nat /\ n <= room /\ Len(rows) + n <= MaxRows /\ \A k \in 1 .. n : k \in 1 .. Len(packed)
  BY <1>2
<1>4. \A r : Torn(r) \in BOOLEAN
  OBVIOUS
<1> HIDE DEF n, room, Torn
<1>5. ASSUME NEW k \in 1 .. n PROVE [packed[k] EXCEPT !.cut = Torn(packed[k])] \in Row
  <2> DEFINE r == packed[k]
             b == Torn(r)
  <2>1. r \in Row /\ b \in BOOLEAN
    BY <1>2, <1>3, <1>4
  <2> HIDE DEF r, b
  <2>2. [r EXCEPT !.cut = b] \in Row
    BY <2>1 DEF Row
  <2> QED
    BY <2>2 DEF r, b
<1>6. w = [k \in 1 .. n |-> w[k]] /\ \A k \in 1 .. n : w[k] \in Row
  BY <1>5
<1> HIDE DEF w
<1>7. w \in Seq(Row) /\ Len(w) = n
  BY <1>3, <1>6, Mapped
<1> QED
  BY <1>1, <1>3, <1>7

LEMMA LoadToggleTyped ==
    ASSUME SaveInv, NEW i \in DOMAIN rows, LoadToggle(i)
    PROVE  Edited
<1> DEFINE kids == LoadedRows(rows[i])
           b == ~FitsPage(kids)
           open == [rows EXCEPT ![i].open = TRUE, ![i].partial = ~FitsPage(kids)]
           shown == [rows EXCEPT ![i].open = TRUE]
           evicted == ToggleCacheEvict(cache, rows[i].id)
           taken == Taken(kids)
           w == InsertFresh(open, i + 1, taken, Held)
           Told(a) == [app EXCEPT !.needsReload = @ \/ a = "expired"]
<1>1. /\ cache' = evicted /\ UNCHANGED <<del, queue, run, defer, list, req>>
      /\ \/ UNCHANGED <<rows, app>>
         \/ rows' = w /\ app' = app
         \/ rows' = shown /\ \E a \in {"down", "expired"} : app' = Told(a)
  <2>1. LoadToggle(i) =>
      /\ cache' = evicted /\ UNCHANGED <<saveVars, icon, thread, req, notion, edits, refused>>
      /\ \/ UNCHANGED <<rows, app>>
         \/ rows' = w /\ app' = app
         \/ rows' = shown /\ app' \in {Told(a) : a \in {"down", "expired"} \cap Answers}
    BY Zenon DEF LoadToggle
  <2> HIDE DEF evicted, w, shown, Told
  <2> QED
    BY <2>1 DEF saveVars
<1>2. /\ rows \in RowLists /\ cache \in Caches /\ i \in 1 .. Len(rows) /\ Len(rows) \in Nat
      /\ rows[i] \in Row /\ 1 \in 1 .. Len(rows) /\ rows \in Seq(Row)
  BY ScreenTyped, RowInList
<1>3. kids \in Seq(Row)
  BY <1>2, LoadedOf DEF SaveInv
<1>4. b \in BOOLEAN
  BY DEF FitsPage
<1> HIDE DEF kids
<1>5. taken \in Seq(Row) /\ Len(rows) + Len(taken) <= MaxRows
  BY <1>2, <1>3, TakenOf
<1> HIDE DEF taken
<1>6. open \in RowLists /\ InPlace(open, rows)
  <2> DEFINE r == rows[i]
             o == [r EXCEPT !.open = TRUE, !.partial = b]
  <2>1. open = [rows EXCEPT ![i] = o]
    BY <1>2
  <2> HIDE DEF open, b, r
  <2>2. o \in Row /\ o.serial = r.serial
    BY <1>2, <1>4 DEF Row, r
  <2> HIDE DEF o
  <2> QED
    BY <1>2, <2>1, <2>2, OneChanged DEF r
<1>7. shown \in RowLists /\ InPlace(shown, rows)
  BY <1>2, OpenedOf
<1>8. Held \in SUBSET Nat /\ IsFiniteSet(Held)
  BY HeldTyped
<1> HIDE DEF open, shown, b
<1>9. w \in RowLists /\ w[1] = open[1]
  <2> DEFINE at == i + 1
  <2>1. /\ open \in Seq(Row) /\ Len(open) = Len(rows) /\ at \in 1 .. Len(open) + 1
        /\ 1 \in 1 .. at - 1
    BY <1>2, <1>6, RowInList DEF InPlace
  <2> HIDE DEF at
  <2> DEFINE v == InsertFresh(open, at, taken, Held)
  <2>2. v \in Seq(Row) /\ Inserted(v, open, at, taken)
    BY <1>5, <1>8, <2>1, InsertFreshOf
  <2> HIDE DEF v
  <2>3. Len(v) = Len(rows) + Len(taken) /\ v[1] = open[1]
    BY <2>1, <2>2 DEF Inserted
  <2>4. Len(taken) \in Nat /\ MaxRows \in Nat /\ Len(rows) \in 1 .. MaxRows
    BY <1>2, <1>5, RowAt, RowInList
  <2>5. v \in RowLists
    BY <1>5, <2>2, <2>3, <2>4 DEF RowLists
  <2> QED
    BY <2>3, <2>5 DEF v, at
<1> HIDE DEF w
<1>10. /\ w[1].serial = rows[1].serial
       /\ shown[1].serial = rows[1].serial
  BY <1>2, <1>6, <1>7, <1>9 DEF InPlace
<1>11. evicted \in Caches
  BY <1>2, EvictTyped
<1>12. Typed /\ app \in App
  BY TypedOK, ScreenTyped DEF SaveInv, TypeOK, ControlOK
<1>13. \A a : Told(a) \in App
  BY <1>12 DEF App
<1> HIDE DEF evicted, Told
<1>14. rows' \in RowLists /\ app' \in App /\ rows'[1].serial = rows[1].serial
  BY <1>1, <1>2, <1>7, <1>9, <1>10, <1>12, <1>13
<1>15. Typed' /\ cache' \in Caches
  BY <1>1, <1>11, <1>12, <1>14 DEF Typed
<1>16. FirstRowStays' /\ DeleteHasCopy'
  BY <1>1, <1>14 DEF SaveInv, FirstRowStays, DeleteHasCopy
<1> QED
  BY <1>15, <1>16 DEF Edited

LEMMA EditTyped ==
    ASSUME SaveInv, NEW i \in DOMAIN rows, EditStep(i)
    PROVE  Edited
<1>1. CASE \E kind \in Retypes : Retype(i, kind) \/ Add(i, kind)
  BY <1>1, RetypeTyped, AddTyped
<1>2. CASE \E up \in BOOLEAN : Move(i, up)
  BY <1>2, MoveTyped
<1> QED
  BY <1>1, <1>2, TypeTyped, IndentTyped, SplitTyped, DeletePieceTyped, DeleteBlockTyped,
     CloseToggleTyped, OpenFromCacheTyped, LoadToggleTyped DEF EditStep

LEMMA EditKeepsNotion ==
    ASSUME NEW i, EditStep(i)
    PROVE  notion' = notion
<1>1. (Type(i) => notion' = notion) /\ (Indent(i) => notion' = notion)
      /\ (DeletePiece(i) => notion' = notion)
  BY DEF Type, Indent, DeletePiece, Shows
<1>2. /\ \A kind : Retype(i, kind) => notion' = notion
      /\ \A up : Move(i, up) => notion' = notion
  BY DEF Retype, Move, Shows
<1>3. (Split(i) => notion' = notion) /\ \A kind : Add(i, kind) => notion' = notion
  <2>1. ASSUME NEW rs, NEW row, NEW hasDirty, AddBlock(rs, i, row, hasDirty)
        PROVE  notion' = notion
    BY <2>1 DEF AddBlock
  <2> QED
    BY <2>1 DEF Split, Add
<1>4. (DeleteBlock(i) => notion' = notion) /\ (CloseToggle(i) => notion' = notion)
      /\ (OpenFromCache(i) => notion' = notion)
  BY DEF DeleteBlock, CloseToggle, OpenFromCache
<1>5. LoadToggle(i) => notion' = notion
  <2>1. LoadToggle(i) => UNCHANGED <<saveVars, icon, thread, req, notion, edits, refused>>
    BY Zenon DEF LoadToggle
  <2> QED
    BY <2>1
<1> QED
  BY <1>1, <1>2, <1>3, <1>4, <1>5 DEF EditStep

-----------------------------------------------------------------------------
(* Every step keeps the invariant.                                         *)
LEMMA InitSave == Init => SaveInv
<1> SUFFICES ASSUME Init PROVE SaveInv
  OBVIOUS
<1>1. PICK p \in Pages : /\ rows = p.rows
                         /\ notion = [title |-> <<0>>, icon |-> <<0>>, blk |-> p.blk]
  BY DEF Init
<1>2. /\ p.rows \in Seq(Row) /\ Len(p.rows) \in 1 .. MaxRows /\ p.blk \in Seq(NotionBlk)
      /\ \A b \in DOMAIN p.blk : p.blk[b].parent < b
  BY PagesAssumption
<1>3. FlagsInv
  BY InitFlags
<1>4. NotionShape(notion)
  <2> DEFINE blk == p.blk
  <2>1. DOMAIN blk = 1 .. Len(blk) /\ \A b \in 1 .. Len(blk) : blk[b] \in NotionBlk
    BY <1>2, RowAt
  <2>2. \A b \in 1 .. Len(blk) : blk[b].parent < b
    BY <1>2, <2>1
  <2>3. /\ DOMAIN notion = {"title", "icon", "blk"} /\ notion.blk = blk /\ blk \in Seq(NotionBlk)
    BY <1>1, <1>2
  <2> HIDE DEF blk
  <2>4. ASSUME NEW b \in 1 .. Len(blk)
        PROVE  /\ DOMAIN blk[b] = {"kind", "body", "parent", "gone", "of"}
               /\ blk[b].kind \in Kinds /\ blk[b].body \in Seq(Nat)
               /\ blk[b].parent \in 0 .. b - 1
    <3> DEFINE e == blk[b]
    <3>1. e \in NotionBlk /\ e.parent < b
      BY <2>1, <2>2
    <3> HIDE DEF e
    <3>2. /\ DOMAIN e = {"kind", "body", "parent", "gone", "of"}
          /\ e.kind \in Kinds /\ e.body \in Seq(Nat) /\ e.parent \in Nat
      BY <3>1 DEF NotionBlk
    <3> QED
      BY <3>1, <3>2 DEF e
  <2> QED
    BY <2>3, <2>4 DEF NotionShape
<1>5. FirstRowStays /\ DeleteHasCopy /\ req = NoReq
  BY DEF Init, FirstRowStays, DeleteHasCopy, NoReq
<1>6. ControlOK
  BY SaveAssumption DEF Init, ControlOK, App
<1>7. /\ cache \in Seq(CacheEntry) /\ Len(cache) <= ToggleSlots
      /\ queue \in Seq(Nat \ {0})
      /\ defer \in Seq([oldId : Int, newId : Int, covered : BOOLEAN, kidsLeft : BOOLEAN])
  BY BlocksAssumption DEF Init
<1>8. /\ del \in [rows : Seq(Row), after : Nat, idx : Nat]
      /\ run \in Run /\ list \in [icon : Nat, title : Nat]
  BY DEF Init, NoDel, Run
<1> QED
  BY <1>1, <1>2, <1>3, <1>4, <1>5, <1>6, <1>7, <1>8, NoReqTyped DEF SaveInv, TypeOK

(* A handler's next request is one of a save. *)
LEMMA LeavesRequest ==
    ASSUME Leaves(app)
    PROVE  FirstRowStays' /\ DeleteHasCopy' /\ req'.op \in Sent \cup {"none"}
BY DEF Leaves, Sent, FirstRowStays, DeleteHasCopy, NoReq

LEMMA NextControl ==
    ASSUME SaveInv, [Next]_vars
    PROVE  ControlOK' /\ FlagsInv'
<1>1. FlagsInv'
  BY NextFlags DEF SaveInv
<1>2. icon' \in Nat /\ edits' \in 0 .. MaxEdits
  BY NextVersions DEF SaveInv, TypeOK
<1> QED
  BY <1>1, <1>2 DEF ControlOK, FlagsInv

LEMMA NextSave == SaveInv /\ [Next]_vars => SaveInv'
<1> SUFFICES ASSUME SaveInv, [Next]_vars PROVE SaveInv'
  OBVIOUS
<1>1. ControlOK' /\ FlagsInv'
  BY NextControl
<1>2. Typed /\ cache \in Caches /\ ControlOK /\ FlagsInv
  BY TypedOK, ScreenTyped DEF SaveInv, TypeOK
<1>3. ControlOK' /\ cache' \in Caches => (Typed' <=> TypeOK')
  BY DEF Typed, TypeOK, RowLists, Caches, Copies, Indices, Waiting, OldCopy, Titles, ControlOK
<1> SUFFICES Typed' /\ cache' \in Caches /\ NotionShape(notion)' /\ FirstRowStays' /\ DeleteHasCopy'
  BY <1>1, <1>3 DEF SaveInv
<1>4. CASE /\ UNCHANGED <<rows, del, cache, queue, run, defer, list, req, notion>>
           /\ app' \in App
  BY <1>2, <1>4 DEF SaveInv, Typed, FirstRowStays, DeleteHasCopy
<1>5. app' \in App
  BY <1>1 DEF ControlOK
<1>6. CASE PickIcon
  BY <1>4, <1>5, <1>6 DEF PickIcon, saveVars
<1>7. CASE Save
  <2>1. /\ rows' \in RowLists /\ InPlace(rows', rows) /\ queue' \in Indices /\ run' \in Run
        /\ UNCHANGED <<cache, del, icon, defer, list, req, notion, edits>>
    BY <1>7, doSaveTyped DEF Save
  <2>2. 1 \in 1 .. Len(rows)
    BY ScreenTyped, RowInList
  <2> QED
    BY <1>2, <1>5, <2>1, <2>2 DEF SaveInv, Typed, FirstRowStays, DeleteHasCopy, InPlace
<1>8. CASE \E i \in DOMAIN rows : EditStep(i)
  <2>1. PICK i \in DOMAIN rows : EditStep(i)
    BY <1>8
  <2>2. Edited /\ notion' = notion
    BY <2>1, EditTyped, EditKeepsNotion
  <2> QED
    BY <2>2 DEF Edited, SaveInv
<1>9. CASE StartSave
  <2>1. Typed' /\ UNCHANGED <<cache, notion>>
    BY <1>9, StartSaveTyped DEF StartSave
  <2>2. Leaves(app)
    <3>1. Tidy(Memory) /\ Memory.app = app
      BY <1>2, FlagsTidy, MemoryIsMem
    <3> QED
      BY <1>9, <3>1, ContinueQueueLeaves DEF StartSave
  <2> QED
    BY <1>2, <2>1, <2>2, LeavesRequest DEF SaveInv
<1>10. CASE StartApi \/ EndThread
  BY <1>4, <1>5, <1>10 DEF StartApi, EndThread, saveVars, editVars
<1>11. CASE \E a \in Outcomes : Respond(a)
  <2>1. PICK a \in Outcomes : Respond(a)
    BY <1>11
  <2>2. Typed' /\ NotionShape(notion') /\ cache' = cache
    BY <2>1, RespondSave DEF Respond
  <2>3. Leaves(app)
    BY <1>2, <2>1, RespondLeaves
  <2> QED
    BY <1>2, <2>2, <2>3, LeavesRequest
<1>12. CASE FlushPageCache
  BY <1>4, <1>5, <1>12 DEF FlushPageCache, saveVars, editVars
<1>13. CASE UNCHANGED vars
  BY <1>4, <1>5, <1>13 DEF vars
<1> QED
  BY <1>6, <1>7, <1>8, <1>9, <1>10, <1>11, <1>12, <1>13 DEF Next, UserStep, ThreadStep

(* Every variable keeps its type, whatever the user does and Notion        *)
(* answers: see TypeOK.  So no row is outside pageElm's room, the page     *)
(* never loses its title's row, and no index in a save queue is 0.         *)
THEOREM SaveTypes == Spec => []TypeOK
<1>1. SaveInv => TypeOK
  BY DEF SaveInv
<1> QED
  BY InitSave, NextSave, <1>1, PTL DEF Spec

-----------------------------------------------------------------------------
(* What is live in Notion has not gone.                                    *)
LiveFn(f, nt, n) == f = [b \in 1 .. n |->
                            /\ nt.blk[b].gone = "no"
                            /\ nt.blk[b].parent = Page \/ f[nt.blk[b].parent]]

LEMMA LiveFnExists ==
    ASSUME NEW nt, NEW n \in Nat, \A b \in 1 .. n : nt.blk[b].parent \in 0 .. b - 1
    PROVE  \E f : LiveFn(f, nt, n)
<1> DEFINE T == {k \in Nat : k <= n => \E f : LiveFn(f, nt, k)}
<1>1. 0 \in T
  <2> DEFINE f == [b \in 1 .. 0 |-> TRUE]
             g == [b \in 1 .. 0 |-> /\ nt.blk[b].gone = "no"
                                    /\ nt.blk[b].parent = Page \/ f[nt.blk[b].parent]]
  <2>1. f = g
    OBVIOUS
  <2>2. LiveFn(f, nt, 0)
    BY <2>1 DEF LiveFn
  <2> QED
    BY <2>2
<1>2. ASSUME NEW k \in Nat, k \in T
      PROVE  k + 1 \in T
  <2> SUFFICES ASSUME k + 1 <= n PROVE \E f : LiveFn(f, nt, k + 1)
    OBVIOUS
  <2>1. PICK f : LiveFn(f, nt, k)
    BY <1>2
  <2> DEFINE up(b) == nt.blk[b].parent
             no(b) == nt.blk[b].gone = "no"
             last == no(k + 1) /\ (up(k + 1) = Page \/ f[up(k + 1)])
             g == [b \in 1 .. k + 1 |-> IF b = k + 1 THEN last ELSE f[b]]
             h == [b \in 1 .. k + 1 |-> no(b) /\ (up(b) = Page \/ g[up(b)])]
  <2>2. \A b \in 1 .. k : f[b] = (no(b) /\ (up(b) = Page \/ f[up(b)]))
    BY <2>1 DEF LiveFn
  <2>3. \A b \in 1 .. k + 1 : up(b) \in 0 .. b - 1
    OBVIOUS
  <2> HIDE DEF up, no
  <2>4. \A b \in 1 .. k : g[b] = f[b]
    OBVIOUS
  <2>5. \A b \in 1 .. k + 1 : up(b) # Page => g[up(b)] = f[up(b)]
    <3>1. \A b \in 1 .. k + 1 : up(b) # Page => up(b) \in 1 .. k
      BY <2>3 DEF Page
    <3> HIDE DEF g
    <3> QED
      BY <2>4, <3>1
  <2>6. \A b \in 1 .. k + 1 : (no(b) /\ (up(b) = Page \/ g[up(b)]))
                            = (no(b) /\ (up(b) = Page \/ f[up(b)]))
    <3> HIDE DEF g
    <3> QED
      BY <2>5
  <2>7. \A b \in 1 .. k + 1 : g[b] = (no(b) /\ (up(b) = Page \/ f[up(b)]))
    <3>1. g[k + 1] = last
      OBVIOUS
    <3>2. \A b \in 1 .. k + 1 : b = k + 1 \/ b \in 1 .. k
      OBVIOUS
    <3> HIDE DEF g
    <3> QED
      BY <2>2, <2>4, <3>1, <3>2
  <2>8. g = h
    <3>1. g = [b \in 1 .. k + 1 |-> g[b]]
      OBVIOUS
    <3> HIDE DEF g
    <3>2. \A b \in 1 .. k + 1 : g[b] = (no(b) /\ (up(b) = Page \/ g[up(b)]))
      BY <2>6, <2>7
    <3> QED
      BY <3>1, <3>2
  <2>9. LiveFn(g, nt, k + 1)
    BY <2>8 DEF LiveFn, up, no
  <2> QED
    BY <2>9
<1> HIDE DEF T
<1>3. Nat \subseteq T
  BY <1>1, <1>2, AllNumbers
<1> QED
  BY <1>3 DEF T

LEMMA LiveIsThere ==
    ASSUME NEW nt, NotionShape(nt), NEW b \in Live(nt)
    PROVE  b \in 1 .. Len(nt.blk) /\ nt.blk[b].gone = "no"
<1> DEFINE n == Len(nt.blk)
           live == CHOOSE f : f = [c \in 1 .. n |->
                        /\ nt.blk[c].gone = "no"
                        /\ nt.blk[c].parent = Page \/ f[nt.blk[c].parent]]
<1>1. Live(nt) = {c \in 1 .. n : live[c]}
  BY DEF Live
<1>2. n \in Nat /\ \A c \in 1 .. n : nt.blk[c].parent \in 0 .. c - 1
  BY RowAt DEF NotionShape
<1> HIDE DEF n
<1>3. \E f : LiveFn(f, nt, n)
  BY <1>2, LiveFnExists
<1>4. live = [c \in 1 .. n |-> /\ nt.blk[c].gone = "no"
                               /\ nt.blk[c].parent = Page \/ live[nt.blk[c].parent]]
  BY <1>3 DEF LiveFn
<1> HIDE DEF live
<1>5. b \in 1 .. n /\ live[b]
  BY <1>1
<1>6. live[b] = (/\ nt.blk[b].gone = "no"
                 /\ nt.blk[b].parent = Page \/ live[nt.blk[b].parent])
  BY <1>4, <1>5
<1> QED
  BY <1>5, <1>6 DEF n

(* A delete that Notion confirms changes what it holds.                    *)
LEMMA DeleteChanges ==
    ASSUME NEW nt, NotionShape(nt), NEW r \in Request, r.op = "delete",
           NEW a, MayAnswer(nt, r, a), Status200(a)
    PROVE  Effect(nt, r, a) # nt
<1>1. a = "ok"
  BY DEF MayAnswer, Inserts, Status200
<1>2. r.id \in Live(nt)
  BY <1>1 DEF MayAnswer, Acceptable
<1> DEFINE b == r.id
           s == Served(nt, r)
<1>3. b \in 1 .. Len(nt.blk) /\ nt.blk[b].gone = "no"
  BY <1>2, LiveIsThere
<1>4. s = [nt EXCEPT !.blk[b].gone = "deleted"]
  BY DEF Served, Inserts
<1>5. PICK S : nt.blk \in Seq(S)
  BY DEF NotionShape
<1>6. b \in DOMAIN nt.blk /\ "blk" \in DOMAIN nt /\ "gone" \in DOMAIN nt.blk[b]
  BY <1>3, <1>5, RowAt DEF NotionShape
<1> HIDE DEF b
<1>7. s.blk[b].gone = "deleted"
  BY <1>4, <1>6
<1>8. Effect(nt, r, a) = s
  BY <1>1 DEF Effect
<1> HIDE DEF s
<1> QED
  BY <1>3, <1>7, <1>8

-----------------------------------------------------------------------------
(* While the program is busy the user only types and turns blocks, when no *)
(* triangle may be clicked: the rows stay where they are.                  *)
LEMMA BusyEdit ==
    ASSUME SaveInv, ClickWhileBusy = FALSE, busy, NEW i \in DOMAIN rows, EditStep(i)
    PROVE  InPlace(rows', rows) /\ del' = del /\ req' = req
<1>1. (\E kind \in Retypes : Retype(i, kind)) \/ Type(i)
  <2>1. ~Indent(i) /\ ~DeletePiece(i) /\ ~DeleteBlock(i) /\ \A up : ~Move(i, up)
    BY DEF Indent, DeletePiece, DeleteBlock, Move
  <2>2. ~Split(i) /\ \A kind : ~Add(i, kind)
    <3>1. \A rs, row, hasDirty : ~AddBlock(rs, i, row, hasDirty)
      BY DEF AddBlock
    <3> QED
      BY <3>1 DEF Split, Add
  <2>3. ~MayClick(i)
    BY DEF MayClick
  <2>4. ~CloseToggle(i) /\ ~OpenFromCache(i) /\ ~LoadToggle(i)
    BY <2>3 DEF CloseToggle, OpenFromCache, LoadToggle
  <2> QED
    BY <2>1, <2>2, <2>4 DEF EditStep
<1>2. /\ Type(i) => del' = del /\ req' = req
      /\ \A kind : Retype(i, kind) => del' = del /\ req' = req
  BY DEF Type, Retype, Shows, saveVars
<1>3. /\ Type(i) => InPlace(rows', rows)
      /\ \A kind \in Retypes : Retype(i, kind) => InPlace(rows', rows)
  BY TypeTyped, RetypeTyped
<1> QED
  BY <1>1, <1>2, <1>3

LEMMA NextSteady ==
    ASSUME SaveInv, ClickWhileBusy = FALSE, [Next]_vars, queue # <<>>
    PROVE  InPlace(rows', rows)
<1>1. app.isSaving /\ saving /\ busy /\ thread = "save"
  BY DEF SaveInv, FlagsInv, BusyOwned, saving, busy
<1>2. rows' = rows => InPlace(rows', rows)
  BY DEF InPlace
<1>3. CASE PickIcon \/ StartApi \/ EndThread \/ FlushPageCache \/ UNCHANGED vars
  BY <1>2, <1>3 DEF PickIcon, StartApi, EndThread, FlushPageCache, vars, editVars
<1>4. ~Save
  BY <1>1 DEF Save, doSave
<1>5. CASE \E i \in DOMAIN rows : EditStep(i)
  BY <1>1, <1>5, BusyEdit
<1>6. CASE StartSave
  BY <1>6, StartSaveTyped
<1>7. CASE \E a \in Outcomes : Respond(a)
  <2>1. PICK a \in Outcomes : Respond(a)
    BY <1>7
  <2>2. req.op \in Sent
    BY <1>1, <2>1 DEF SaveInv, FlagsInv, ThreadState, Respond
  <2> QED
    BY <2>1, <2>2, RespondSave
<1> QED
  BY <1>3, <1>4, <1>5, <1>6, <1>7 DEF Next, UserStep, ThreadStep

(* Rows do not shift under a running save, when no triangle can be clicked *)
(* during one: see QueueSteady.                                            *)
THEOREM SteadyQueue ==
    ASSUME ClickWhileBusy = FALSE
    PROVE  Spec => QueueSteady
<1> DEFINE Step == queue # <<>> => /\ Len(rows') = Len(rows)
                                   /\ \A k \in DOMAIN rows : rows'[k].serial = rows[k].serial
<1>1. ASSUME SaveInv, [Next]_vars PROVE [Step]_vars
  <2>1. DOMAIN rows = 1 .. Len(rows)
    BY <1>1, ScreenTyped, RowInList
  <2> QED
    BY <1>1, <2>1, NextSteady DEF InPlace
<1> QED
  BY InitSave, NextSave, <1>1, PTL DEF Spec, QueueSteady

-----------------------------------------------------------------------------
(* The copy of a deleted block is there only while its delete is out, and  *)
(* the rows leave room for it.                                             *)
CopyHeld == del # NoDel => req.op = "delete"
CopyFits == req.op = "delete" => Len(rows) + Len(del.rows) <= MaxRows

CopyInv == SaveInv /\ CopyHeld /\ CopyFits

LEMMA IdleEdit ==
    ASSUME SaveInv, NEW i \in DOMAIN rows, EditStep(i), ~DeleteBlock(i)
    PROVE  del' = del /\ (req' = req \/ req'.op = "add")
<1>1. /\ Type(i) => del' = del /\ req' = req
      /\ Indent(i) => del' = del /\ req' = req
      /\ DeletePiece(i) => del' = del /\ req' = req
      /\ \A up : Move(i, up) => del' = del /\ req' = req
      /\ \A kind : Retype(i, kind) => del' = del /\ req' = req
  BY DEF Type, Indent, DeletePiece, Move, Retype, Shows, saveVars
<1>2. \A kind : (Split(i) \/ Add(i, kind)) => del' = del /\ (req' = req \/ req'.op = "add")
  <2>1. ASSUME NEW rs, NEW row, NEW hasDirty, AddBlock(rs, i, row, hasDirty)
        PROVE  del' = del /\ (req' = req \/ req'.op = "add")
    BY <2>1 DEF AddBlock, saveVars, NoReq
  <2> QED
    BY <2>1 DEF Split, Add
<1>3. (CloseToggle(i) \/ OpenFromCache(i)) => del' = del /\ req' = req
  BY DEF CloseToggle, OpenFromCache, saveVars
<1>4. LoadToggle(i) => del' = del /\ req' = req
  <2>1. LoadToggle(i) => UNCHANGED <<saveVars, icon, thread, req, notion, edits, refused>>
    BY Zenon DEF LoadToggle
  <2> QED
    BY <2>1 DEF saveVars
<1> QED
  BY <1>1, <1>2, <1>3, <1>4 DEF EditStep

LEMMA NextCopy ==
    ASSUME CopyInv, ClickWhileBusy = FALSE, [Next]_vars
    PROVE  CopyHeld' /\ CopyFits'
<1>1. /\ SaveInv /\ FlagsInv /\ (req.op # "delete" => del = NoDel)
      /\ req.op = "delete" => Len(rows) + Len(del.rows) <= MaxRows
  BY DEF CopyInv, CopyHeld, CopyFits, SaveInv
<1>2. CASE req'.op # "delete" /\ del' = NoDel
  BY <1>2 DEF CopyHeld, CopyFits
<1>3. CASE req' = req /\ del' = del /\ (req.op = "delete" => Len(rows') = Len(rows))
  BY <1>1, <1>3 DEF CopyHeld, CopyFits
<1>4. CASE PickIcon \/ StartApi \/ EndThread \/ FlushPageCache \/ UNCHANGED vars
  BY <1>3, <1>4 DEF PickIcon, StartApi, EndThread, FlushPageCache, vars, editVars, saveVars
<1>5. CASE Save
  BY <1>1, <1>3, <1>5, doSaveTyped DEF Save, InPlace
<1>6. CASE \E i \in DOMAIN rows : EditStep(i)
  <2>1. PICK i \in DOMAIN rows : EditStep(i)
    BY <1>6
  <2>2. CASE busy
    BY <1>1, <1>3, <2>1, <2>2, BusyEdit DEF InPlace
  <2>3. CASE ~busy /\ ~DeleteBlock(i)
    <3>1. req.op = "none" /\ del' = del /\ (req' = req \/ req'.op = "add")
      BY <1>1, <2>1, <2>3, IdleRequest, IdleEdit
    <3> QED
      BY <1>1, <1>2, <3>1
  <2>4. CASE ~busy /\ DeleteBlock(i)
    <3>1. del = NoDel
      BY <1>1, <2>4, IdleRequest
    <3>2. /\ del' # NoDel => req'.op = "delete" \/ del' = del
          /\ req'.op = "delete" => Len(rows') + Len(del'.rows) <= MaxRows
      BY <1>1, <2>4, DeleteBlockTyped
    <3> QED
      BY <3>1, <3>2 DEF CopyHeld, CopyFits
  <2> QED
    BY <2>2, <2>3, <2>4
<1>7. CASE StartSave
  <2>1. req.op = "none"
    BY <1>1, <1>7 DEF StartSave, FlagsInv, ThreadState
  <2>2. del' = del
    BY <1>1, <1>7, StartSaveTyped
  <2>3. Leaves(app)
    <3>1. Tidy(Memory) /\ Memory.app = app
      BY <1>1, FlagsTidy, MemoryIsMem
    <3> QED
      BY <1>7, <3>1, ContinueQueueLeaves DEF StartSave
  <2>4. req'.op # "delete"
    BY <2>3, LeavesRequest DEF Sent
  <2> QED
    BY <1>1, <1>2, <2>1, <2>2, <2>4
<1>8. CASE \E a \in Outcomes : Respond(a)
  <2>1. PICK a \in Outcomes : Respond(a)
    BY <1>8
  <2>2. del' = NoDel
    BY <1>1, <2>1, RespondSave
  <2>3. req'.op # "delete"
    BY <1>1, <2>1, RespondLeaves, LeavesRequest DEF Sent
  <2> QED
    BY <1>2, <2>2, <2>3
<1> QED
  BY <1>4, <1>5, <1>6, <1>7, <1>8 DEF Next, UserStep, ThreadStep

LEMMA NextBack ==
    ASSUME CopyInv, ClickWhileBusy = FALSE, [Next]_vars,
           del # NoDel, del' = NoDel, notion' = notion
    PROVE  Len(rows') = Len(rows) + Len(del.rows)
<1>1. /\ SaveInv /\ FlagsInv /\ req.op = "delete"
      /\ Len(rows) + Len(del.rows) <= MaxRows
  BY DEF CopyInv, CopyHeld, CopyFits, SaveInv
<1>2. busy
  BY <1>1, IdleRequest
<1>3. del' # del
  OBVIOUS
<1>4. CASE PickIcon \/ StartApi \/ EndThread \/ FlushPageCache \/ UNCHANGED vars
  BY <1>3, <1>4 DEF PickIcon, StartApi, EndThread, FlushPageCache, vars, editVars, saveVars
<1>5. CASE Save
  BY <1>1, <1>3, <1>5, doSaveTyped DEF Save
<1>6. CASE \E i \in DOMAIN rows : EditStep(i)
  BY <1>1, <1>2, <1>3, <1>6, BusyEdit
<1>7. CASE StartSave
  BY <1>1, <1>3, <1>7, StartSaveTyped
<1>8. CASE \E a \in Outcomes : Respond(a)
  <2>1. PICK a \in Outcomes : Respond(a)
    BY <1>8
  <2>2. ~Status200(a)
    <3>1. NotionShape(notion) /\ req \in Request
      BY <1>1 DEF SaveInv, TypeOK
    <3>2. Respond(a) => MayAnswer(notion, req, a) /\ notion' = Effect(notion, req, a)
      BY Zenon DEF Respond
    <3> QED
      BY <1>1, <2>1, <3>1, <3>2, DeleteChanges
  <2> QED
    BY <1>1, <2>1, <2>2, RespondSave
<1> QED
  BY <1>4, <1>5, <1>6, <1>7, <1>8 DEF Next, UserStep, ThreadStep

(* When Notion does not confirm a delete, every row of the block is put    *)
(* back, and there is room for all of them, when no triangle can be        *)
(* clicked while the delete is out: see NothingVanishes.                   *)
THEOREM CopyComesBack ==
    ASSUME ClickWhileBusy = FALSE
    PROVE  Spec => NothingVanishes
<1> DEFINE Step == del # NoDel /\ del' = NoDel /\ notion' = notion
                      => Len(rows') = Len(rows) + Len(del.rows)
<1>1. Init => CopyInv
  <2>1. Init => CopyHeld /\ CopyFits
    BY DEF Init, CopyHeld, CopyFits, NoReq
  <2> QED
    BY <2>1, InitSave DEF CopyInv
<1>2. CopyInv /\ [Next]_vars => CopyInv'
  <2> SUFFICES ASSUME CopyInv, [Next]_vars PROVE CopyInv'
    OBVIOUS
  <2>1. SaveInv'
    BY NextSave DEF CopyInv
  <2>2. CopyHeld' /\ CopyFits'
    BY NextCopy DEF CopyHeld, CopyFits
  <2> QED
    BY <2>1, <2>2 DEF CopyInv
<1>3. CopyInv /\ [Next]_vars => [Step]_vars
  BY NextBack
<1> QED
  BY <1>1, <1>2, <1>3, PTL DEF Spec, NothingVanishes
=============================================================================
