-------------------------- MODULE PageCacheProofs --------------------------
(***************************************************************************)
(* The disk cache implements its abstract specification whatever writes    *)
(* are torn or lost, if the checksum tells each payload from the mixtures  *)
(* a torn write can leave (SumsTell).                                      *)
(***************************************************************************)
EXTENDS PageCacheFile, ListProofs

(* A used entry was written for the payload kept[s]; what lies in the area *)
(* now is put together from payloads.                                      *)
EntryOK(s) ==
    header[s].len > 0 =>
        /\ header[s].page \in PageIds
        /\ kept[s] \in Payloads /\ Fits(kept[s])
        /\ header[s].len = Len(kept[s])
        /\ header[s].sum = Checksum16(kept[s])
        /\ \A i \in 1 .. header[s].len : areas[s][i] \in BytesAt(i)

(* No page has two entries. *)
OneEntry == \A s, t \in Slots :
    header[s].len > 0 /\ header[t].len > 0 /\ header[s].page = header[t].page => s = t

HeaderTyped == /\ header = [s \in Slots |-> header[s]]
               /\ \A s \in Slots : header[s].len \in Nat /\ header[s].saved \in Nat
               /\ kept = [s \in Slots |-> kept[s]]
               /\ \A s \in Slots : kept[s] \in Payloads \cup {Nothing}
               /\ areas = [s \in Slots |-> areas[s]]
               /\ clock \in Nat

(* The save in progress works on the slot it picked, with the header it    *)
(* read; before the header is written its payload lies in the area.        *)
JobOK ==
    \/ job = Idle
    \/ /\ job.pc = "payload"
       /\ job.slot = PickSaveSlot(header, job.page) /\ job.image = header
       /\ job.page \in PageIds /\ job.bytes \in Payloads /\ Fits(job.bytes)
    \/ /\ job.pc = "header"
       /\ job.page \in PageIds /\ job.bytes \in Payloads /\ Fits(job.bytes)
       /\ job.slot = PickSaveSlot(header, job.page)
       /\ \E t \in Nat :
             job.image = [header EXCEPT ![job.slot] = Entry(job.page, job.bytes, t)]
       /\ \A i \in 1 .. Len(job.bytes) : areas[job.slot][i] = job.bytes[i]
    \/ /\ job.pc = "header"
       /\ job.bytes = Nothing
       /\ job.page \in PageIds
       /\ job.slot = PickSaveSlot(header, job.page)
       /\ FindSlotForPage(header, job.page) # 0
       /\ job.image = [header EXCEPT ![job.slot] = Empty]

CacheInv == HeaderTyped /\ OneEntry /\ (\A s \in Slots : EntryOK(s)) /\ JobOK

-----------------------------------------------------------------------------
(* Slots.                                                                  *)

LEMMA LeastIn ==
    ASSUME NEW T, T \subseteq Nat, T # {}
    PROVE  Least(T) \in T
BY HasLeast DEF Least

LEMMA SlotsNat == Slots \subseteq Nat /\ 0 \notin Slots /\ 1 \in Slots
BY CacheAssumption DEF Slots

(* FindSlotForPage finds an entry of the page exactly when there is one. *)
LEMMA FindFinds ==
    ASSUME NEW h, NEW p
    PROVE  \/ /\ FindSlotForPage(h, p) = 0
              /\ \A s \in Slots : ~(h[s].len > 0 /\ h[s].page = p)
           \/ /\ FindSlotForPage(h, p) \in Slots
              /\ h[FindSlotForPage(h, p)].len > 0
              /\ h[FindSlotForPage(h, p)].page = p
<1> DEFINE own == {s \in Slots : h[s].len > 0 /\ h[s].page = p}
<1>1. CASE own = {}
  BY <1>1 DEF FindSlotForPage
<1>2. CASE own # {}
  <2>1. Least(own) \in own
    BY <1>2, LeastIn, SlotsNat
  <2> QED
    BY <1>2, <2>1 DEF FindSlotForPage
<1> QED
  BY <1>1, <1>2

(* A page with one entry is found there. *)
LEMMA FindUnique ==
    ASSUME NEW h, NEW p, NEW s \in Slots, h[s].len > 0, h[s].page = p,
           \A t \in Slots : h[t].len > 0 /\ h[t].page = p => t = s
    PROVE  FindSlotForPage(h, p) = s
BY FindFinds

LEMMA PickIsSlot ==
    ASSUME NEW h, NEW p, \A s \in Slots : h[s].saved \in Nat
    PROVE  PickSaveSlot(h, p) \in Slots
<1> DEFINE empty  == {s \in Slots : h[s].len = 0}
           oldest == {s \in Slots : \A t \in Slots : h[s].saved <= h[t].saved}
           dates  == {h[s].saved : s \in Slots}
<1>1. oldest # {}
  <2>1. dates \subseteq Nat /\ dates # {}
    BY SlotsNat
  <2>2. PICK d \in dates : \A e \in dates : d <= e
    BY <2>1, HasLeast
  <2>3. PICK s \in Slots : h[s].saved = d
    OBVIOUS
  <2>4. s \in oldest
    BY <2>2, <2>3
  <2> QED
    BY <2>4
<1>2. empty # {} => Least(empty) \in Slots
  BY LeastIn, SlotsNat
<1>3. Least(oldest) \in Slots
  BY <1>1, LeastIn, SlotsNat
<1> QED
  BY <1>2, <1>3, FindFinds DEF PickSaveSlot

(* A page that has an entry is saved into it. *)
LEMMA PickOwn ==
    ASSUME NEW h, NEW p, FindSlotForPage(h, p) # 0
    PROVE  PickSaveSlot(h, p) = FindSlotForPage(h, p)
BY DEF PickSaveSlot

-----------------------------------------------------------------------------
(* Payloads.                                                               *)

LEMMA PayloadTyped ==
    ASSUME NEW x \in Payloads
    PROVE  /\ x \in Seq(Nat) /\ Len(x) \in Nat \ {0}
           /\ x = [i \in 1 .. Len(x) |-> x[i]]
           /\ x # Nothing
BY CacheAssumption

LEMMA OwnBytes ==
    ASSUME NEW x \in Payloads, Fits(x), NEW i \in 1 .. Len(x)
    PROVE  x[i] \in BytesAt(i)
BY PayloadTyped DEF BytesAt

LEMMA OverlaidByte ==
    ASSUME NEW area, NEW x, NEW k, NEW i \in 1 .. SlotSize
    PROVE  Overlay(area, x, k)[i] = IF i <= k THEN x[i] ELSE area[i]
BY DEF Overlay

(* Writing some bytes of a payload into an area leaves it put together     *)
(* from payloads.                                                          *)
LEMMA EntrySurvivesWrite ==
    ASSUME NEW s \in Slots, NEW d \in Slots, EntryOK(s),
           NEW x \in Payloads, Fits(x), NEW k \in 0 .. Len(x),
           areas = [t \in Slots |-> areas[t]],
           areas' = [areas EXCEPT ![d] = Overlay(@, x, k)],
           UNCHANGED <<header, kept>>
    PROVE  EntryOK(s)'
<1>1. SUFFICES ASSUME header[s].len > 0, NEW i \in 1 .. header[s].len
               PROVE  areas'[s][i] \in BytesAt(i)
  BY DEF EntryOK
<1>2. i \in 1 .. SlotSize /\ areas[s][i] \in BytesAt(i)
  BY <1>1, PayloadTyped, CacheAssumption DEF EntryOK, Fits
<1>3. CASE s = d /\ i <= k
  <2>1. areas'[s][i] = x[i]
    BY <1>2, <1>3, OverlaidByte
  <2> QED
    BY <1>2, <1>3, <2>1, OwnBytes, PayloadTyped
<1>4. CASE ~(s = d /\ i <= k)
  BY <1>2, <1>4, OverlaidByte
<1> QED
  BY <1>3, <1>4

-----------------------------------------------------------------------------
(* The invariant.                                                          *)

LEMMA IdlePc == Idle.pc = "idle" /\ Idle.bytes = Nothing
BY DEF Idle, Job

LEMMA PayloadJob ==
    ASSUME CacheInv, job.pc = "payload"
    PROVE  /\ job.slot = PickSaveSlot(header, job.page) /\ job.slot \in Slots
           /\ job.image = header /\ job.page \in PageIds
           /\ job.bytes \in Payloads /\ Fits(job.bytes)
<1>1. /\ job.slot = PickSaveSlot(header, job.page)
      /\ job.image = header /\ job.page \in PageIds
      /\ job.bytes \in Payloads /\ Fits(job.bytes)
  BY IdlePc DEF CacheInv, JobOK
<1> QED
  BY <1>1, PickIsSlot DEF CacheInv, HeaderTyped

LEMMA HeaderJob ==
    ASSUME CacheInv, job.pc = "header"
    PROVE  /\ job.slot = PickSaveSlot(header, job.page) /\ job.slot \in Slots
           /\ job.page \in PageIds
           /\ \/ /\ job.bytes \in Payloads /\ Fits(job.bytes) /\ job.bytes # Nothing
                 /\ \E t \in Nat :
                      job.image = [header EXCEPT ![job.slot] = Entry(job.page, job.bytes, t)]
                 /\ \A i \in 1 .. Len(job.bytes) : areas[job.slot][i] = job.bytes[i]
              \/ /\ job.bytes = Nothing
                 /\ FindSlotForPage(header, job.page) # 0
                 /\ job.image = [header EXCEPT ![job.slot] = Empty]
<1>1. job # Idle
  BY IdlePc
<1>2. job.slot = PickSaveSlot(header, job.page) /\ job.page \in PageIds
  BY <1>1 DEF CacheInv, JobOK
<1>3. job.slot \in Slots
  BY <1>2, PickIsSlot DEF CacheInv, HeaderTyped
<1>4. CASE job.bytes = Nothing
  BY <1>1, <1>2, <1>3, <1>4, PayloadTyped DEF CacheInv, JobOK
<1>5. CASE job.bytes # Nothing
  BY <1>1, <1>2, <1>3, <1>5 DEF CacheInv, JobOK
<1> QED
  BY <1>4, <1>5

LEMMA InitCache == Init => CacheInv
<1> SUFFICES ASSUME Init PROVE CacheInv
  OBVIOUS
<1>1. HeaderTyped
  BY CacheAssumption DEF Init, HeaderTyped, Empty
<1>2. OneEntry /\ \A s \in Slots : EntryOK(s)
  BY DEF Init, OneEntry, EntryOK, Empty
<1> QED
  BY <1>1, <1>2 DEF Init, CacheInv, JobOK

LEMMA BeginCache ==
    ASSUME CacheInv, NEW p \in PageIds, NEW x \in Payloads, BeginSave(p, x)
    PROVE  CacheInv'
<1> DEFINE s == PickSaveSlot(header, p)
<1>1. HeaderTyped' /\ OneEntry' /\ \A t \in Slots : EntryOK(t)'
  BY DEF CacheInv, BeginSave, HeaderTyped, OneEntry, EntryOK
<1>2. CASE Fits(x)
  <2>1. /\ job'.pc = "payload" /\ job'.page = p /\ job'.bytes = x
        /\ job'.slot = s /\ job'.image = header
    BY <1>2 DEF BeginSave, Job
  <2>2. header' = header
    BY DEF BeginSave
  <2> QED
    BY <1>1, <1>2, <2>1, <2>2 DEF CacheInv, JobOK
<1>3. CASE ~Fits(x) /\ FindSlotForPage(header, p) = 0
  BY <1>1, <1>3 DEF CacheInv, JobOK, BeginSave
<1>4. CASE ~Fits(x) /\ FindSlotForPage(header, p) # 0
  <2>1. /\ job'.pc = "header" /\ job'.page = p /\ job'.bytes = Nothing
        /\ job'.slot = s /\ job'.image = [header EXCEPT ![s] = Empty]
    BY <1>4 DEF BeginSave, Job
  <2>2. header' = header
    BY DEF BeginSave
  <2> QED
    BY <1>1, <1>4, <2>1, <2>2 DEF CacheInv, JobOK
<1> QED
  BY <1>2, <1>3, <1>4

LEMMA WritePayloadCache ==
    ASSUME CacheInv, WritePayload
    PROVE  CacheInv'
<1>1. /\ job.page \in PageIds /\ job.bytes \in Payloads /\ Fits(job.bytes)
      /\ job.slot = PickSaveSlot(header, job.page) /\ job.image = header
  BY PayloadJob DEF WritePayload
<1>2. job.slot \in Slots /\ Len(job.bytes) \in Nat
  BY <1>1, PickIsSlot, PayloadTyped DEF CacheInv, HeaderTyped
<1>3. HeaderTyped' /\ OneEntry'
  BY DEF CacheInv, WritePayload, HeaderTyped, OneEntry
<1>4. \A s \in Slots : EntryOK(s)'
  <2>1. TAKE s \in Slots
  <2>2. /\ areas' = [areas EXCEPT ![job.slot] = Overlay(@, job.bytes, Len(job.bytes))]
        /\ UNCHANGED <<header, kept>> /\ Len(job.bytes) \in 0 .. Len(job.bytes)
        /\ areas = [t \in Slots |-> areas[t]] /\ EntryOK(s)
    BY <1>2 DEF WritePayload, CacheInv, HeaderTyped
  <2> QED
    BY <1>1, <1>2, <2>2, EntrySurvivesWrite
<1>5. /\ job'.pc = "header" /\ job'.page = job.page /\ job'.bytes = job.bytes
      /\ job'.slot = job.slot
      /\ job'.image = [header EXCEPT ![job.slot] = Entry(job.page, job.bytes, clock)]
  BY <1>1 DEF WritePayload, Job
<1>6. \A i \in 1 .. Len(job.bytes) : areas'[job.slot][i] = job.bytes[i]
  <2>1. TAKE i \in 1 .. Len(job.bytes)
  <2>2. i \in 1 .. SlotSize
    BY <1>1, <1>2, CacheAssumption DEF Fits
  <2>3. areas'[job.slot] = Overlay(areas[job.slot], job.bytes, Len(job.bytes))
    BY <1>2 DEF WritePayload, CacheInv, HeaderTyped
  <2> QED
    BY <1>2, <2>2, <2>3, OverlaidByte
<1>7. header' = header /\ clock \in Nat
  BY DEF WritePayload, CacheInv, HeaderTyped
<1>8. JobOK'
  BY <1>1, <1>5, <1>6, <1>7 DEF JobOK
<1> QED
  BY <1>3, <1>4, <1>8 DEF CacheInv

LEMMA TearCache ==
    ASSUME CacheInv, NEW k \in 0 .. SlotSize, TearPayload(k)
    PROVE  CacheInv'
<1>1. job.bytes \in Payloads /\ Fits(job.bytes) /\ job.slot = PickSaveSlot(header, job.page)
  BY PayloadJob DEF TearPayload
<1>2. job.slot \in Slots /\ k \in 0 .. Len(job.bytes)
  <2>1. job.slot \in Slots /\ Len(job.bytes) \in Nat
    BY <1>1, PayloadJob, PayloadTyped DEF TearPayload
  <2>2. k \in Nat /\ k < Len(job.bytes)
    BY CacheAssumption DEF TearPayload
  <2> QED
    BY <2>1, <2>2
<1>3. HeaderTyped' /\ OneEntry'
  BY DEF CacheInv, TearPayload, HeaderTyped, OneEntry
<1>4. \A s \in Slots : EntryOK(s)'
  <2>1. TAKE s \in Slots
  <2>2. /\ areas' = [areas EXCEPT ![job.slot] = Overlay(@, job.bytes, k)]
        /\ UNCHANGED <<header, kept>>
        /\ areas = [t \in Slots |-> areas[t]] /\ EntryOK(s)
    BY DEF TearPayload, CacheInv, HeaderTyped
  <2> QED
    BY <1>1, <1>2, <2>2, EntrySurvivesWrite
<1> QED
  BY <1>3, <1>4 DEF CacheInv, JobOK, TearPayload

LEMMA WriteHeaderCache ==
    ASSUME CacheInv, WriteHeader
    PROVE  CacheInv'
<1>1. /\ job.page \in PageIds
      /\ job.slot = PickSaveSlot(header, job.page)
      /\ header' = job.image /\ areas' = areas /\ clock' = clock
      /\ job' = Idle /\ kept' = [kept EXCEPT ![job.slot] = job.bytes]
      /\ header = [s \in Slots |-> header[s]] /\ kept = [s \in Slots |-> kept[s]]
  BY HeaderJob DEF WriteHeader, CacheInv, HeaderTyped
<1>2. job.slot \in Slots
  BY <1>1, PickIsSlot DEF CacheInv, HeaderTyped
<1>3. CASE job.bytes = Nothing
  <2>1. header' = [header EXCEPT ![job.slot] = Empty]
    BY <1>1, <1>3, HeaderJob DEF WriteHeader
  <2>2. \A s \in Slots : header'[s] = IF s = job.slot THEN Empty ELSE header[s]
    BY <1>1, <1>2, <2>1
  <2>3. HeaderTyped'
    <3>1. header' = [s \in Slots |-> header'[s]] /\ kept' = [s \in Slots |-> kept'[s]]
      BY <1>1, <2>1
    <3>2. \A s \in Slots : header'[s].len \in Nat /\ header'[s].saved \in Nat
      BY <2>2 DEF CacheInv, HeaderTyped, Empty
    <3>3. \A s \in Slots : kept'[s] \in Payloads \cup {Nothing}
      BY <1>1, <1>2, <1>3 DEF CacheInv, HeaderTyped
    <3> QED
      BY <1>1, <3>1, <3>2, <3>3 DEF CacheInv, HeaderTyped
  <2>4. OneEntry' /\ \A s \in Slots : EntryOK(s)'
    BY <1>1, <1>2, <2>2 DEF CacheInv, OneEntry, EntryOK, Empty
  <2> QED
    BY <1>1, <2>3, <2>4 DEF CacheInv, JobOK
<1>4. CASE job.bytes # Nothing
  <2>1. PICK t \in Nat : header' = [header EXCEPT ![job.slot] = Entry(job.page, job.bytes, t)]
    BY <1>1, <1>4, HeaderJob DEF WriteHeader
  <2>2. /\ job.bytes \in Payloads /\ Fits(job.bytes)
        /\ \A i \in 1 .. Len(job.bytes) : areas[job.slot][i] = job.bytes[i]
    BY <1>4, HeaderJob DEF WriteHeader
  <2>3. /\ header'[job.slot].page = job.page /\ header'[job.slot].saved = t
        /\ header'[job.slot].len = Len(job.bytes)
        /\ header'[job.slot].sum = Checksum16(job.bytes)
        /\ \A s \in Slots \ {job.slot} : header'[s] = header[s] /\ kept'[s] = kept[s]
        /\ kept'[job.slot] = job.bytes
    BY <1>1, <1>2, <2>1 DEF Entry
  <2>4. HeaderTyped'
    <3>1. header' = [s \in Slots |-> header'[s]] /\ kept' = [s \in Slots |-> kept'[s]]
      BY <1>1, <2>1
    <3>2. \A s \in Slots : header'[s].len \in Nat /\ header'[s].saved \in Nat
      BY <2>2, <2>3, PayloadTyped DEF CacheInv, HeaderTyped
    <3>3. \A s \in Slots : kept'[s] \in Payloads \cup {Nothing}
      BY <2>2, <2>3 DEF CacheInv, HeaderTyped
    <3> QED
      BY <1>1, <3>1, <3>2, <3>3 DEF CacheInv, HeaderTyped
  <2>5. \A s \in Slots \ {job.slot} : ~(header[s].len > 0 /\ header[s].page = job.page)
    <3>1. CASE FindSlotForPage(header, job.page) = 0
      BY <3>1, FindFinds, SlotsNat
    <3>2. CASE FindSlotForPage(header, job.page) # 0
      BY <1>1, <3>2, FindFinds, PickOwn DEF CacheInv, OneEntry
    <3> QED
      BY <3>1, <3>2
  <2>6. OneEntry'
    BY <1>2, <2>3, <2>5 DEF CacheInv, OneEntry
  <2>7. \A s \in Slots : EntryOK(s)'
    <3>1. TAKE s \in Slots
    <3>2. CASE s = job.slot
      BY <1>1, <2>2, <2>3, <3>2, OwnBytes DEF EntryOK
    <3>3. CASE s # job.slot
      BY <1>1, <2>3, <3>3 DEF CacheInv, EntryOK
    <3> QED
      BY <3>2, <3>3
  <2> QED
    BY <1>1, <2>4, <2>6, <2>7 DEF CacheInv, JobOK
<1> QED
  BY <1>3, <1>4

LEMMA NextCache == CacheInv /\ [Next]_vars => CacheInv'
<1> SUFFICES ASSUME CacheInv, [Next]_vars PROVE CacheInv'
  OBVIOUS
<1>1. ASSUME NEW p \in PageIds, NEW x \in Payloads, BeginSave(p, x) PROVE CacheInv'
  BY <1>1, BeginCache
<1>2. CASE WritePayload
  BY <1>2, WritePayloadCache
<1>3. ASSUME NEW k \in 0 .. SlotSize, TearPayload(k) PROVE CacheInv'
  BY <1>3, TearCache
<1>4. CASE WriteHeader
  BY <1>4, WriteHeaderCache
<1>5. CASE LoseHeader
  BY <1>5 DEF LoseHeader, CacheInv, HeaderTyped, OneEntry, EntryOK, JobOK
<1>6. CASE UNCHANGED <<header, areas, job, kept>> /\ clock' \in Nat
  BY <1>6 DEF CacheInv, HeaderTyped, OneEntry, EntryOK, JobOK
<1>7. CASE SaveWithoutMemory
  BY <1>6, <1>7 DEF SaveWithoutMemory, CacheInv, HeaderTyped
<1>8. ASSUME NEW p \in PageIds, TryLoadPageFromCache(p) PROVE CacheInv'
  BY <1>6, <1>8 DEF TryLoadPageFromCache, CacheInv, HeaderTyped
<1>9. CASE BypassOnce
  BY <1>6, <1>9 DEF BypassOnce, CacheInv, HeaderTyped
<1>10. CASE Tick
  <2>1. clock' \in Nat
    BY <1>10, CacheAssumption DEF Tick, CacheInv, HeaderTyped
  <2> QED
    BY <1>6, <1>10, <2>1 DEF Tick
<1>11. ASSUME NEW t \in 0 .. ClockMod - 1, SetClock(t) PROVE CacheInv'
  BY <1>6, <1>11, CacheAssumption DEF SetClock
<1>12. CASE UNCHANGED vars
  BY <1>6, <1>12 DEF vars, CacheInv, HeaderTyped
<1> QED
  BY <1>1, <1>2, <1>3, <1>4, <1>5, <1>7, <1>8, <1>9, <1>10, <1>11, <1>12 DEF Next

LEMMA CacheInvariant == Spec => []CacheInv
BY InitCache, NextCache, PTL DEF Spec

-----------------------------------------------------------------------------
(* The refinement.                                                         *)

KeptOf(h, k, p) == LET s == FindSlotForPage(h, p) IN IF s = 0 THEN Nothing ELSE k[s]

LEMMA KeptTyped ==
    ASSUME NEW h, NEW k, \A s \in Slots : k[s] \in Payloads \cup {Nothing}
    PROVE  \A p \in PageIds : KeptOf(h, k, p) \in Payloads \cup {Nothing}
BY FindFinds DEF KeptOf

(* What a vouched slot holds is what its entry was written for. *)
LEMMA VouchedIsKept ==
    ASSUME SumsTell, NEW s \in Slots, EntryOK(s), header[s].len > 0,
           Vouched(header, areas, s)
    PROVE  ReadArea(areas[s], header[s].len) = kept[s]
<1> DEFINE n == Len(kept[s])
           m == ReadArea(areas[s], n)
<1>1. kept[s] \in Payloads /\ Fits(kept[s]) /\ header[s].len = n /\ n \in Nat
      /\ header[s].sum = Checksum16(kept[s])
  BY PayloadTyped DEF EntryOK
<1>2. \A i \in 1 .. n : areas[s][i] \in BytesAt(i)
  BY <1>1 DEF EntryOK
<1>3. m \in Mixtures(n)
  BY <1>2 DEF Mixtures, ReadArea
<1>4. Checksum16(m) = Checksum16(kept[s])
  BY <1>1 DEF Vouched
<1> QED
  BY <1>1, <1>3, <1>4 DEF SumsTell

LEMMA StoreInit == Init => Store!Init
<1> SUFFICES ASSUME Init PROVE Store!Init
  OBVIOUS
<1>1. \A p \in PageIds : FindSlotForPage(header, p) = 0
  BY FindFinds DEF Init, Empty
<1> QED
  BY <1>1, IdlePc DEF Init, Store!Init, Store!NoAsk, NoPage

(* Leaving the directory and the job alone, or ending the job without a    *)
(* word, is no step of the store, or one that forgets nothing.             *)
LEMMA SameStore ==
    ASSUME CacheInv, UNCHANGED <<header, kept, shown>>,
           \/ UNCHANGED job \/ job' = Idle
           \/ job'.page = job.page /\ job'.bytes = job.bytes
    PROVE  [Store!Next]_(Store!storeVars)
<1>1. UNCHANGED [p \in PageIds |->
                   LET s == FindSlotForPage(header, p) IN IF s = 0 THEN Nothing ELSE kept[s]]
  OBVIOUS
<1>2. CASE UNCHANGED job \/ (job'.page = job.page /\ job'.bytes = job.bytes)
  BY <1>1, <1>2 DEF Store!storeVars
<1>3. CASE job' = Idle
  <2>1. Store!Forget
    BY <1>1, <1>3, IdlePc, KeptTyped
       DEF Store!Forget, Store!KeepsOrForgets, Store!NoAsk, NoPage, KeptOf, CacheInv,
           HeaderTyped
  <2> QED
    BY <2>1 DEF Store!Next
<1> QED
  BY <1>2, <1>3

LEMMA BeginStore ==
    ASSUME CacheInv, NEW p \in PageIds, NEW x \in Payloads, BeginSave(p, x)
    PROVE  [Store!Next]_(Store!storeVars)
<1>1. UNCHANGED <<header, kept, shown>> /\ job = Idle /\ job.bytes = Nothing
  BY IdlePc DEF BeginSave
<1>2. CASE Fits(x)
  <2>1. job'.page = p /\ job'.bytes = x /\ x # Nothing
    BY <1>2, PayloadTyped DEF BeginSave, Job
  <2>2. Store!Ask(p, x)
    BY <1>1, <2>1 DEF Store!Ask, Store!NoAsk, NoPage
  <2> QED
    BY <2>2 DEF Store!Next
<1>3. CASE ~Fits(x)
  <2>1. job'.bytes = Nothing
    BY <1>3, IdlePc DEF BeginSave, Job
  <2> QED
    BY <1>1, <2>1 DEF Store!storeVars
<1> QED
  BY <1>2, <1>3

(* Writing the header forgets the page whose slot it was, if it is not the *)
(* saved page's own.                                                       *)
LEMMA HeaderStore ==
    ASSUME CacheInv, CacheInv', WriteHeader
    PROVE  [Store!Next]_(Store!storeVars)
<1>1. /\ job.slot \in Slots /\ job.page \in PageIds /\ job' = Idle /\ UNCHANGED shown
      /\ kept' = [kept EXCEPT ![job.slot] = job.bytes]
      /\ kept = [s \in Slots |-> kept[s]] /\ header = [s \in Slots |-> header[s]]
  BY HeaderJob DEF WriteHeader, CacheInv, HeaderTyped
<1>2. \A s \in Slots \ {job.slot} : header'[s] = header[s] /\ kept'[s] = kept[s]
  BY <1>1, HeaderJob DEF WriteHeader
<1>3. \A q \in PageIds : KeptOf(header', kept', q) \in Payloads \cup {Nothing}
  BY KeptTyped DEF CacheInv, HeaderTyped
<1>4. ASSUME NEW q \in PageIds, ~(header'[job.slot].len > 0 /\ header'[job.slot].page = q)
      PROVE  KeptOf(header', kept', q) \in {KeptOf(header, kept, q), Nothing}
  <2>1. CASE FindSlotForPage(header', q) = 0
    BY <2>1 DEF KeptOf
  <2>2. CASE FindSlotForPage(header', q) # 0
    <3> DEFINE s == FindSlotForPage(header', q)
    <3>1. s \in Slots /\ header'[s].len > 0 /\ header'[s].page = q
      BY <2>2, FindFinds
    <3>2. s # job.slot /\ header[s] = header'[s] /\ kept'[s] = kept[s]
      BY <1>2, <1>4, <3>1
    <3>3. FindSlotForPage(header, q) = s
      BY <3>1, <3>2, FindUnique DEF CacheInv, OneEntry
    <3> QED
      BY <3>2, <3>3, <2>2 DEF KeptOf
  <2> QED
    BY <2>1, <2>2
<1>5. CASE job.bytes = Nothing
  <2>1. header'[job.slot] = Empty
    BY <1>1, <1>5, HeaderJob, PayloadTyped DEF WriteHeader
  <2>2. \A q \in PageIds : KeptOf(header', kept', q) \in {KeptOf(header, kept, q), Nothing}
    BY <1>4, <2>1 DEF Empty
  <2>3. Store!Forget
    BY <1>1, <1>3, <1>5, <2>2, IdlePc
       DEF Store!Forget, Store!KeepsOrForgets, Store!NoAsk, NoPage, KeptOf
  <2> QED
    BY <2>3 DEF Store!Next
<1>6. CASE job.bytes # Nothing
  <2>1. PICK t \in Nat : header' = [header EXCEPT ![job.slot] = Entry(job.page, job.bytes, t)]
    BY <1>6, HeaderJob DEF WriteHeader
  <2>2. job.bytes \in Payloads /\ Len(job.bytes) > 0
    BY <1>6, HeaderJob, PayloadTyped DEF WriteHeader
  <2>3. /\ header'[job.slot].page = job.page /\ header'[job.slot].len > 0
        /\ kept'[job.slot] = job.bytes
    BY <1>1, <2>1, <2>2 DEF Entry
  <2>4. FindSlotForPage(header', job.page) = job.slot
    BY <1>1, <2>3, FindUnique DEF CacheInv, OneEntry
  <2>5. KeptOf(header', kept', job.page) = job.bytes
    BY <1>1, <2>3, <2>4, SlotsNat DEF KeptOf
  <2>6. \A q \in PageIds \ {job.page} : KeptOf(header', kept', q) \in {KeptOf(header, kept, q), Nothing}
    BY <1>4, <2>3
  <2>7. Store!Put
    BY <1>1, <1>3, <1>6, <2>5, <2>6, IdlePc
       DEF Store!Put, Store!KeepsOrForgets, Store!NoAsk, NoPage, KeptOf
  <2> QED
    BY <2>7 DEF Store!Next
<1> QED
  BY <1>5, <1>6

LEMMA LoadStore ==
    ASSUME SumsTell, CacheInv, NEW p \in PageIds, TryLoadPageFromCache(p)
    PROVE  [Store!Next]_(Store!storeVars)
<1> DEFINE s == FindSlotForPage(header, p)
<1>1. UNCHANGED <<header, kept, job>> /\ job.bytes = Nothing
  BY IdlePc DEF TryLoadPageFromCache
<1>2. shown' \in {NoPage, [page |-> p, bytes |-> KeptOf(header, kept, p)]}
  <2>1. CASE ~Hits(p)
    BY <2>1 DEF TryLoadPageFromCache
  <2>2. CASE Hits(p)
    <3>1. s # 0 /\ s \in Slots /\ header[s].len > 0 /\ Vouched(header, areas, s)
      BY <2>2, FindFinds DEF Hits
    <3>2. ReadArea(areas[s], header[s].len) = kept[s]
      BY <3>1, VouchedIsKept DEF CacheInv
    <3> QED
      BY <2>2, <3>1, <3>2 DEF TryLoadPageFromCache, KeptOf
  <2> QED
    BY <2>1, <2>2
<1>3. Store!Load(p)
  BY <1>1, <1>2 DEF Store!Load, Store!NoAsk, NoPage, KeptOf
<1> QED
  BY <1>3 DEF Store!Next

LEMMA NextStore ==
    ASSUME SumsTell, CacheInv, CacheInv', [Next]_vars
    PROVE  [Store!Next]_(Store!storeVars)
<1>1. ASSUME NEW p \in PageIds, NEW x \in Payloads, BeginSave(p, x)
      PROVE  [Store!Next]_(Store!storeVars)
  BY <1>1, BeginStore
<1>2. CASE WritePayload
  BY <1>2, SameStore DEF WritePayload, Job
<1>3. ASSUME NEW k \in 0 .. SlotSize, TearPayload(k) PROVE [Store!Next]_(Store!storeVars)
  BY <1>3, SameStore DEF TearPayload
<1>4. CASE WriteHeader
  BY <1>4, HeaderStore
<1>5. CASE LoseHeader
  BY <1>5, SameStore DEF LoseHeader
<1>6. CASE SaveWithoutMemory \/ BypassOnce \/ Tick \/ UNCHANGED vars
  BY <1>6, SameStore DEF SaveWithoutMemory, BypassOnce, Tick, vars
<1>7. ASSUME NEW t \in 0 .. ClockMod - 1, SetClock(t) PROVE [Store!Next]_(Store!storeVars)
  BY <1>7, SameStore DEF SetClock
<1>8. ASSUME NEW p \in PageIds, TryLoadPageFromCache(p)
      PROVE  [Store!Next]_(Store!storeVars)
  BY <1>8, LoadStore
<1> QED
  BY <1>1, <1>2, <1>3, <1>4, <1>5, <1>6, <1>7, <1>8 DEF Next

(* Whatever writes are torn or lost, in any order and however often, a     *)
(* page is only ever shown as it was last stored for that very page: the   *)
(* file implements the store.  SumsTell is what the 16-bit additive        *)
(* checksum of page_cache.cpp would have to do for all payloads.           *)
THEOREM CacheImplementsStore == ASSUME SumsTell PROVE Spec => ImplementsStore
<1>1. Init => Store!Init
  BY StoreInit
<1>2. CacheInv /\ CacheInv' /\ [Next]_vars => [Store!Next]_(Store!storeVars)
  BY NextStore
<1> QED
  BY <1>1, <1>2, CacheInvariant, PTL DEF Spec, ImplementsStore, Store!Spec

-----------------------------------------------------------------------------
(* The checksum: one of SumMod values.                                     *)

RunningSum(b, n, f) == f = [i \in 0 .. n |-> IF i = 0 THEN 0 ELSE f[i - 1] + b[i]]

LEMMA RunningSumExists ==
    ASSUME NEW b, NEW n \in Nat
    PROVE  \E f : RunningSum(b, n, f)
<1> DEFINE T == {k \in Nat : \E f : RunningSum(b, k, f)}
<1>1. 0 \in T
  <2> DEFINE f == [i \in 0 .. 0 |-> 0]
  <2>1. RunningSum(b, 0, f)
    BY DEF RunningSum
  <2> QED
    BY <2>1
<1>2. ASSUME NEW k \in Nat, k \in T
      PROVE  k + 1 \in T
  <2>1. PICK f : RunningSum(b, k, f)
    BY <1>2
  <2> DEFINE g == [i \in 0 .. k + 1 |-> IF i = k + 1 THEN f[k] + b[k + 1] ELSE f[i]]
             h == [i \in 0 .. k + 1 |-> IF i = 0 THEN 0 ELSE g[i - 1] + b[i]]
  <2>2. \A i \in 0 .. k : f[i] = IF i = 0 THEN 0 ELSE f[i - 1] + b[i]
    BY <2>1 DEF RunningSum
  <2>3. \A i \in 0 .. k + 1 : g[i] = IF i = 0 THEN 0 ELSE g[i - 1] + b[i]
    <3>1. \A i \in 0 .. k : g[i] = f[i]
      OBVIOUS
    <3>2. g[k + 1] = f[k] + b[k + 1]
      OBVIOUS
    <3> QED
      BY <2>2, <3>1, <3>2
  <2>4. g = h
    BY <2>3
  <2>5. RunningSum(b, k + 1, g)
    BY <2>4 DEF RunningSum
  <2> QED
    BY <2>5
<1> HIDE DEF T
<1>3. Nat \subseteq T
  BY <1>1, <1>2, AllNumbers
<1> QED
  BY <1>3 DEF T

LEMMA ChecksumTyped ==
    ASSUME NEW b \in Seq(Nat)
    PROVE  Checksum16(b) \in 0 .. SumMod - 1
<1> DEFINE n == Len(b)
           f == CHOOSE g : g = [i \in 0 .. n |-> IF i = 0 THEN 0 ELSE g[i - 1] + b[i]]
<1>1. n \in Nat /\ Checksum16(b) = f[n] % SumMod
  BY DEF Checksum16
<1>2. f = [i \in 0 .. n |-> IF i = 0 THEN 0 ELSE f[i - 1] + b[i]]
  BY <1>1, RunningSumExists DEF RunningSum
<1>3. \A i \in 1 .. n : b[i] \in Nat
  OBVIOUS
<1> DEFINE T == {k \in Nat : k <= n => f[k] \in Nat}
<1> HIDE DEF n, f
<1>4. 0 \in T
  BY <1>1, <1>2
<1>5. ASSUME NEW k \in Nat, k \in T
      PROVE  k + 1 \in T
  <2>1. k + 1 <= n => f[k + 1] = f[k] + b[k + 1]
    BY <1>1, <1>2
  <2> QED
    BY <1>1, <1>3, <1>5, <2>1
<1>6. f[n] \in Nat
  <2> HIDE DEF T
  <2>1. Nat \subseteq T
    BY <1>4, <1>5, AllNumbers
  <2> QED
    BY <1>1, <2>1 DEF T
<1> QED
  BY <1>1, <1>6, CacheAssumption

-----------------------------------------------------------------------------
(* The types.                                                              *)

LEMMA EmptyTyped == Empty \in Slot
BY CacheAssumption DEF Empty, Slot

LEMMA EntryTyped ==
    ASSUME TypeOK, NEW p \in PageIds, NEW x \in Payloads, Fits(x)
    PROVE  Entry(p, x, clock) \in Slot
<1>1. x \in Seq(Nat) /\ Len(x) \in 0 .. SlotSize
  BY PayloadTyped, CacheAssumption DEF Fits
<1>2. Checksum16(x) \in 0 .. SumMod - 1
  BY <1>1, ChecksumTyped
<1> QED
  BY <1>1, <1>2 DEF TypeOK, Entry, Slot

LEMMA OverlayTyped ==
    ASSUME TypeOK, NEW s \in Slots, NEW x \in Payloads, Fits(x), NEW k \in 0 .. Len(x)
    PROVE  [areas EXCEPT ![s] = Overlay(@, x, k)] \in [Slots -> [1 .. SlotSize -> Nat]]
<1>1. x \in Seq(Nat) /\ Len(x) \in Nat
  BY PayloadTyped
<1>2. \A i \in 1 .. SlotSize : i <= k => x[i] \in Nat
  BY <1>1
<1>3. areas[s] \in [1 .. SlotSize -> Nat]
  BY DEF TypeOK
<1>4. Overlay(areas[s], x, k) \in [1 .. SlotSize -> Nat]
  BY <1>2, <1>3 DEF Overlay
<1> QED
  BY <1>4 DEF TypeOK

LEMMA InitTyped == Init => TypeOK
<1> SUFFICES ASSUME Init PROVE TypeOK
  OBVIOUS
<1>1. header \in [Slots -> Slot]
  BY EmptyTyped DEF Init
<1>2. areas \in [Slots -> [1 .. SlotSize -> Nat]]
  BY DEF Init
<1>3. age \in [0 .. NSlots -> -1 .. ClockMod - 1] /\ clock \in 0 .. ClockMod - 1
  BY CacheAssumption DEF Init
<1>4. job.pc = "idle" /\ bypass \in BOOLEAN
  BY IdlePc DEF Init
<1>5. saves \in 0 .. MaxSaves
  BY CacheAssumption DEF Init
<1> QED
  BY <1>1, <1>2, <1>3, <1>4, <1>5 DEF TypeOK

(* A job that was written down with its type. *)
LEMMA JobTyped ==
    ASSUME NEW pc \in {"payload", "header"}, NEW p \in PageIds,
           NEW x \in Payloads \cup {Nothing}, NEW s \in Slots, NEW h \in [Slots -> Slot],
           job' = Job(pc, p, x, s, h)
    PROVE  /\ job'.pc \in {"idle", "payload", "header"}
           /\ job'.page \in PageIds /\ job'.slot \in Slots
           /\ job'.image \in [Slots -> Slot] /\ job'.bytes \in Payloads \cup {Nothing}
BY DEF Job

LEMMA BeginTyped ==
    ASSUME CacheInv, TypeOK, NEW p \in PageIds, NEW x \in Payloads, BeginSave(p, x)
    PROVE  TypeOK'
<1> DEFINE s == PickSaveSlot(header, p)
<1>1. s \in Slots /\ header \in [Slots -> Slot]
  BY PickIsSlot DEF CacheInv, HeaderTyped, TypeOK
<1>2. [header EXCEPT ![s] = Empty] \in [Slots -> Slot]
  BY <1>1, EmptyTyped
<1>3. \/ job' = Job("payload", p, x, s, header)
      \/ job' = Idle
      \/ job' = Job("header", p, Nothing, s, [header EXCEPT ![s] = Empty])
  BY DEF BeginSave
<1>4. /\ job'.pc \in {"idle", "payload", "header"}
      /\ job'.pc # "idle" => /\ job'.page \in PageIds
                             /\ job'.slot \in Slots
                             /\ job'.image \in [Slots -> Slot]
                             /\ job'.bytes \in Payloads \cup {Nothing}
  <2> HIDE DEF s
  <2> QED
    BY <1>1, <1>2, <1>3, JobTyped, IdlePc
<1>5. saves' \in 0 .. MaxSaves
  BY CacheAssumption DEF BeginSave, TypeOK
<1> QED
  BY <1>4, <1>5 DEF BeginSave, TypeOK

LEMMA WritePayloadTyped ==
    ASSUME CacheInv, TypeOK, WritePayload
    PROVE  TypeOK'
<1>1. /\ job.page \in PageIds /\ job.bytes \in Payloads /\ Fits(job.bytes)
      /\ job.slot \in Slots /\ job.image = header /\ header \in [Slots -> Slot]
  BY PayloadJob DEF WritePayload, TypeOK
<1>2. [job.image EXCEPT ![job.slot] = Entry(job.page, job.bytes, clock)] \in [Slots -> Slot]
  BY <1>1, EntryTyped
<1>3. /\ job'.pc \in {"idle", "payload", "header"}
      /\ job'.page \in PageIds /\ job'.slot \in Slots
      /\ job'.image \in [Slots -> Slot] /\ job'.bytes \in Payloads \cup {Nothing}
  BY <1>1, <1>2, JobTyped DEF WritePayload
<1>4. areas' \in [Slots -> [1 .. SlotSize -> Nat]]
  <2>1. Len(job.bytes) \in 0 .. Len(job.bytes)
    BY <1>1, PayloadTyped
  <2> QED
    BY <1>1, <2>1, OverlayTyped DEF WritePayload
<1>5. age' \in [0 .. NSlots -> -1 .. ClockMod - 1]
  BY CacheAssumption DEF WritePayload, TypeOK
<1> QED
  BY <1>3, <1>4, <1>5 DEF WritePayload, TypeOK

LEMMA NextTyped == CacheInv /\ TypeOK /\ [Next]_vars => TypeOK'
<1> SUFFICES ASSUME CacheInv, TypeOK, [Next]_vars PROVE TypeOK'
  OBVIOUS
<1>1. ASSUME NEW p \in PageIds, NEW x \in Payloads, BeginSave(p, x) PROVE TypeOK'
  BY <1>1, BeginTyped
<1>2. CASE WritePayload
  BY <1>2, WritePayloadTyped
<1>3. ASSUME NEW k \in 0 .. SlotSize, TearPayload(k) PROVE TypeOK'
  <2>1. job.bytes \in Payloads /\ Fits(job.bytes) /\ job.slot \in Slots
    BY <1>3, PayloadJob DEF TearPayload
  <2>2. k \in 0 .. Len(job.bytes)
    BY <1>3, <2>1, PayloadTyped, CacheAssumption DEF TearPayload
  <2>3. areas' \in [Slots -> [1 .. SlotSize -> Nat]]
    BY <1>3, <2>1, <2>2, OverlayTyped DEF TearPayload
  <2> QED
    BY <1>3, <2>3, IdlePc DEF TearPayload, TypeOK
<1>4. CASE WriteHeader
  <2>1. job.slot \in Slots /\ job.image \in [Slots -> Slot] /\ 0 \in 0 .. NSlots
        /\ Slots \subseteq 0 .. NSlots
    BY <1>4, CacheAssumption DEF WriteHeader, TypeOK, Slots
  <2>2. age' \in [0 .. NSlots -> -1 .. ClockMod - 1]
    BY <1>4, <2>1 DEF WriteHeader, TypeOK
  <2> QED
    BY <1>4, <2>1, <2>2, IdlePc DEF WriteHeader, TypeOK
<1>5. CASE LoseHeader
  BY <1>5, IdlePc DEF LoseHeader, TypeOK
<1>6. CASE SaveWithoutMemory
  BY <1>6, CacheAssumption DEF SaveWithoutMemory, TypeOK
<1>7. ASSUME NEW p \in PageIds, TryLoadPageFromCache(p) PROVE TypeOK'
  BY <1>7 DEF TryLoadPageFromCache, TypeOK
<1>8. CASE BypassOnce
  BY <1>8 DEF BypassOnce, TypeOK
<1>9. CASE Tick
  <2>1. clock' \in 0 .. ClockMod - 1
    BY <1>9, CacheAssumption DEF Tick, TypeOK
  <2>2. age' \in [0 .. NSlots -> -1 .. ClockMod - 1]
    BY <1>9, CacheAssumption DEF Tick, TypeOK
  <2> QED
    BY <1>9, <2>1, <2>2 DEF Tick, TypeOK
<1>10. ASSUME NEW t \in 0 .. ClockMod - 1, SetClock(t) PROVE TypeOK'
  BY <1>10, CacheAssumption DEF SetClock, TypeOK
<1>11. CASE UNCHANGED vars
  BY <1>11 DEF vars, TypeOK
<1> QED
  BY <1>1, <1>2, <1>3, <1>4, <1>5, <1>6, <1>7, <1>8, <1>9, <1>10, <1>11 DEF Next

(* The directory, the areas and the save under way keep their types: slot  *)
(* numbers, lengths and checksums fit the fields SavePageCacheNow writes.  *)
THEOREM CacheTyped == Spec => []TypeOK
BY InitTyped, NextTyped, CacheInvariant, PTL DEF Spec

-----------------------------------------------------------------------------
(* The age of what is shown.                                               *)

(* A copy of age a at time t, if the clock was not set since, has the date *)
(* of the moment it was saved.                                             *)
Dated(saved, a, t) == a # -1 => saved + a = t \/ saved + a = t + ClockMod

AgeInv == /\ \A s \in Slots : header[s].len > 0 => Dated(header[s].saved, age[s], clock)
          /\ job.pc = "header" /\ job.bytes # Nothing =>
                 Dated(job.image[job.slot].saved, age[0], clock)

LEMMA NextTime ==
    ASSUME NEW t \in 0 .. ClockMod - 1
    PROVE  (t + 1) % ClockMod = IF t = ClockMod - 1 THEN 0 ELSE t + 1
BY CacheAssumption

LEMMA NextAged == CacheInv /\ TypeOK /\ AgeInv /\ [Next]_vars => AgeInv'
<1> SUFFICES ASSUME CacheInv, TypeOK, AgeInv, [Next]_vars PROVE AgeInv'
  OBVIOUS
<1>1. ASSUME UNCHANGED <<header, clock, age>>,
             \/ UNCHANGED job \/ job' = Idle \/ job'.pc = "payload" \/ job'.bytes = Nothing
      PROVE  AgeInv'
  BY <1>1, IdlePc DEF AgeInv, Dated
<1>2. ASSUME NEW p \in PageIds, NEW x \in Payloads, BeginSave(p, x) PROVE AgeInv'
  BY <1>1, <1>2 DEF BeginSave, Job
<1>3. CASE WritePayload
  <2>1. job.slot \in Slots /\ job.image = header
    BY <1>3, PayloadJob DEF WritePayload
  <2>2. job'.image = [header EXCEPT ![job.slot] = Entry(job.page, job.bytes, clock)]
        /\ job'.slot = job.slot
    BY <1>3, <2>1 DEF WritePayload, Job
  <2>3. job'.image[job'.slot].saved = clock
    BY <2>1, <2>2 DEF TypeOK, Entry
  <2>4. age'[0] = 0 /\ \A s \in Slots : age'[s] = age[s]
    BY <1>3, CacheAssumption DEF WritePayload, TypeOK, Slots
  <2>5. header' = header /\ clock' = clock /\ clock \in Int
    BY <1>3 DEF WritePayload, TypeOK
  <2> QED
    BY <2>3, <2>4, <2>5 DEF AgeInv, Dated
<1>4. ASSUME NEW k \in 0 .. SlotSize, TearPayload(k) PROVE AgeInv'
  BY <1>1, <1>4 DEF TearPayload
<1>5. CASE WriteHeader
  <2>1. job.slot \in Slots /\ Slots \subseteq 0 .. NSlots
    BY <1>5, CacheAssumption DEF WriteHeader, TypeOK, Slots
  <2>2. /\ header' = job.image /\ clock' = clock /\ job'.pc = "idle"
        /\ \A s \in Slots : age'[s] = IF s = job.slot THEN age[0] ELSE age[s]
    BY <1>5, <2>1, IdlePc DEF WriteHeader, TypeOK
  <2>3. \A s \in Slots \ {job.slot} : header'[s] = header[s]
    BY <1>5, <2>2, HeaderJob DEF WriteHeader, TypeOK
  <2>4. header'[job.slot].len > 0 => job.bytes # Nothing
    BY <1>5, <2>1, <2>2, HeaderJob DEF WriteHeader, TypeOK, Empty
  <2> QED
    BY <1>5, <2>2, <2>3, <2>4 DEF AgeInv, Dated, WriteHeader
<1>6. CASE LoseHeader
  BY <1>1, <1>6 DEF LoseHeader
<1>7. CASE SaveWithoutMemory \/ BypassOnce \/ UNCHANGED vars
  BY <1>1, <1>7 DEF SaveWithoutMemory, BypassOnce, vars
<1>8. ASSUME NEW p \in PageIds, TryLoadPageFromCache(p) PROVE AgeInv'
  BY <1>1, <1>8 DEF TryLoadPageFromCache
<1>9. CASE Tick
  <2>1. /\ header' = header /\ job' = job
        /\ clock \in 0 .. ClockMod - 1
        /\ clock' = IF clock = ClockMod - 1 THEN 0 ELSE clock + 1
    BY <1>9, NextTime DEF Tick, TypeOK
  <2>2. \A s \in Slots \cup {0} : age[s] < ClockMod - 1 \/ (s # 0 /\ header[s] = Empty)
    BY <1>9, CacheAssumption DEF Tick, Slots
  <2>3. \A s \in Slots \cup {0} :
           /\ age[s] \in -1 .. ClockMod - 1
           /\ age'[s] = IF age[s] \in 0 .. ClockMod - 2 THEN age[s] + 1 ELSE age[s]
    BY <1>9, CacheAssumption DEF Tick, TypeOK, Slots
  <2>4. ASSUME NEW d \in 0 .. ClockMod - 1, NEW a \in -1 .. ClockMod - 1, a < ClockMod - 1,
               Dated(d, a, clock),
               NEW b, b = IF a \in 0 .. ClockMod - 2 THEN a + 1 ELSE a
        PROVE  Dated(d, b, clock')
    BY <2>1, <2>4, CacheAssumption DEF Dated
  <2>5. ASSUME NEW s \in Slots, header[s].len > 0
        PROVE  Dated(header[s].saved, age'[s], clock')
    <3>1. header[s] # Empty /\ header[s].saved \in 0 .. ClockMod - 1
      BY <2>5 DEF Empty, TypeOK, Slot
    <3>2. Dated(header[s].saved, age[s], clock) /\ age[s] < ClockMod - 1
      BY <2>2, <2>5, <3>1 DEF AgeInv
    <3> QED
      BY <2>3, <2>4, <3>1, <3>2
  <2>6. ASSUME job.pc = "header", job.bytes # Nothing
        PROVE  Dated(job.image[job.slot].saved, age'[0], clock')
    <3>1. job.image[job.slot].saved \in 0 .. ClockMod - 1
      BY <2>6, CacheAssumption DEF TypeOK, Slot
    <3>2. Dated(job.image[job.slot].saved, age[0], clock) /\ age[0] < ClockMod - 1
      BY <2>2, <2>6 DEF AgeInv
    <3> QED
      BY <2>3, <2>4, <3>1, <3>2
  <2> QED
    BY <2>1, <2>5, <2>6 DEF AgeInv
<1>10. ASSUME NEW t \in 0 .. ClockMod - 1, SetClock(t) PROVE AgeInv'
  BY <1>10, CacheAssumption DEF SetClock, AgeInv, Dated, Slots
<1> QED
  BY <1>2, <1>3, <1>4, <1>5, <1>6, <1>7, <1>8, <1>9, <1>10 DEF Next

LEMMA InitAged == Init => AgeInv
BY IdlePc DEF Init, AgeInv, Empty

LEMMA SmallMod ==
    ASSUME NEW a \in 0 .. ClockMod - 1
    PROVE  a % ClockMod = a /\ (a - ClockMod) % ClockMod = a
BY CacheAssumption

(* TryLoadPageFromCache shows nothing older than the TTL, across the       *)
(* clock's wrap, unless the clock was set since the page was saved.        *)
THEOREM CacheFresh == Spec => ShownIsFresh
<1>1. ASSUME CacheInv, TypeOK, AgeInv, NEW p \in PageIds,
             TryLoadPageFromCache(p), shown' # NoPage
      PROVE  age[FindSlotForPage(header, p)] <= TTL
  <2> DEFINE s == FindSlotForPage(header, p)
  <2>1. s \in Slots /\ header[s].len > 0 /\ ~Stale(header[s])
    BY <1>1, FindFinds DEF TryLoadPageFromCache, Hits
  <2>2. /\ age[s] \in -1 .. ClockMod - 1 /\ clock \in 0 .. ClockMod - 1
        /\ header[s].saved \in 0 .. ClockMod - 1 /\ Dated(header[s].saved, age[s], clock)
    <3>1. s \in 0 .. NSlots
      BY <2>1, CacheAssumption DEF Slots
    <3> HIDE DEF s
    <3> QED
      BY <1>1, <2>1, <3>1 DEF TypeOK, AgeInv, Slot
  <2>3. CASE age[s] = -1
    BY <2>3, CacheAssumption
  <2>4. CASE age[s] # -1
    <3> HIDE DEF s
    <3>1. clock - header[s].saved = age[s] \/ clock - header[s].saved = age[s] - ClockMod
      BY <2>2, <2>4, CacheAssumption DEF Dated
    <3>2. age[s] % ClockMod = age[s] /\ (age[s] - ClockMod) % ClockMod = age[s]
      <4>1. age[s] \in 0 .. ClockMod - 1
        BY <2>2, <2>4, CacheAssumption
      <4> QED
        BY <4>1, SmallMod
    <3>3. (clock - header[s].saved) % ClockMod = age[s]
      BY <3>1, <3>2
    <3> QED
      BY <2>1, <2>2, <3>3, CacheAssumption DEF Stale, s
  <2> QED
    BY <2>3, <2>4
<1>2. CacheInv /\ TypeOK /\ AgeInv =>
        [\A p \in PageIds : TryLoadPageFromCache(p) /\ shown' # NoPage =>
            age[FindSlotForPage(header, p)] <= TTL]_vars
  BY <1>1
<1> QED
  BY <1>2, InitAged, NextAged, CacheTyped, CacheInvariant, PTL DEF Spec, ShownIsFresh

-----------------------------------------------------------------------------
(* A save leaves no older copy.                                            *)

LEMMA NotFoundNotStored ==
    ASSUME NEW p, FindSlotForPage(header, p)' = 0
    PROVE  Stored(p)' = Nothing
BY DEF Stored

LEMMA PayloadRead ==
    ASSUME NEW x \in Payloads, NEW area, NEW n, n = Len(x),
           \A i \in 1 .. n : area[i] = x[i]
    PROVE  ReadArea(area, n) = x
BY PayloadTyped DEF ReadArea

(* A copy that is still found after its page's new payload was written,    *)
(* with the header as it was, is that payload: what the old entry vouches  *)
(* for lies under the new bytes, or the new bytes lie under it.            *)
LEMMA OverwrittenIsNew ==
    ASSUME SumsTell, SelfDelimiting, CacheInv, job.pc = "header", job.bytes # Nothing
    PROVE  Stored(job.page) \in {job.bytes, Nothing}
<1> DEFINE p == job.page
           x == job.bytes
           s == FindSlotForPage(header, p)
           y == kept[s]
<1>1. SUFFICES ASSUME s # 0, Vouched(header, areas, s)
               PROVE  Stored(p) = x
  BY DEF Stored
<1>2. s \in Slots /\ header[s].len > 0 /\ s = job.slot
  BY <1>1, FindFinds, PickOwn, HeaderJob
<1>3. x \in Payloads /\ \A i \in 1 .. Len(x) : areas[s][i] = x[i]
  BY <1>2, HeaderJob
<1>4. y \in Payloads /\ ReadArea(areas[s], header[s].len) = y /\ header[s].len = Len(y)
  BY <1>1, <1>2, VouchedIsKept DEF CacheInv, EntryOK
<1>5. Stored(p) = y
  BY <1>1, <1>4 DEF Stored
<1>6. \A i \in 1 .. Len(y) : areas[s][i] = y[i]
  <2>1. \A i \in 1 .. Len(y) : ReadArea(areas[s], Len(y))[i] = areas[s][i]
    BY DEF ReadArea
  <2> HIDE DEF s
  <2> QED
    BY <1>4, <2>1
<1> HIDE DEF s, x, p
<1>7. Len(x) \in Nat /\ Len(y) \in Nat
  BY <1>3, <1>4, PayloadTyped
<1>8. CASE Len(x) <= Len(y)
  <2>1. \A i \in 1 .. Len(x) : x[i] = y[i]
    BY <1>3, <1>6, <1>7, <1>8
  <2> QED
    BY <1>3, <1>4, <1>5, <1>8, <2>1 DEF SelfDelimiting
<1>9. CASE Len(y) <= Len(x)
  <2>1. \A i \in 1 .. Len(y) : y[i] = x[i]
    BY <1>3, <1>6, <1>7, <1>9
  <2> QED
    BY <1>3, <1>4, <1>5, <1>9, <2>1 DEF SelfDelimiting
<1> QED
  BY <1>7, <1>8, <1>9

(* The header that vouches for the new payload is found for its page.      *)
LEMMA HeaderWritten ==
    ASSUME CacheInv, CacheInv', WriteHeader,
           NEW p, NEW x, job.page = p, job.bytes = x, x # Nothing
    PROVE  Stored(p)' \in {x, Nothing}
<1> DEFINE s == job.slot
<1>1. /\ s \in Slots /\ x \in Payloads /\ header' = job.image /\ areas' = areas
      /\ header = [t \in Slots |-> header[t]]
      /\ \A i \in 1 .. Len(x) : areas[s][i] = x[i]
  BY HeaderJob DEF WriteHeader, CacheInv, HeaderTyped
<1>2. PICK t \in Nat : header' = [header EXCEPT ![s] = Entry(p, x, t)]
  BY HeaderJob DEF WriteHeader
<1>3. header'[s].page = p /\ header'[s].len = Len(x) /\ header'[s].len > 0
  BY <1>1, <1>2, PayloadTyped DEF Entry
<1>4. FindSlotForPage(header', p) = s
  BY <1>1, <1>3, FindUnique DEF CacheInv, OneEntry
<1>5. ReadArea(areas'[s], header'[s].len) = x
  BY <1>1, <1>3, PayloadRead
<1> HIDE DEF s
<1> QED
  BY <1>4, <1>5 DEF Stored

(* A page whose entry was struck out is not found.                         *)
LEMMA HeaderStruck ==
    ASSUME CacheInv, WriteHeader, job.bytes = Nothing
    PROVE  FindSlotForPage(header', job.page) = 0
<1> DEFINE s == job.slot
<1>1. s \in Slots /\ header' = [header EXCEPT ![s] = Empty] /\ s = FindSlotForPage(header, job.page)
  BY HeaderJob, PickOwn DEF WriteHeader
<1>2. header[s].len > 0 /\ header[s].page = job.page
  BY <1>1, FindFinds, SlotsNat
<1>3. header'[s].len = 0 /\ \A t \in Slots \ {s} : header'[t] = header[t]
  BY <1>1 DEF CacheInv, HeaderTyped, Empty
<1>4. \A t \in Slots : ~(header'[t].len > 0 /\ header'[t].page = job.page)
  BY <1>1, <1>2, <1>3 DEF CacheInv, OneEntry
<1> QED
  BY <1>4, FindFinds

LEMMA StoredAfter ==
    ASSUME SumsTell, SelfDelimiting, CacheInv, CacheInv', [Next]_vars,
           job.pc = "header", job' = Idle,
           NEW p, NEW x, job.page = p, job.bytes = x, x # Nothing
    PROVE  Stored(p)' \in {x, Nothing}
<1>1. WriteHeader \/ LoseHeader
  BY IdlePc DEF Next, BeginSave, SaveWithoutMemory, WritePayload, TearPayload,
                TryLoadPageFromCache, BypassOnce, Tick, SetClock, vars
<1>2. CASE WriteHeader
  BY <1>2, HeaderWritten
<1>3. CASE LoseHeader
  <2>1. Stored(p) \in {x, Nothing}
    BY OverwrittenIsNew
  <2>2. header' = header /\ areas' = areas
    BY <1>3 DEF LoseHeader
  <2> QED
    BY <2>1, <2>2 DEF Stored, Vouched
<1> QED
  BY <1>1, <1>2, <1>3

(* Whatever is torn, lost or set, a save that got as far as the file       *)
(* leaves nothing older of its page to be loaded.  The payload goes over   *)
(* the page's own slot before the header is written, so that the old entry *)
(* no longer vouches for it (page_cache.cpp, SavePageCacheNow).            *)
THEOREM CacheForgetsOlder ==
    ASSUME SumsTell, SelfDelimiting PROVE Spec => NoOlderCopy
<1>1. ASSUME CacheInv, CacheInv', [Next]_vars, NEW p \in PageIds, NEW x \in Payloads,
             \/ BeginSave(p, x) /\ job' = Idle
             \/ /\ job.pc = "header" /\ job.page = p /\ job' = Idle
                /\ \/ job.bytes = x
                   \/ job.bytes = Nothing /\ ~Fits(x) /\ WriteHeader
      PROVE  Stored(p)' \in {x, Nothing}
  <2>1. CASE BeginSave(p, x) /\ job' = Idle
    <3>1. FindSlotForPage(header, p) = 0 /\ header' = header
      BY <2>1, IdlePc DEF BeginSave, Job
    <3>2. FindSlotForPage(header', p) = 0
      BY <3>1
    <3> QED
      BY <3>2, NotFoundNotStored
  <2>2. CASE job.pc = "header" /\ job.page = p /\ job' = Idle /\ job.bytes = x
    BY <1>1, <2>2, StoredAfter, PayloadTyped
  <2>3. CASE job.pc = "header" /\ job.page = p /\ job.bytes = Nothing /\ WriteHeader
    <3>1. FindSlotForPage(header', p) = 0
      BY <1>1, <2>3, HeaderStruck
    <3> QED
      BY <3>1, NotFoundNotStored
  <2> QED
    BY <1>1, <2>1, <2>2, <2>3
<1>2. CacheInv /\ CacheInv' /\ [Next]_vars =>
        [\A p \in PageIds, x \in Payloads :
         \/ BeginSave(p, x) /\ job' = Idle
         \/ /\ job.pc = "header" /\ job.page = p /\ job' = Idle
            /\ \/ job.bytes = x
               \/ job.bytes = Nothing /\ ~Fits(x) /\ WriteHeader
         => Stored(p)' \in {x, Nothing}]_vars
  BY <1>1
<1> QED
  BY <1>2, CacheInvariant, PTL DEF Spec, NoOlderCopy
=============================================================================
