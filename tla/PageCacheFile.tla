--------------------------- MODULE PageCacheFile ---------------------------
(***************************************************************************)
(* The disk cache of pages, app/page/page_cache.cpp: a file with a header  *)
(* (a directory of slots) and one area per slot.  A save writes the        *)
(* payload into an area and then the header; the machine may stop, or a    *)
(* write may fail, in between and in the middle of the payload.  A load    *)
(* trusts a slot when its age and its checksum allow.                      *)
(*                                                                         *)
(* A payload is the sequence of the bytes SerializePage makes of the open  *)
(* page, any member of Payloads; an area keeps the bytes of earlier        *)
(* payloads beyond what was written last.  The header fits one disk sector *)
(* and is written whole or not at all.                                     *)
(***************************************************************************)
EXTENDS Integers, Sequences, FiniteSetsExt

CONSTANTS PageIds,       \* page ids
          Payloads,      \* what pages serialize to: sequences of bytes
          Nothing,       \* no page, no payload
          NSlots,        \* kPageCacheSlots
          SlotSize,      \* kSlotSize
          SumMod,        \* 2^16
          TTL,           \* kPageCacheTTLSecs
          ClockMod,      \* 2^32, where GetDateTime wraps
          Faults,        \* what may go wrong: "torn", "noHeader", "noMemory",
                         \*   "clockSet"
          MaxSaves       \* bound on the saves

Slots == 1 .. NSlots

ASSUME CacheAssumption ==
    /\ NSlots \in Nat \ {0} /\ SlotSize \in Nat /\ SumMod \in Nat \ {0}
    /\ MaxSaves \in Nat
    /\ TTL \in Nat /\ ClockMod \in Nat \ {0} /\ TTL < ClockMod
    /\ Payloads \subseteq Seq(Nat) \ {<<>>}
    /\ Nothing \notin PageIds \cup Payloads

VARIABLES header,    \* the directory on disk: a slot's page, date, length, sum
          areas,     \* the payload areas on disk
          clock,     \* GetDateTime
          job,       \* SavePageCacheNow between two writes
          bypass,    \* gPageCacheBypassOnce
          shown,     \* what the last TryLoadPageFromCache put on the screen
          age,       \* history: the true age of each slot's payload, and of the
                     \*   one being saved (0); -1 once the clock was set
          kept,      \* history: the payload each slot's entry was written for
          saves      \* history: the saves so far

vars == <<header, areas, clock, job, bypass, shown, age, kept, saves>>

Empty == [page |-> Nothing, saved |-> 0, len |-> 0, sum |-> 0]
Slot  == [page : PageIds \cup {Nothing}, saved : 0 .. ClockMod - 1,
          len : 0 .. SlotSize, sum : 0 .. SumMod - 1]

Job(pc, p, x, s, h) == [pc |-> pc, page |-> p, bytes |-> x, slot |-> s, image |-> h]
Idle   == Job("idle", Nothing, Nothing, 0, Nothing)
NoPage == [page |-> Nothing, bytes |-> Nothing]

Least(S) == CHOOSE i \in S : \A j \in S : i <= j

(***************************************************************************)
(* The file.                                                               *)
(***************************************************************************)
(* A checksum that is not kept to 16 bits. *)
WideChecksum(bytes) ==
    LET sum[i \in 0 .. Len(bytes)] == IF i = 0 THEN 0 ELSE sum[i - 1] + bytes[i]
    IN  sum[Len(bytes)]

(* The additive checksum, kept to 16 bits. *)
Checksum16(bytes) ==
    LET sum[i \in 0 .. Len(bytes)] == IF i = 0 THEN 0 ELSE sum[i - 1] + bytes[i]
    IN  sum[Len(bytes)] % SumMod

(* An area after the first k bytes of a payload went over it. *)
Overlay(area, bytes, k) == [i \in 1 .. SlotSize |-> IF i <= k THEN bytes[i] ELSE area[i]]

ReadArea(area, n) == [i \in 1 .. n |-> area[i]]

FindSlotForPage(h, p) ==
    LET own == {s \in Slots : h[s].len > 0 /\ h[s].page = p}
    IN  IF own = {} THEN 0 ELSE Least(own)

(* A save that does not look for the page's own slot. *)
PickAnySlot(h, p) ==
    LET empty  == {s \in Slots : h[s].len = 0}
        oldest == {s \in Slots : \A t \in Slots : h[s].saved <= h[t].saved}
    IN  Least(IF empty # {} THEN empty ELSE oldest)

(* The page's own slot, else the first empty one, else the oldest. *)
PickSaveSlot(h, p) ==
    LET empty  == {s \in Slots : h[s].len = 0}
        oldest == {s \in Slots : \A t \in Slots : h[s].saved <= h[t].saved}
    IN  IF FindSlotForPage(h, p) # 0 THEN FindSlotForPage(h, p)
        ELSE Least(IF empty # {} THEN empty ELSE oldest)

(* An age computed without the wrap of the unsigned subtraction. *)
StaleSigned(slot) == clock - slot.saved > TTL

(* Unsigned: a date in the future is very old. *)
Stale(slot) == (clock - slot.saved) % ClockMod > TTL

Vouched(h, a, s) == Checksum16(ReadArea(a[s], h[s].len)) = h[s].sum

Entry(p, x, t) == [page |-> p, saved |-> t, len |-> Len(x), sum |-> Checksum16(x)]

(***************************************************************************)
(* SavePageCacheNow, from one write to the next.                           *)
(***************************************************************************)
Init == /\ header = [s \in Slots |-> Empty]
        /\ areas \in [Slots -> [1 .. SlotSize -> {0}]]
        /\ clock = 0
        /\ job = Idle
        /\ bypass = FALSE
        /\ shown = NoPage
        /\ age = [s \in 0 .. NSlots |-> 0]
        /\ kept = [s \in Slots |-> Nothing]
        /\ saves = 0

Fits(x) == Len(x) <= SlotSize

(* A page too large for a slot keeps its old copy. *)
BeginSaveForgets(p, x) ==
    /\ job = Idle
    /\ saves < MaxSaves
    /\ saves' = saves + 1
    /\ job' = IF Fits(x) THEN Job("payload", p, x, PickSaveSlot(header, p), header)
              ELSE Idle
    /\ UNCHANGED <<header, areas, clock, bypass, shown, age, kept>>

(* A page too large for a slot only has its old copy struck out. *)
BeginSave(p, x) ==
    /\ job = Idle
    /\ saves < MaxSaves
    /\ saves' = saves + 1
    /\ LET s == PickSaveSlot(header, p)
       IN  job' = IF Fits(x) THEN Job("payload", p, x, s, header)
                  ELSE IF FindSlotForPage(header, p) = 0 THEN Idle
                  ELSE Job("header", p, Nothing, s, [header EXCEPT ![s] = Empty])
    /\ UNCHANGED <<header, areas, clock, bypass, shown, age, kept>>

(* NewPtr gives no buffer: nothing is written. *)
SaveWithoutMemory == /\ job = Idle
                     /\ "noMemory" \in Faults
                     /\ saves < MaxSaves
                     /\ saves' = saves + 1
                     /\ UNCHANGED <<header, areas, clock, job, bypass, shown, age, kept>>

WritePayload ==
    /\ job.pc = "payload"
    /\ areas' = [areas EXCEPT ![job.slot] = Overlay(@, job.bytes, Len(job.bytes))]
    /\ job' = Job("header", job.page, job.bytes, job.slot,
                   [job.image EXCEPT ![job.slot] = Entry(job.page, job.bytes, clock)])
    /\ age' = [age EXCEPT ![0] = 0]
    /\ UNCHANGED <<header, clock, bypass, shown, kept, saves>>

(* The write fails after k bytes, or the machine stops there. *)
TearPayload(k) ==
    /\ job.pc = "payload"
    /\ "torn" \in Faults
    /\ k < Len(job.bytes)
    /\ areas' = [areas EXCEPT ![job.slot] = Overlay(@, job.bytes, k)]
    /\ job' = Idle
    /\ UNCHANGED <<header, clock, bypass, shown, age, kept, saves>>

WriteHeader ==
    /\ job.pc = "header"
    /\ header' = job.image
    /\ age' = [age EXCEPT ![job.slot] = age[0]]
    /\ kept' = [kept EXCEPT ![job.slot] = job.bytes]
    /\ job' = Idle
    /\ UNCHANGED <<areas, clock, bypass, shown, saves>>

LoseHeader ==
    /\ job.pc = "header"
    /\ "noHeader" \in Faults
    /\ job' = Idle
    /\ UNCHANGED <<header, areas, clock, bypass, shown, age, kept, saves>>

(***************************************************************************)
(* TryLoadPageFromCache.                                                   *)
(***************************************************************************)
Hits(p) == LET s == FindSlotForPage(header, p)
           IN  /\ ~bypass
               /\ s # 0
               /\ ~Stale(header[s])
               /\ Vouched(header, areas, s)

TryLoadPageFromCache(p) ==
    /\ job = Idle
    /\ bypass' = FALSE
    /\ shown' = IF ~Hits(p) THEN NoPage
                ELSE LET s == FindSlotForPage(header, p)
                     IN  [page |-> p, bytes |-> ReadArea(areas[s], header[s].len)]
    /\ UNCHANGED <<header, areas, clock, job, age, kept, saves>>

(* The Reload command. *)
BypassOnce == /\ ~bypass
              /\ bypass' = TRUE
              /\ UNCHANGED <<header, areas, clock, job, shown, age, kept, saves>>

(***************************************************************************)
(* Time passes, and the user may set the clock.  No copy is kept for the   *)
(* 136 years GetDateTime takes to come round.                              *)
(***************************************************************************)
Tick == /\ \A s \in 0 .. NSlots : age[s] < ClockMod - 1 \/ (s # 0 /\ header[s] = Empty)
        /\ clock' = (clock + 1) % ClockMod
        /\ age' = [s \in 0 .. NSlots |-> IF age[s] \in 0 .. ClockMod - 2 THEN age[s] + 1 ELSE age[s]]
        /\ UNCHANGED <<header, areas, job, bypass, shown, kept, saves>>

SetClock(t) == /\ "clockSet" \in Faults
               /\ clock' = t
               /\ age' = [s \in 0 .. NSlots |-> -1]
               /\ UNCHANGED <<header, areas, job, bypass, shown, kept, saves>>

Next == \/ \E p \in PageIds, x \in Payloads : BeginSave(p, x)
        \/ SaveWithoutMemory
        \/ WritePayload
        \/ \E k \in 0 .. SlotSize : TearPayload(k)
        \/ WriteHeader
        \/ LoseHeader
        \/ \E p \in PageIds : TryLoadPageFromCache(p)
        \/ BypassOnce
        \/ Tick
        \/ \E t \in 0 .. ClockMod - 1 : SetClock(t)

Spec == Init /\ [][Next]_vars

(***************************************************************************)
(* Properties.                                                             *)
(***************************************************************************)
Store == INSTANCE PageStore
             WITH store <- [p \in PageIds |->
                               LET s == FindSlotForPage(header, p)
                               IN  IF s = 0 THEN Nothing ELSE kept[s]],
                  asked <- IF job.bytes = Nothing THEN NoPage
                           ELSE [page |-> job.page, bytes |-> job.bytes],
                  shown <- shown

(* What the file would give for page p. *)
Stored(p) == LET s == FindSlotForPage(header, p)
             IN  IF s # 0 /\ Vouched(header, areas, s)
                 THEN ReadArea(areas[s], header[s].len) ELSE Nothing

(* The types of the variables. *)
TypeOK == /\ header \in [Slots -> Slot]
          /\ areas \in [Slots -> [1 .. SlotSize -> Nat]]
          /\ clock \in 0 .. ClockMod - 1
          /\ job.pc \in {"idle", "payload", "header"}
          /\ job.pc # "idle" => /\ job.page \in PageIds
                                /\ job.slot \in Slots
                                /\ job.image \in [Slots -> Slot]
                                /\ job.bytes \in Payloads \cup {Nothing}
          /\ bypass \in BOOLEAN
          /\ age \in [0 .. NSlots -> -1 .. ClockMod - 1]
          /\ saves \in 0 .. MaxSaves

(* The cache implements the abstract store, whatever writes are torn or    *)
(* lost: a load gives nothing, or the contents stored last for that very   *)
(* page, never a mixture and never contents that had been replaced.        *)
ImplementsStore == Store!Spec

(* What is loaded is no older than the TTL, whatever the clock's wrap: the *)
(* age check of TryLoadPageFromCache, for a clock not set since.           *)
ShownIsFresh ==
    [][\A p \in PageIds :
         TryLoadPageFromCache(p) /\ shown' # NoPage => age[FindSlotForPage(header, p)] <= TTL]_vars

(* A save leaves no older contents of its page to be loaded, also when its *)
(* header could not be written over the new payload, and when the page has *)
(* become too large: only a save that wrote nothing leaves them.           *)
NoOlderCopy ==
    [][\A p \in PageIds, x \in Payloads :
         \/ BeginSave(p, x) /\ job' = Idle
         \/ /\ job.pc = "header" /\ job.page = p /\ job' = Idle
            /\ \/ job.bytes = x
               \/ job.bytes = Nothing /\ ~Fits(x) /\ WriteHeader
         => Stored(p)' \in {x, Nothing}]_vars

(* "Payload first, header second: a torn write leaves a checksum mismatch, *)
(* never a header pointing at garbage it vouches for" (page_cache.cpp,     *)
(* SavePageCacheNow).                                                      *)
NeverVouchesForGarbage ==
    \A s \in Slots : header[s].len > 0 /\ Vouched(header, areas, s)
                    => ReadArea(areas[s], header[s].len) \in Payloads

(***************************************************************************)
(* What the proofs and the runs assume.  The checksum tells each payload   *)
(* from every mixture of payloads of its length.                           *)
(***************************************************************************)
BytesAt(i) == {y[i] : y \in {z \in Payloads : Fits(z) /\ Len(z) >= i}}
Mixtures(n) == {m \in [1 .. n -> UNION {BytesAt(i) : i \in 1 .. n}] :
                   \A i \in 1 .. n : m[i] \in BytesAt(i)}
SumsTell == \A x \in Payloads : Fits(x) =>
                \A m \in Mixtures(Len(x)) : Checksum16(m) = Checksum16(x) => m = x

(* No payload is the beginning of another: SerializePage puts every count  *)
(* and length before what it counts.                                       *)
SelfDelimiting == \A x, y \in Payloads :
    Len(x) <= Len(y) /\ (\A i \in 1 .. Len(x) : x[i] = y[i]) => x = y
=============================================================================
