------------------------- MODULE ShadowMemoryProofs -------------------------
(***************************************************************************)
(* The safety of the two-level shadow memory for any set of threads, any   *)
(* index ranges and any supply of pages.  The invariant says of each page  *)
(* what PagesHaveOneHome counts, as implications between two places: no    *)
(* two places hold one page (Once), what a place holds is allocated        *)
(* (Allocated), and an allocated page is held somewhere (NotLost).         *)
(***************************************************************************)
EXTENDS ShadowMemory, FiniteSetTheorems, TLAPS

Busy(t) == pc[t] \in {"l1", "l1cas", "l2", "l2cas", "slot"}

\* What the locals of a lookup say between two steps of its thread.
Locals == \A t \in Threads :
            /\ table[t] \in {t, Global}
            /\ Busy(t) => addr[t] \in Addresses
            /\ pc[t] \in {"l2", "l2cas", "slot"} => L1Entry(t) # Nil
            /\ pc[t] = "slot" => slot[t] = L2Entry(t) /\ slot[t] # Nil

OnceInTables == \A T, U \in Tables, i, k \in L1Indices :
                  pageTable[T][i] # Nil /\ pageTable[T][i] = pageTable[U][k] => T = U /\ i = k

OnceInPages == \A p, q \in L1Pages, j, k \in L2Indices :
                 entries[p][j] # Nil /\ entries[p][j] = entries[q][k] => p = q /\ j = k

\* What is in a table or a first level page, nobody keeps as well.
InstalledNotKept ==
  \A t \in Threads :
    /\ \A T \in Tables, i \in L1Indices :
         pageTable[T][i] # Nil => pageTable[T][i] \notin {cachedL1Page[t], fresh[t]}
    /\ \A p \in L1Pages, j \in L2Indices :
         entries[p][j] # Nil => entries[p][j] \notin {cachedShadowPage[t], fresh[t]}

KeptOnce ==
  \A t, u \in Threads :
    /\ t # u /\ cachedL1Page[t] # Nil => cachedL1Page[t] # cachedL1Page[u]
    /\ t # u /\ cachedShadowPage[t] # Nil => cachedShadowPage[t] # cachedShadowPage[u]
    /\ t # u /\ fresh[t] # Nil => fresh[t] # fresh[u]
    /\ fresh[t] # Nil => fresh[t] \notin {cachedL1Page[u], cachedShadowPage[u]}

Once == OnceInTables /\ OnceInPages /\ InstalledNotKept /\ KeptOnce

Allocated ==
  /\ \A T \in Tables, i \in L1Indices : pageTable[T][i] \in heap \cup {Nil}
  /\ \A p \in L1Pages, j \in L2Indices : entries[p][j] \in heap \cup {Nil}
  /\ \A t \in Threads : {cachedL1Page[t], cachedShadowPage[t], fresh[t]} \subseteq heap \cup {Nil}

NotLost ==
  \A p \in heap :
    \/ \E T \in Tables, i \in L1Indices : pageTable[T][i] = p
    \/ \E q \in L1Pages, j \in L2Indices : entries[q][j] = p
    \/ \E t \in Threads : p \in {cachedL1Page[t], cachedShadowPage[t], fresh[t]}

IInv == /\ TypeOK /\ Locals /\ CacheEmptyWhenSaving
        /\ Once /\ Allocated /\ NotLost

\* A step of one thread
Step(t) == \/ Access(t) \/ RecycleMemRange(t) \/ NextAddress(t)
           \/ UseSlot(t) \/ MarkSlot(t) \/ AccessDone(t) \/ RecycleDone(t)
           \/ L1PageThere(t) \/ GetL1Page(t) \/ InstallL1Page(t) \/ SaveL1Page(t)
           \/ ShadowPageThere(t) \/ GetShadowPage(t) \/ InstallShadowPage(t)
           \/ SaveShadowPage(t)

-----------------------------------------------------------------------------

\* At the start nothing is allocated, installed or kept.
LEMMA InitIInv == Init => IInv
<1> SUFFICES ASSUME Init PROVE IInv
  OBVIOUS
<1> USE DistinctAssumption DEF Init
<1>1. TypeOK
  BY DEF TypeOK, Blank, Tables
<1>2. Locals /\ CacheEmptyWhenSaving
  BY DEF Locals, Busy, CacheEmptyWhenSaving
<1>3. Once
  BY DEF Once, OnceInTables, OnceInPages, InstalledNotKept, KeptOnce, Blank
<1>4. Allocated /\ NotLost
  BY DEF Allocated, NotLost, Blank
<1> QED
  BY <1>1, <1>2, <1>3, <1>4 DEF IInv

\* calloc returns a page that is not in use.
LEMMA CallocIsFresh ==
  ASSUME NEW pages, CanCalloc(pages)
  PROVE  Calloc(pages) \in pages /\ Calloc(pages) \notin heap
BY DEF CanCalloc, Calloc

-----------------------------------------------------------------------------

\* The page a thread is about to install is one of the right kind.
LEMMA PageInHand ==
  ASSUME TypeOK, NEW t \in Threads
  PROVE  /\ pc[t] = "l1cas" => fresh[t] \in L1Pages /\ fresh[t] # Nil
         /\ pc[t] = "l2cas" => fresh[t] \in ShadowPages /\ fresh[t] # Nil
         /\ pc[t] \notin {"l1cas", "l2cas"} => fresh[t] = Nil
BY DistinctAssumption DEF TypeOK

\* What the places of a lookup hold: the entry of the directory, and below it
\* that of the first level page.
LEMMA EntryTypes ==
  ASSUME TypeOK, Locals, NEW t \in Threads, Busy(t)
  PROVE  /\ table[t] \in Tables /\ addr[t][1] \in L1Indices /\ addr[t][2] \in L2Indices
         /\ L1Entry(t) \in L1Pages \cup {Nil}
         /\ L1Entry(t) # Nil => L2Entry(t) \in ShadowPages \cup {Nil}
<1>1. addr[t] \in L1Indices \X L2Indices
  BY DEF Locals, Addresses
<1>2. addr[t][1] \in L1Indices /\ addr[t][2] \in L2Indices
  BY <1>1
<1>3. table[t] \in Tables
  BY DEF TypeOK
<1>4. L1Entry(t) \in L1Pages \cup {Nil}
  BY <1>2, <1>3 DEF TypeOK, L1Entry
<1>5. L1Entry(t) # Nil => L2Entry(t) \in ShadowPages \cup {Nil}
  BY <1>2, <1>4 DEF TypeOK, L2Entry
<1> QED
  BY <1>2, <1>3, <1>4, <1>5

\* Which steps change which variable.
LEMMA Frame ==
  ASSUME NEW t \in Threads, Step(t)
  PROVE  /\ InstallL1Page(t) \/ RecycleDone(t) \/ UNCHANGED pageTable
         /\ InstallShadowPage(t) \/ RecycleDone(t) \/ UNCHANGED entries
         /\ GetL1Page(t) \/ GetShadowPage(t) \/ RecycleDone(t) \/ UNCHANGED heap
         /\ UseSlot(t) \/ MarkSlot(t) \/ RecycleDone(t) \/ UNCHANGED recycled
         /\ GetL1Page(t) \/ SaveL1Page(t) \/ UNCHANGED cachedL1Page
         /\ GetShadowPage(t) \/ SaveShadowPage(t) \/ UNCHANGED cachedShadowPage
         /\ \/ GetL1Page(t) \/ InstallL1Page(t) \/ SaveL1Page(t)
            \/ GetShadowPage(t) \/ InstallShadowPage(t) \/ SaveShadowPage(t)
            \/ UNCHANGED fresh
         /\ Access(t) \/ RecycleMemRange(t) \/ UNCHANGED table
         /\ Access(t) \/ RecycleMemRange(t) \/ NextAddress(t) \/ UNCHANGED todo
         /\ NextAddress(t) \/ AccessDone(t) \/ RecycleDone(t) \/ UNCHANGED addr
         /\ \/ ShadowPageThere(t) \/ InstallShadowPage(t) \/ SaveShadowPage(t)
            \/ AccessDone(t) \/ RecycleDone(t) \/ UNCHANGED slot
BY DEF Step, Access, RecycleMemRange, NextAddress, UseSlot, MarkSlot, AccessDone, RecycleDone,
       L1PageThere, GetL1Page, InstallL1Page, SaveL1Page, ShadowPageThere,
       GetShadowPage, InstallShadowPage, SaveShadowPage

\* Each step keeps the types: those of the memory, those of the locals, and which
\* page a thread is about to install.
LEMMA TypeStep == ASSUME IInv, NEW t \in Threads, Step(t) PROVE TypeOK'
<1> USE DistinctAssumption DEF IInv
<1>1. pageTable' \in [Tables -> [L1Indices -> L1Pages \cup {Nil}]]
  <2>1. CASE InstallL1Page(t)
    BY <2>1, PageInHand DEF TypeOK, InstallL1Page
  <2>2. CASE RecycleDone(t)
    BY <2>2 DEF TypeOK, RecycleDone
  <2> QED
    BY <2>1, <2>2, Frame DEF TypeOK
<1>2. entries' \in [L1Pages -> [L2Indices -> ShadowPages \cup {Nil}]]
  <2>1. CASE InstallShadowPage(t)
    BY <2>1, PageInHand DEF TypeOK, InstallShadowPage
  <2>2. CASE RecycleDone(t)
    BY <2>2 DEF TypeOK, RecycleDone, Blank
  <2> QED
    BY <2>1, <2>2, Frame DEF TypeOK
<1>3. heap' \subseteq L1Pages \cup ShadowPages
  <2>1. CASE GetL1Page(t)
    BY <2>1, CallocIsFresh DEF TypeOK, GetL1Page
  <2>2. CASE GetShadowPage(t)
    BY <2>2, CallocIsFresh DEF TypeOK, GetShadowPage
  <2>3. CASE RecycleDone(t)
    BY <2>3 DEF TypeOK, RecycleDone
  <2> QED
    BY <2>1, <2>2, <2>3, Frame DEF TypeOK
<1>4. recycled' \subseteq ShadowPages
  <2>1. CASE MarkSlot(t)
    BY <2>1 DEF TypeOK, Locals, MarkSlot
  <2>2. CASE RecycleDone(t)
    BY <2>2 DEF TypeOK, RecycleDone
  <2>3. CASE UseSlot(t)
    BY <2>3 DEF TypeOK, UseSlot
  <2> QED
    BY <2>1, <2>2, <2>3, Frame DEF TypeOK
<1>5. /\ cachedL1Page' \in [Threads -> L1Pages \cup {Nil}]
      /\ cachedShadowPage' \in [Threads -> ShadowPages \cup {Nil}]
  <2>1. CASE GetL1Page(t)
    BY <2>1 DEF TypeOK, GetL1Page
  <2>2. CASE SaveL1Page(t)
    BY <2>2, PageInHand DEF TypeOK, SaveL1Page
  <2>3. CASE GetShadowPage(t)
    BY <2>3 DEF TypeOK, GetShadowPage
  <2>4. CASE SaveShadowPage(t)
    BY <2>4, PageInHand DEF TypeOK, SaveShadowPage
  <2> QED
    BY <2>1, <2>2, <2>3, <2>4, Frame DEF TypeOK
<1>6. /\ fresh' \in [Threads -> L1Pages \cup ShadowPages \cup {Nil}]
      /\ \A u \in Threads : /\ pc'[u] = "l1cas" <=> fresh'[u] \in L1Pages
                            /\ pc'[u] = "l2cas" <=> fresh'[u] \in ShadowPages
  <2> USE DEF TypeOK, Goto
  <2>1. CASE GetL1Page(t)
    BY <2>1, CallocIsFresh DEF GetL1Page
  <2>2. CASE GetShadowPage(t)
    <3>1. \E p \in ShadowPages : fresh' = [fresh EXCEPT ![t] = p]
      BY <2>2, CallocIsFresh DEF GetShadowPage
    <3>2. pc' = [pc EXCEPT ![t] = "l2cas"] /\ pc[t] = "l2"
      BY <2>2 DEF GetShadowPage
    <3> QED
      BY <3>1, <3>2
  <2>3. CASE InstallL1Page(t) \/ SaveL1Page(t)
    <3>1. fresh' = [fresh EXCEPT ![t] = Nil] /\ pc' = [pc EXCEPT ![t] = "l2"]
      BY <2>3 DEF InstallL1Page, SaveL1Page
    <3> QED
      BY <3>1
  <2>4. CASE InstallShadowPage(t) \/ SaveShadowPage(t)
    <3>1. fresh' = [fresh EXCEPT ![t] = Nil] /\ pc' = [pc EXCEPT ![t] = "slot"]
      BY <2>4 DEF InstallShadowPage, SaveShadowPage
    <3> QED
      BY <3>1
  <2>5. CASE Access(t) \/ RecycleMemRange(t) \/ NextAddress(t) \/ UseSlot(t)
    <3>1. fresh' = fresh /\ pc'[t] \in {"loop", "l1"} /\ pc[t] \in {"idle", "loop", "slot"}
      BY <2>5 DEF Access, RecycleMemRange, NextAddress, UseSlot
    <3>2. \A u \in Threads : u # t => pc'[u] = pc[u]
      BY <2>5 DEF Access, RecycleMemRange, NextAddress, UseSlot
    <3> QED
      BY <3>1, <3>2
  <2>6. CASE MarkSlot(t) \/ AccessDone(t) \/ RecycleDone(t)
    <3>1. fresh' = fresh /\ pc'[t] \in {"idle", "loop"} /\ pc[t] \in {"slot", "loop"}
      BY <2>6 DEF MarkSlot, AccessDone, RecycleDone
    <3>2. \A u \in Threads : u # t => pc'[u] = pc[u]
      BY <2>6 DEF MarkSlot, AccessDone, RecycleDone
    <3> QED
      BY <3>1, <3>2
  <2>7. CASE L1PageThere(t) \/ ShadowPageThere(t)
    BY <2>7 DEF L1PageThere, ShadowPageThere
  <2> QED
    BY <2>1, <2>2, <2>3, <2>4, <2>5, <2>6, <2>7 DEF Step
<1>7. slot' \in [Threads -> ShadowPages \cup {Nil}]
  <2>1. CASE ShadowPageThere(t)
    BY <2>1, EntryTypes DEF TypeOK, ShadowPageThere, Locals, Busy
  <2>2. CASE InstallShadowPage(t)
    BY <2>2, PageInHand DEF TypeOK, InstallShadowPage
  <2>3. CASE SaveShadowPage(t)
    BY <2>3, EntryTypes DEF TypeOK, SaveShadowPage, Locals, Busy
  <2>4. CASE AccessDone(t) \/ RecycleDone(t)
    BY <2>4 DEF TypeOK, AccessDone, RecycleDone
  <2> QED
    BY <2>1, <2>2, <2>3, <2>4, Frame DEF TypeOK
<1>8. table' \in [Threads -> Tables]
  <2>1. CASE Access(t) \/ RecycleMemRange(t)
    BY <2>1 DEF TypeOK, Access, RecycleMemRange, Tables
  <2> QED
    BY <2>1, Frame DEF TypeOK
<1>9. /\ todo' \in [Threads -> SUBSET Addresses]
      /\ addr' \in [Threads -> Addresses \cup {NoAddress}]
  <2>1. CASE Access(t) \/ RecycleMemRange(t)
    <3>1. PICK r \in Ranges : todo' = [todo EXCEPT ![t] = r]
      BY <2>1 DEF Access, RecycleMemRange
    <3>2. r \in SUBSET Addresses /\ addr' = addr
      BY <2>1, RangesAssumption DEF Access, RecycleMemRange
    <3> QED
      BY <3>1, <3>2 DEF TypeOK
  <2>2. CASE NextAddress(t)
    <3>1. todo[t] \in SUBSET Addresses
      BY DEF TypeOK
    <3>2. PICK a \in todo[t] : /\ addr' = [addr EXCEPT ![t] = a]
                               /\ todo' = [todo EXCEPT ![t] = @ \ {a}]
      BY <2>2 DEF NextAddress
    <3>3. a \in Addresses /\ todo[t] \ {a} \in SUBSET Addresses
      BY <3>1
    <3> QED
      BY <3>2, <3>3 DEF TypeOK
  <2>3. CASE AccessDone(t) \/ RecycleDone(t)
    BY <2>3 DEF TypeOK, AccessDone, RecycleDone
  <2> QED
    BY <2>1, <2>2, <2>3, Frame DEF TypeOK
<1>10. pc' \in [Threads -> {"idle", "loop", "l1", "l1cas", "l2", "l2cas", "slot"}]
  BY DEF TypeOK, Goto, Step, Access, RecycleMemRange, NextAddress, UseSlot, MarkSlot, AccessDone, RecycleDone,
       L1PageThere, GetL1Page, InstallL1Page, SaveL1Page, ShadowPageThere,
       GetShadowPage, InstallShadowPage, SaveShadowPage
<1> QED
  BY <1>1, <1>2, <1>3, <1>4, <1>5, <1>6, <1>7, <1>8, <1>9, <1>10 DEF TypeOK

-----------------------------------------------------------------------------

\* What is in a table stays there, unless the table goes out of scope.
LEMMA TableStays ==
  ASSUME IInv, NEW t \in Threads, Step(t), NEW T \in Tables, RecycleDone(t) => T # t,
         NEW i \in L1Indices, NEW j \in L2Indices, pageTable[T][i] # Nil
  PROVE  /\ pageTable'[T][i] = pageTable[T][i]
         /\ entries[pageTable[T][i]][j] # Nil
              => entries'[pageTable[T][i]][j] = entries[pageTable[T][i]][j]
<1> DEFINE p == pageTable[T][i]
<1> USE DEF IInv
<1>1. p \in L1Pages
  BY DEF TypeOK
<1>2. CASE RecycleDone(t)
  <2>1. t \in Tables
    BY DEF Tables
  <2>2. p \notin L1PagesOf(t)
    BY <1>2, <2>1 DEF L1PagesOf, Once, OnceInTables
  <2> QED
    BY <1>1, <1>2, <2>2 DEF RecycleDone, TypeOK
<1>3. CASE InstallL1Page(t)
  <2>1. ~(T = table[t] /\ i = addr[t][1])
    BY <1>3 DEF InstallL1Page, L1Entry
  <2> QED
    BY <1>3, <2>1 DEF InstallL1Page, TypeOK
<1>4. CASE InstallShadowPage(t)
  <2>1. pageTable' = pageTable
    BY <1>4 DEF InstallShadowPage
  <2>2. ASSUME entries[p][j] # Nil PROVE entries'[p][j] = entries[p][j]
    <3>1. ~(p = L1Entry(t) /\ j = addr[t][2])
      BY <1>4, <2>2 DEF InstallShadowPage, L2Entry
    <3> QED
      BY <1>1, <1>4, <3>1 DEF InstallShadowPage, TypeOK
  <2> QED
    BY <2>1, <2>2
<1> QED
  BY <1>2, <1>3, <1>4, Frame

\* The local variables of the other threads are theirs.
LEMMA OthersStay ==
  ASSUME IInv, NEW t \in Threads, Step(t), NEW u \in Threads, u # t
  PROVE  /\ pc'[u] = pc[u] /\ table'[u] = table[u] /\ addr'[u] = addr[u]
         /\ slot'[u] = slot[u] /\ fresh'[u] = fresh[u] /\ cachedL1Page'[u] = cachedL1Page[u]
         /\ cachedShadowPage'[u] = cachedShadowPage[u]
BY DEF IInv, TypeOK, Goto, Step, Access, RecycleMemRange, NextAddress, UseSlot, MarkSlot, AccessDone, RecycleDone,
       L1PageThere, GetL1Page, InstallL1Page, SaveL1Page, ShadowPageThere,
       GetShadowPage, InstallShadowPage, SaveShadowPage

\* What a lookup has found stays as it is.
LEMMA LookupStays ==
  ASSUME IInv, NEW t \in Threads, Step(t), NEW u \in Threads, u # t, Busy(u), L1Entry(u) # Nil
  PROVE  /\ L1Entry(u)' = L1Entry(u)
         /\ L2Entry(u) # Nil => L2Entry(u)' = L2Entry(u)
<1>1. /\ table[u] \in Tables /\ table[u] # t
      /\ addr[u][1] \in L1Indices /\ addr[u][2] \in L2Indices
  BY EntryTypes, DistinctAssumption DEF IInv, Locals
<1>2. table'[u] = table[u] /\ addr'[u] = addr[u]
  BY OthersStay
<1>3. pageTable[table[u]][addr[u][1]] # Nil
  BY DEF L1Entry
<1> QED
  BY <1>1, <1>2, <1>3, TableStays DEF L1Entry, L2Entry

LEMMA LocalsStep == ASSUME IInv, NEW t \in Threads, Step(t) PROVE Locals'
<1> SUFFICES ASSUME NEW u \in Threads
             PROVE  /\ table'[u] \in {u, Global}
                    /\ Busy(u)' => addr'[u] \in Addresses
                    /\ pc'[u] \in {"l2", "l2cas", "slot"} => L1Entry(u)' # Nil
                    /\ pc'[u] = "slot" => slot'[u] = L2Entry(u)' /\ slot'[u] # Nil
  BY DEF Locals
<1>1. CASE u # t
  <2>1. /\ pc'[u] = pc[u] /\ table'[u] = table[u] /\ addr'[u] = addr[u] /\ slot'[u] = slot[u]
    BY <1>1, OthersStay
  <2>2. Busy(u)' <=> Busy(u)
    BY <2>1 DEF Busy
  <2>3. ASSUME pc[u] \in {"l2", "l2cas", "slot"} PROVE L1Entry(u)' # Nil
    BY <1>1, <2>3, LookupStays DEF IInv, Locals, Busy
  <2>4. ASSUME pc[u] = "slot" PROVE L2Entry(u)' = L2Entry(u)
    BY <1>1, <2>4, LookupStays DEF IInv, Locals, Busy
  <2> QED
    BY <2>1, <2>2, <2>3, <2>4 DEF IInv, Locals
<1>2. CASE u = t
  <2> USE DEF IInv, TypeOK, Goto
  <2>1. table'[t] \in {t, Global}
    BY DEF Locals, Step, Access, RecycleMemRange, NextAddress, UseSlot, MarkSlot, AccessDone, RecycleDone,
       L1PageThere, GetL1Page, InstallL1Page, SaveL1Page, ShadowPageThere,
       GetShadowPage, InstallShadowPage, SaveShadowPage
  <2>2. CASE Access(t) \/ RecycleMemRange(t) \/ UseSlot(t) \/ MarkSlot(t) \/ AccessDone(t) \/ RecycleDone(t)
    <3>1. pc'[t] \in {"idle", "loop"}
      BY <2>2 DEF Access, RecycleMemRange, UseSlot, MarkSlot, AccessDone, RecycleDone
    <3> QED
      BY <1>2, <2>1, <3>1 DEF Busy
  <2>3. CASE NextAddress(t)
    <3>1. pc'[t] = "l1" /\ addr'[t] \in Addresses
      BY <2>3 DEF NextAddress
    <3> QED
      BY <1>2, <2>1, <3>1 DEF Busy
  <2>4. CASE ~(Access(t) \/ RecycleMemRange(t) \/ NextAddress(t) \/ UseSlot(t) \/ MarkSlot(t)
               \/ AccessDone(t) \/ RecycleDone(t))
    <3>1. /\ table' = table /\ addr' = addr /\ Busy(t)
      BY <2>4 DEF Step, Busy, L1PageThere, GetL1Page, InstallL1Page, SaveL1Page, ShadowPageThere,
                  GetShadowPage, InstallShadowPage, SaveShadowPage
    <3>2. addr[t] \in Addresses
      BY <3>1 DEF Locals
    <3>3. CASE L1PageThere(t) \/ SaveL1Page(t)
      <4>1. pageTable' = pageTable /\ pc'[t] = "l2" /\ L1Entry(t) # Nil
        BY <3>3 DEF L1PageThere, SaveL1Page
      <4> QED
        BY <1>2, <2>1, <3>1, <3>2, <4>1 DEF L1Entry
    <3>4. CASE GetL1Page(t)
      <4>1. pc'[t] = "l1cas"
        BY <3>4 DEF GetL1Page
      <4> QED
        BY <1>2, <2>1, <3>1, <3>2, <4>1
    <3>5. CASE InstallL1Page(t)
      <4>1. pc'[t] = "l2" /\ pc[t] = "l1cas"
        BY <3>5 DEF InstallL1Page
      <4>2. pageTable'[table[t]][addr[t][1]] = fresh[t]
        BY <3>1, <3>5, EntryTypes DEF InstallL1Page
      <4> QED
        BY <1>2, <2>1, <3>1, <3>2, <4>1, <4>2, PageInHand DEF L1Entry
    <3>6. CASE GetShadowPage(t)
      <4>1. pc'[t] = "l2cas" /\ pc[t] = "l2" /\ pageTable' = pageTable
        BY <3>6 DEF GetShadowPage
      <4> QED
        BY <1>2, <2>1, <3>1, <3>2, <4>1 DEF L1Entry, Locals
    <3>7. CASE ShadowPageThere(t) \/ SaveShadowPage(t)
      <4>1. /\ pc'[t] = "slot" /\ pc[t] \in {"l2", "l2cas"} /\ pageTable' = pageTable
            /\ entries' = entries /\ slot'[t] = L2Entry(t) /\ L2Entry(t) # Nil
        BY <3>7 DEF ShadowPageThere, SaveShadowPage
      <4> QED
        BY <1>2, <2>1, <3>1, <3>2, <4>1 DEF L1Entry, L2Entry, Locals
    <3>8. CASE InstallShadowPage(t)
      <4>1. /\ pc'[t] = "slot" /\ pc[t] = "l2cas" /\ pageTable' = pageTable
            /\ slot'[t] = fresh[t]
        BY <3>8 DEF InstallShadowPage
      <4>2. L1Entry(t) # Nil /\ L1Entry(t)' = L1Entry(t)
        BY <3>1, <4>1 DEF L1Entry, Locals
      <4>3. entries'[L1Entry(t)][addr[t][2]] = fresh[t]
        BY <3>1, <3>8, <4>2, EntryTypes DEF InstallShadowPage
      <4> QED
        BY <1>2, <2>1, <3>1, <3>2, <4>1, <4>2, <4>3, PageInHand DEF L2Entry
    <3> QED
      BY <2>4, <3>3, <3>4, <3>5, <3>6, <3>7, <3>8 DEF Step
  <2> QED
    BY <2>2, <2>3, <2>4
<1> QED
  BY <1>1, <1>2

\* A thread that has a page to install has taken its cached page.
LEMMA CacheEmptyStep == ASSUME IInv, NEW t \in Threads, Step(t) PROVE CacheEmptyWhenSaving'
<1> SUFFICES ASSUME NEW u \in Threads
             PROVE  /\ pc'[u] = "l1cas" => cachedL1Page'[u] = Nil
                    /\ pc'[u] = "l2cas" => cachedShadowPage'[u] = Nil
  BY DEF CacheEmptyWhenSaving
<1>1. CASE u # t
  BY <1>1, OthersStay DEF IInv, CacheEmptyWhenSaving
<1>2. CASE u = t
  BY <1>2 DEF IInv, TypeOK, Goto, Step, Access, RecycleMemRange, NextAddress, UseSlot, MarkSlot, AccessDone, RecycleDone,
       L1PageThere, GetL1Page, InstallL1Page, SaveL1Page, ShadowPageThere,
       GetShadowPage, InstallShadowPage, SaveShadowPage
<1> QED
  BY <1>1, <1>2

-----------------------------------------------------------------------------
(* The steps that move pages.  Each lemma says where the pages are after it. *)

\* After a step that moves no page every place holds what it held.
LEMMA NoMove ==
  ASSUME NEW t \in Threads, Step(t),
         ~RecycleDone(t), ~GetL1Page(t), ~InstallL1Page(t), ~SaveL1Page(t),
         ~GetShadowPage(t), ~InstallShadowPage(t), ~SaveShadowPage(t)
  PROVE  UNCHANGED <<heap, pageTable, entries, cachedL1Page, cachedShadowPage, fresh>>
BY Frame

\* A thread takes the page it has cached, or a new one.
LEMMA TakeL1Page ==
  ASSUME TypeOK, NEW t \in Threads, GetL1Page(t)
  PROVE  \E p \in L1Pages :
           /\ \A u \in Threads : /\ fresh'[u] = IF u = t THEN p ELSE fresh[u]
                                 /\ cachedL1Page'[u] = IF u = t THEN Nil ELSE cachedL1Page[u]
           /\ \/ p = cachedL1Page[t] /\ heap' = heap
              \/ p \notin heap /\ heap' = heap \cup {p} /\ cachedL1Page[t] = Nil
           /\ UNCHANGED <<pageTable, entries, cachedShadowPage>>
<1>1. CASE cachedL1Page[t] # Nil
  <2>1. cachedL1Page[t] \in L1Pages
    BY <1>1 DEF TypeOK
  <2>2. /\ fresh' = [fresh EXCEPT ![t] = cachedL1Page[t]] /\ heap' = heap
        /\ cachedL1Page' = [cachedL1Page EXCEPT ![t] = Nil]
        /\ UNCHANGED <<pageTable, entries, cachedShadowPage>>
    BY <1>1 DEF GetL1Page
  <2> QED
    BY <2>1, <2>2 DEF TypeOK
<1>2. CASE cachedL1Page[t] = Nil
  <2>1. Calloc(L1Pages) \in L1Pages /\ Calloc(L1Pages) \notin heap
    BY <1>2, CallocIsFresh DEF GetL1Page
  <2>2. /\ fresh' = [fresh EXCEPT ![t] = Calloc(L1Pages)] /\ heap' = heap \cup {Calloc(L1Pages)}
        /\ cachedL1Page' = cachedL1Page
        /\ UNCHANGED <<pageTable, entries, cachedShadowPage>>
    BY <1>2 DEF GetL1Page
  <2> QED
    BY <1>2, <2>1, <2>2 DEF TypeOK
<1> QED
  BY <1>1, <1>2

LEMMA TakeShadowPage ==
  ASSUME TypeOK, NEW t \in Threads, GetShadowPage(t)
  PROVE  \E p \in ShadowPages :
           /\ \A u \in Threads : /\ fresh'[u] = IF u = t THEN p ELSE fresh[u]
                                 /\ cachedShadowPage'[u] = IF u = t THEN Nil ELSE cachedShadowPage[u]
           /\ \/ p = cachedShadowPage[t] /\ heap' = heap
              \/ p \notin heap /\ heap' = heap \cup {p} /\ cachedShadowPage[t] = Nil
           /\ UNCHANGED <<pageTable, entries, cachedL1Page>>
<1>1. CASE cachedShadowPage[t] # Nil
  <2>1. cachedShadowPage[t] \in ShadowPages
    BY <1>1 DEF TypeOK
  <2>2. /\ fresh' = [fresh EXCEPT ![t] = cachedShadowPage[t]] /\ heap' = heap
        /\ cachedShadowPage' = [cachedShadowPage EXCEPT ![t] = Nil]
        /\ UNCHANGED <<pageTable, entries, cachedL1Page>>
    BY <1>1 DEF GetShadowPage
  <2> QED
    BY <2>1, <2>2 DEF TypeOK
<1>2. CASE cachedShadowPage[t] = Nil
  <2>1. Calloc(ShadowPages) \in ShadowPages /\ Calloc(ShadowPages) \notin heap
    BY <1>2, CallocIsFresh DEF GetShadowPage
  <2>2. /\ fresh' = [fresh EXCEPT ![t] = Calloc(ShadowPages)] /\ heap' = heap \cup {Calloc(ShadowPages)}
        /\ cachedShadowPage' = cachedShadowPage
        /\ UNCHANGED <<pageTable, entries, cachedL1Page>>
    BY <1>2 DEF GetShadowPage
  <2> QED
    BY <1>2, <2>1, <2>2 DEF TypeOK
<1> QED
  BY <1>1, <1>2

\* A thread whose compare-and-swap fails keeps its page.
LEMMA KeepL1Page ==
  ASSUME TypeOK, CacheEmptyWhenSaving, NEW t \in Threads, SaveL1Page(t)
  PROVE  /\ \A u \in Threads : /\ fresh'[u] = IF u = t THEN Nil ELSE fresh[u]
                               /\ cachedL1Page'[u] = IF u = t THEN fresh[t] ELSE cachedL1Page[u]
         /\ UNCHANGED <<heap, pageTable, entries, cachedShadowPage>>
BY DEF TypeOK, CacheEmptyWhenSaving, SaveL1Page

LEMMA KeepShadowPage ==
  ASSUME TypeOK, CacheEmptyWhenSaving, NEW t \in Threads, SaveShadowPage(t)
  PROVE  /\ \A u \in Threads : /\ fresh'[u] = IF u = t THEN Nil ELSE fresh[u]
                               /\ cachedShadowPage'[u] = IF u = t THEN fresh[t] ELSE cachedShadowPage[u]
         /\ UNCHANGED <<heap, pageTable, entries, cachedL1Page>>
BY DEF TypeOK, CacheEmptyWhenSaving, SaveShadowPage

LEMMA OnceStep == ASSUME IInv, NEW t \in Threads, Step(t) PROVE Once'
<1> USE DistinctAssumption DEF IInv, TypeOK, Once
<1>1. OnceInTables'
  <2>1. CASE InstallL1Page(t)
    BY <2>1, PageInHand DEF InstallL1Page, OnceInTables, InstalledNotKept
  <2>2. CASE RecycleDone(t)
    BY <2>2 DEF RecycleDone, OnceInTables
  <2> QED
    BY <2>1, <2>2, Frame DEF OnceInTables
<1>2. OnceInPages'
  <2>1. CASE InstallShadowPage(t)
    BY <2>1, PageInHand DEF InstallShadowPage, OnceInPages, InstalledNotKept
  <2>2. CASE RecycleDone(t)
    BY <2>2 DEF RecycleDone, OnceInPages, Blank
  <2> QED
    BY <2>1, <2>2, Frame DEF OnceInPages
<1>3. InstalledNotKept'
  <2> USE DEF InstalledNotKept
  <2>1. CASE RecycleDone(t)
    BY <2>1 DEF RecycleDone, Blank
  <2>2. CASE GetL1Page(t)
    BY <2>2, CallocIsFresh DEF GetL1Page, Allocated
  <2>3. CASE InstallL1Page(t)
    BY <2>3, PageInHand DEF InstallL1Page, KeptOnce
  <2>4. CASE SaveL1Page(t)
    BY <2>4, PageInHand DEF SaveL1Page
  <2>5. CASE GetShadowPage(t)
    BY <2>5, CallocIsFresh DEF GetShadowPage, Allocated
  <2>6. CASE InstallShadowPage(t)
    BY <2>6, PageInHand DEF InstallShadowPage, KeptOnce
  <2>7. CASE SaveShadowPage(t)
    BY <2>7, PageInHand DEF SaveShadowPage
  <2>8. CASE UNCHANGED <<heap, pageTable, entries, cachedL1Page, cachedShadowPage, fresh>>
    BY <2>8
  <2> QED
    BY <2>1, <2>2, <2>3, <2>4, <2>5, <2>6, <2>7, <2>8, NoMove
<1>4. KeptOnce'
  <2> USE DEF KeptOnce
  <2>2. CASE GetL1Page(t)
    BY <2>2, CallocIsFresh DEF GetL1Page, Allocated
  <2>3. CASE InstallL1Page(t)
    BY <2>3, PageInHand DEF InstallL1Page
  <2>4. CASE SaveL1Page(t)
    BY <2>4, PageInHand DEF SaveL1Page
  <2>5. CASE GetShadowPage(t)
    BY <2>5, TakeShadowPage DEF Allocated
  <2>6. CASE InstallShadowPage(t)
    BY <2>6, PageInHand DEF InstallShadowPage
  <2>7. CASE SaveShadowPage(t)
    BY <2>7, PageInHand, KeepShadowPage DEF SaveShadowPage
  <2>8. CASE UNCHANGED <<cachedL1Page, cachedShadowPage, fresh>>
    BY <2>8
  <2> QED
    BY <2>2, <2>3, <2>4, <2>5, <2>6, <2>7, <2>8, Frame
<1> QED
  BY <1>1, <1>2, <1>3, <1>4

LEMMA AllocatedStep == ASSUME IInv, NEW t \in Threads, Step(t) PROVE Allocated'
<1> USE DistinctAssumption DEF IInv, Allocated
<1>1. CASE RecycleDone(t)
  <2> DEFINE freed == L1PagesOf(t) \cup ShadowPagesOf(t)
  <2>1. heap' = heap \ freed /\ UNCHANGED <<cachedL1Page, cachedShadowPage, fresh>>
    BY <1>1 DEF RecycleDone
  <2>2. L1PagesOf(t) \subseteq L1Pages /\ ShadowPagesOf(t) \subseteq ShadowPages
    BY DEF L1PagesOf, ShadowPagesOf, Tables, TypeOK
  <2>3. \A T \in Tables, i \in L1Indices : pageTable'[T][i] \in heap' \cup {Nil}
    <3>1. ASSUME NEW T \in Tables, NEW i \in L1Indices, T # t, pageTable[T][i] # Nil
          PROVE  pageTable[T][i] \notin freed
      BY <2>2, <3>1 DEF L1PagesOf, Once, OnceInTables, Tables, TypeOK
    <3> QED
      BY <1>1, <2>1, <3>1 DEF RecycleDone, TypeOK
  <2>4. \A p \in L1Pages, j \in L2Indices : entries'[p][j] \in heap' \cup {Nil}
    <3>1. ASSUME NEW p \in L1Pages, NEW j \in L2Indices, p \notin L1PagesOf(t), entries[p][j] # Nil
          PROVE  entries[p][j] \notin freed
      <4>1. entries[p][j] \notin ShadowPagesOf(t)
        BY <2>2, <3>1 DEF ShadowPagesOf, Once, OnceInPages, TypeOK
      <4> QED
        BY <2>2, <3>1, <4>1 DEF TypeOK
    <3> QED
      BY <1>1, <2>1, <3>1 DEF RecycleDone, TypeOK, Blank
  <2>5. \A u \in Threads : {cachedL1Page[u], cachedShadowPage[u], fresh[u]} \cap freed = {}
    <3>1. ASSUME NEW u \in Threads, NEW p \in L1PagesOf(t)
          PROVE  p \notin {cachedL1Page[u], cachedShadowPage[u], fresh[u]}
      BY <2>2 DEF L1PagesOf, Once, InstalledNotKept, Tables, TypeOK
    <3>2. ASSUME NEW u \in Threads, NEW p \in ShadowPagesOf(t)
          PROVE  p \notin {cachedL1Page[u], cachedShadowPage[u], fresh[u]}
      BY <2>2 DEF ShadowPagesOf, Once, InstalledNotKept, TypeOK
    <3> QED
      BY <3>1, <3>2
  <2> QED
    BY <2>1, <2>3, <2>4, <2>5
<1>2. CASE GetL1Page(t)
  <2>1. PICK p \in L1Pages :
           /\ \A u \in Threads : /\ fresh'[u] = IF u = t THEN p ELSE fresh[u]
                                 /\ cachedL1Page'[u] = IF u = t THEN Nil ELSE cachedL1Page[u]
           /\ \/ p = cachedL1Page[t] /\ heap' = heap
              \/ p \notin heap /\ heap' = heap \cup {p} /\ cachedL1Page[t] = Nil
           /\ UNCHANGED <<pageTable, entries, cachedShadowPage>>
    BY <1>2, TakeL1Page
  <2> QED
    BY <2>1
<1>3. CASE InstallL1Page(t)
  BY <1>3 DEF InstallL1Page, TypeOK
<1>4. CASE SaveL1Page(t)
  BY <1>4, KeepL1Page
<1>5. CASE GetShadowPage(t)
  <2>1. PICK p \in ShadowPages :
           /\ \A u \in Threads : /\ fresh'[u] = IF u = t THEN p ELSE fresh[u]
                                 /\ cachedShadowPage'[u] = IF u = t THEN Nil ELSE cachedShadowPage[u]
           /\ \/ p = cachedShadowPage[t] /\ heap' = heap
              \/ p \notin heap /\ heap' = heap \cup {p} /\ cachedShadowPage[t] = Nil
           /\ UNCHANGED <<pageTable, entries, cachedL1Page>>
    BY <1>5, TakeShadowPage
  <2> QED
    BY <2>1
<1>6. CASE InstallShadowPage(t)
  BY <1>6 DEF InstallShadowPage, TypeOK
<1>7. CASE SaveShadowPage(t)
  BY <1>7, KeepShadowPage
<1>8. CASE UNCHANGED <<heap, pageTable, entries, cachedL1Page, cachedShadowPage, fresh>>
  BY <1>8
<1> QED
  BY <1>1, <1>2, <1>3, <1>4, <1>5, <1>6, <1>7, <1>8, NoMove

\* No page is lost: it moves to another place, or it is freed.
LEMMA NotLostStep == ASSUME IInv, NEW t \in Threads, Step(t) PROVE NotLost'
<1> USE DistinctAssumption DEF IInv
<1>1. CASE RecycleDone(t)
  <2> SUFFICES ASSUME NEW p \in heap, p \notin L1PagesOf(t), p \notin ShadowPagesOf(t)
               PROVE  \/ \E T \in Tables, i \in L1Indices : pageTable'[T][i] = p
                      \/ \E q \in L1Pages, j \in L2Indices : entries'[q][j] = p
                      \/ \E u \in Threads : p \in {cachedL1Page'[u], cachedShadowPage'[u], fresh'[u]}
    BY <1>1 DEF RecycleDone, NotLost
  <2>1. ASSUME NEW T \in Tables, NEW i \in L1Indices, pageTable[T][i] = p
        PROVE  pageTable'[T][i] = p
    BY <1>1, <2>1 DEF RecycleDone, L1PagesOf, TypeOK
  <2>2. ASSUME NEW q \in L1Pages, NEW j \in L2Indices, entries[q][j] = p
        PROVE  entries'[q][j] = p
    BY <1>1, <2>2 DEF RecycleDone, ShadowPagesOf, TypeOK
  <2>3. UNCHANGED <<cachedL1Page, cachedShadowPage, fresh>>
    BY <1>1 DEF RecycleDone
  <2> QED
    BY <2>1, <2>2, <2>3 DEF NotLost
<1>2. CASE GetL1Page(t)
  <2>1. PICK p \in L1Pages :
           /\ \A u \in Threads : /\ fresh'[u] = IF u = t THEN p ELSE fresh[u]
                                 /\ cachedL1Page'[u] = IF u = t THEN Nil ELSE cachedL1Page[u]
           /\ \/ p = cachedL1Page[t] /\ heap' = heap
              \/ p \notin heap /\ heap' = heap \cup {p} /\ cachedL1Page[t] = Nil
           /\ UNCHANGED <<pageTable, entries, cachedShadowPage>>
    BY <1>2, TakeL1Page
  <2>2. fresh[t] = Nil
    BY <1>2, PageInHand DEF GetL1Page
  <2>3. \A q \in heap : q # Nil
    BY DEF TypeOK
  <2> QED
    BY <2>1, <2>2, <2>3 DEF NotLost
<1>3. CASE InstallL1Page(t)
  <2>1. table[t] \in Tables /\ addr[t][1] \in L1Indices /\ L1Entry(t) = Nil
    BY <1>3, EntryTypes DEF InstallL1Page, Busy
  <2>2. /\ pageTable'[table[t]][addr[t][1]] = fresh[t]
        /\ \A T \in Tables, i \in L1Indices : pageTable[T][i] # Nil => pageTable'[T][i] = pageTable[T][i]
    BY <1>3, <2>1 DEF InstallL1Page, TypeOK, L1Entry
  <2>3. /\ \A u \in Threads : u # t => fresh'[u] = fresh[u]
        /\ UNCHANGED <<heap, entries, cachedL1Page, cachedShadowPage>>
    BY <1>3 DEF InstallL1Page, TypeOK
  <2>4. \A p \in heap : p # Nil
    BY DEF TypeOK
  <2> QED
    BY <2>1, <2>2, <2>3, <2>4 DEF NotLost
<1>4. CASE SaveL1Page(t)
  <2>1. cachedL1Page[t] = Nil
    BY <1>4 DEF SaveL1Page, CacheEmptyWhenSaving
  <2>2. /\ \A u \in Threads : /\ fresh'[u] = IF u = t THEN Nil ELSE fresh[u]
                              /\ cachedL1Page'[u] = IF u = t THEN fresh[t] ELSE cachedL1Page[u]
        /\ UNCHANGED <<heap, pageTable, entries, cachedShadowPage>>
    BY <1>4, KeepL1Page
  <2>3. \A p \in heap : p # Nil
    BY DEF TypeOK
  <2> QED
    BY <2>1, <2>2, <2>3 DEF NotLost
<1>5. CASE GetShadowPage(t)
  <2>1. PICK p \in ShadowPages :
           /\ \A u \in Threads : /\ fresh'[u] = IF u = t THEN p ELSE fresh[u]
                                 /\ cachedShadowPage'[u] = IF u = t THEN Nil ELSE cachedShadowPage[u]
           /\ \/ p = cachedShadowPage[t] /\ heap' = heap
              \/ p \notin heap /\ heap' = heap \cup {p} /\ cachedShadowPage[t] = Nil
           /\ UNCHANGED <<pageTable, entries, cachedL1Page>>
    BY <1>5, TakeShadowPage
  <2>2. fresh[t] = Nil
    BY <1>5, PageInHand DEF GetShadowPage
  <2>3. \A q \in heap : q # Nil
    BY DEF TypeOK
  <2> QED
    BY <2>1, <2>2, <2>3 DEF NotLost
<1>6. CASE InstallShadowPage(t)
  <2>1. L1Entry(t) \in L1Pages /\ addr[t][2] \in L2Indices /\ L2Entry(t) = Nil
    BY <1>6, EntryTypes DEF InstallShadowPage, Busy, Locals
  <2>2. /\ entries'[L1Entry(t)][addr[t][2]] = fresh[t]
        /\ \A q \in L1Pages, j \in L2Indices : entries[q][j] # Nil => entries'[q][j] = entries[q][j]
    BY <1>6, <2>1 DEF InstallShadowPage, TypeOK, L2Entry
  <2>3. /\ \A u \in Threads : u # t => fresh'[u] = fresh[u]
        /\ UNCHANGED <<heap, pageTable, cachedL1Page, cachedShadowPage>>
    BY <1>6 DEF InstallShadowPage, TypeOK
  <2>4. \A p \in heap : p # Nil
    BY DEF TypeOK
  <2> QED
    BY <2>1, <2>2, <2>3, <2>4 DEF NotLost
<1>7. CASE SaveShadowPage(t)
  <2>1. cachedShadowPage[t] = Nil
    BY <1>7 DEF SaveShadowPage, CacheEmptyWhenSaving
  <2>2. /\ \A u \in Threads : /\ fresh'[u] = IF u = t THEN Nil ELSE fresh[u]
                              /\ cachedShadowPage'[u] = IF u = t THEN fresh[t] ELSE cachedShadowPage[u]
        /\ UNCHANGED <<heap, pageTable, entries, cachedL1Page>>
    BY <1>7, KeepShadowPage
  <2>3. \A p \in heap : p # Nil
    BY DEF TypeOK
  <2> QED
    BY <2>1, <2>2, <2>3 DEF NotLost
<1>8. CASE UNCHANGED <<heap, pageTable, entries, cachedL1Page, cachedShadowPage, fresh>>
  BY <1>8 DEF NotLost
<1> QED
  BY <1>1, <1>2, <1>3, <1>4, <1>5, <1>6, <1>7, <1>8, NoMove

-----------------------------------------------------------------------------

\* The invariant holds in every reachable state.
THEOREM SpecIInv == Spec => []IInv
<1>1. ASSUME IInv, [Next]_vars PROVE IInv'
  <2>1. ASSUME NEW t \in Threads, Step(t) PROVE IInv'
    BY <1>1, <2>1, TypeStep, LocalsStep, CacheEmptyStep, OnceStep, AllocatedStep,
       NotLostStep DEF IInv
  <2>2. CASE UNCHANGED vars
    BY <1>1, <2>2 DEF vars, IInv, TypeOK, Locals, Busy, L1Entry, L2Entry, CacheEmptyWhenSaving,
       Once, OnceInTables, OnceInPages, InstalledNotKept, KeptOnce, Allocated, NotLost
  <2>3. CASE Next
    BY <2>1, <2>3 DEF Next, Step
  <2> QED
    BY <1>1, <2>2, <2>3
<1> QED
  BY InitIInv, <1>1, PTL DEF Spec

\* Every variable has its type, and a thread has a page in its hands exactly
\* between taking it and its compare-and-swap.
THEOREM TypeCorrect == Spec => []TypeOK
<1>1. IInv => TypeOK
  BY DEF IInv
<1> QED
  BY SpecIInv, <1>1, PTL

\* _saveL1Page and _saveShadowPage never drop a page, whatever the tables a
\* thread works on in between.
THEOREM CacheEmptyHolds == Spec => []CacheEmptyWhenSaving
<1>1. IInv => CacheEmptyWhenSaving
  BY DEF IInv
<1> QED
  BY SpecIInv, <1>1, PTL

\* Two lookups of one address in the shared table return one slot.
THEOREM SlotsAgreeHolds == Spec => []SlotsAgree
<1>1. IInv => SlotsAgree
  BY DEF IInv, Locals, SlotsAgree, L1Entry, L2Entry
<1> QED
  BY SpecIInv, <1>1, PTL

\* The slot of an address, once there, stays: histories are not lost.
THEOREM SlotsArePermanentHolds == Spec => SlotsArePermanent
<1>1. ASSUME IInv, [Next]_vars, NEW a \in Addresses, GlobalSlot(a) # Nil
      PROVE  GlobalSlot(a)' = GlobalSlot(a)
  <2>1. a[1] \in L1Indices /\ a[2] \in L2Indices
    BY DEF Addresses
  <2>2. pageTable[Global][a[1]] # Nil
    BY <1>1 DEF GlobalSlot
  <2>3. ASSUME NEW t \in Threads, Step(t) PROVE GlobalSlot(a)' = GlobalSlot(a)
    BY <1>1, <2>1, <2>2, <2>3, TableStays, DistinctAssumption DEF GlobalSlot, Tables
  <2>4. CASE UNCHANGED vars
    BY <2>4 DEF vars, GlobalSlot
  <2>5. CASE Next
    BY <2>3, <2>5 DEF Next, Step
  <2> QED
    BY <1>1, <2>4, <2>5
<1>2. IInv /\ [Next]_vars
        => [\A a \in Addresses : GlobalSlot(a) # Nil => GlobalSlot(a)' = GlobalSlot(a)]_vars
  BY <1>1
<1> QED
  BY SpecIInv, <1>2, PTL DEF Spec, SlotsArePermanent

-----------------------------------------------------------------------------

\* A page has at most one home.
LEMMA OneHome ==
  ASSUME IInv, NEW p \in L1Pages \cup ShadowPages, NEW x \in Homes(p), NEW y \in Homes(p)
  PROVE  x = y
<1> USE DistinctAssumption DEF IInv
<1> DEFINE InTable(h) == h \in Tables \X L1Indices /\ pageTable[h[1]][h[2]] = p
           InPage(h) == h \in L1Pages \X L2Indices /\ entries[h[1]][h[2]] = p
           Cached(h) == \E u \in Threads : h = <<u, "cached">> /\ p \in {cachedL1Page[u], cachedShadowPage[u]}
           InHand(h) == \E u \in Threads : h = <<u, "fresh">> /\ fresh[u] = p
<1>1. \A h \in {x, y} : InTable(h) \/ InPage(h) \/ Cached(h) \/ InHand(h)
  BY DEF Homes
<1>2. p # Nil
  OBVIOUS
<1>3. InTable(x) /\ InTable(y) => x = y
  BY <1>2 DEF Once, OnceInTables
<1>4. InPage(x) /\ InPage(y) => x = y
  BY <1>2 DEF Once, OnceInPages
<1>5. Cached(x) /\ Cached(y) => x = y
  BY <1>2 DEF Once, KeptOnce, TypeOK
<1>6. InHand(x) /\ InHand(y) => x = y
  BY <1>2 DEF Once, KeptOnce
<1>7. \A g, h \in {x, y} : ~(InTable(g) /\ InPage(h))
  BY <1>2 DEF TypeOK
<1>8. \A g, h \in {x, y} : InTable(g) => ~Cached(h) /\ ~InHand(h)
  BY <1>2 DEF Once, InstalledNotKept, TypeOK
<1>9. \A g, h \in {x, y} : InPage(g) => ~Cached(h) /\ ~InHand(h)
  BY <1>2 DEF Once, InstalledNotKept, TypeOK
<1>10. \A g, h \in {x, y} : ~(Cached(g) /\ InHand(h))
  BY <1>2 DEF Once, KeptOnce
<1> QED
  BY <1>1, <1>3, <1>4, <1>5, <1>6, <1>7, <1>8, <1>9, <1>10

\* An allocated page has a home, and only an allocated page has one.
LEMMA HomeIffAllocated ==
  ASSUME IInv, NEW p \in L1Pages \cup ShadowPages
  PROVE  p \in heap <=> Homes(p) # {}
<1> USE DistinctAssumption DEF IInv
<1>1. ASSUME p \in heap PROVE Homes(p) # {}
  <2>1. CASE \E T \in Tables, i \in L1Indices : pageTable[T][i] = p
    <3>1. PICK T \in Tables, i \in L1Indices : pageTable[T][i] = p
      BY <2>1
    <3>2. <<T, i>> \in Homes(p)
      BY <3>1 DEF Homes
    <3> QED
      BY <3>2
  <2>2. CASE \E q \in L1Pages, j \in L2Indices : entries[q][j] = p
    <3>1. PICK q \in L1Pages, j \in L2Indices : entries[q][j] = p
      BY <2>2
    <3>2. <<q, j>> \in Homes(p)
      BY <3>1 DEF Homes
    <3> QED
      BY <3>2
  <2>3. CASE \E t \in Threads : p \in {cachedL1Page[t], cachedShadowPage[t], fresh[t]}
    <3>1. PICK t \in Threads : p \in {cachedL1Page[t], cachedShadowPage[t], fresh[t]}
      BY <2>3
    <3>2. <<t, "cached">> \in Homes(p) \/ <<t, "fresh">> \in Homes(p)
      BY <3>1 DEF Homes
    <3> QED
      BY <3>2
  <2> QED
    BY <1>1, <2>1, <2>2, <2>3 DEF NotLost
<1>2. ASSUME Homes(p) # {} PROVE p \in heap
  <2>1. p # Nil
    OBVIOUS
  <2>2. PICK h : h \in Homes(p)
    BY <1>2
  <2>3. CASE h \in Tables \X L1Indices /\ pageTable[h[1]][h[2]] = p
    BY <2>1, <2>3 DEF Allocated
  <2>4. CASE h \in L1Pages \X L2Indices /\ entries[h[1]][h[2]] = p
    BY <2>1, <2>4 DEF Allocated
  <2>5. CASE \E t \in Threads : p \in {cachedL1Page[t], cachedShadowPage[t], fresh[t]}
    BY <2>1, <2>5 DEF Allocated
  <2> QED
    BY <2>2, <2>3, <2>4, <2>5 DEF Homes
<1> QED
  BY <1>1, <1>2

\* Every allocated page is in exactly one place, and a freed one in none.
THEOREM PagesHaveOneHomeHolds == Spec => []PagesHaveOneHome
<1>1. IInv => PagesHaveOneHome
  <2> SUFFICES ASSUME IInv, NEW p \in L1Pages \cup ShadowPages
               PROVE  Cardinality(Homes(p)) = IF p \in heap THEN 1 ELSE 0
    BY DEF PagesHaveOneHome
  <2>1. CASE p \in heap
    <3>1. PICK x : x \in Homes(p)
      BY <2>1, HomeIffAllocated
    <3>2. Homes(p) = {x}
      BY <3>1, OneHome
    <3> QED
      BY <2>1, <3>2, FS_Singleton
  <2>2. CASE p \notin heap
    <3>1. Homes(p) = {}
      BY <2>2, HomeIffAllocated
    <3> QED
      BY <2>2, <3>1, FS_EmptySet
  <2> QED
    BY <2>1, <2>2
<1> QED
  BY SpecIInv, <1>1, PTL
=============================================================================
