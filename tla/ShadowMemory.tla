---------------------------- MODULE ShadowMemory ----------------------------
(***************************************************************************)
(* The two-level table of RompLib/include/ShadowMemory.h, which maps a     *)
(* byte of memory to the slot that keeps its access history.  All threads  *)
(* share the table `shadowMemory` of RompLib.cpp and install its pages     *)
(* with a compare-and-swap and no lock; a page that loses the race is      *)
(* kept in a thread_local pointer for the next lookup.  That pointer is a  *)
(* static member, so a thread uses the same one with the table that        *)
(* recycleMemRange (DataSharing.cpp) declares for itself.                  *)
(*                                                                         *)
(* An address is a pair of indices: which byte of a page it is does not    *)
(* matter here, so a shadow page stands for a slot.  A plain load of a     *)
(* table entry is atomic, as on the x86-64 the code is written for.        *)
(***************************************************************************)
EXTENDS Naturals, FiniteSets

CONSTANTS Threads,
          L1Indices, L2Indices,  \* the values of the two index fields
          Ranges,                \* the sets of addresses one access or recycling covers
          L1Pages, ShadowPages,  \* the memory calloc can return; bounds the runs
          Global,                \* the table shared by the threads
          Nil                    \* a null pointer

Addresses == L1Indices \X L2Indices

ASSUME RangesAssumption == Ranges \subseteq SUBSET Addresses \ {{}}

ASSUME DistinctAssumption == /\ Global \notin Threads
                             /\ Nil \notin L1Pages \cup ShadowPages
                             /\ L1Pages \cap ShadowPages = {}

\* A table is the shared one or the local variable of recycleMemRange, of which
\* a thread has at most one at a time.
Tables == Threads \cup {Global}

VARIABLES heap,          \* the pages allocated and not yet freed
          pageTable,     \* _pageTable of each table
          entries,       \* the entries of each first level page
          recycled,      \* the slots whose eMemoryRecycled flag is set
          cachedL1Page, cachedShadowPage,  \* thread_local members
          fresh,         \* locals freshL1Page and freshShadowPage
          table,         \* the table each thread works on
          todo,          \* the addresses the loop of the thread has left
          addr,          \* the address being looked up
          slot,          \* the value getShadowMemorySlot returned
          pc

vars == <<heap, pageTable, entries, recycled, cachedL1Page, cachedShadowPage,
          fresh, table, todo, addr, slot, pc>>

Blank == [j \in L2Indices |-> Nil]

NoAddress == <<>>

Init == /\ heap = {}
        /\ pageTable = [T \in Tables |-> [i \in L1Indices |-> Nil]]
        /\ entries = [p \in L1Pages |-> Blank]
        /\ recycled = {}
        /\ cachedL1Page = [t \in Threads |-> Nil]
        /\ cachedShadowPage = [t \in Threads |-> Nil]
        /\ fresh = [t \in Threads |-> Nil]
        /\ table = [t \in Threads |-> Global]
        /\ todo = [t \in Threads |-> {}]
        /\ addr = [t \in Threads |-> NoAddress]
        /\ slot = [t \in Threads |-> Nil]
        /\ pc = [t \in Threads |-> "idle"]

Goto(t, label) == pc' = [pc EXCEPT ![t] = label]

L1Entry(t) == pageTable[table[t]][addr[t][1]]

L2Entry(t) == entries[L1Entry(t)][addr[t][2]]

-----------------------------------------------------------------------------
(* The two callers, each a loop over addresses.                             *)

\* checkAccess looks up every byte of an access in the shared table.
Access(t) == /\ pc[t] = "idle"
             /\ \E r \in Ranges : todo' = [todo EXCEPT ![t] = r]
             /\ table' = [table EXCEPT ![t] = Global]
             /\ Goto(t, "loop")
             /\ UNCHANGED <<heap, pageTable, entries, recycled, cachedL1Page,
                            cachedShadowPage, fresh, addr, slot>>

\* recycleMemRange looks up every byte of a range in a table of its own.
RecycleMemRange(t) == /\ pc[t] = "idle"
                      /\ \E r \in Ranges : todo' = [todo EXCEPT ![t] = r]
                      /\ table' = [table EXCEPT ![t] = t]
                      /\ Goto(t, "loop")
                      /\ UNCHANGED <<heap, pageTable, entries, recycled, cachedL1Page,
                                     cachedShadowPage, fresh, addr, slot>>

NextAddress(t) == /\ pc[t] = "loop"
                  /\ \E a \in todo[t] : /\ addr' = [addr EXCEPT ![t] = a]
                                        /\ todo' = [todo EXCEPT ![t] = @ \ {a}]
                  /\ Goto(t, "l1")
                  /\ UNCHANGED <<heap, pageTable, entries, recycled, cachedL1Page,
                                 cachedShadowPage, fresh, table, slot>>

\* checkAccess hands the slot to checkDataRace.  Of a marked slot it clears the flag,
\* unless it returns before it looks: the memory is private or has its race already.
UseSlot(t) == /\ pc[t] = "slot"
              /\ table[t] = Global
              /\ recycled' \in {recycled, recycled \ {slot[t]}}
              /\ Goto(t, "loop")
              /\ UNCHANGED <<heap, pageTable, entries, cachedL1Page,
                             cachedShadowPage, fresh, table, todo, addr, slot>>

\* recycleMemRange sets the flag of the slot.
MarkSlot(t) == /\ pc[t] = "slot"
               /\ table[t] # Global
               /\ recycled' = recycled \cup {slot[t]}
               /\ Goto(t, "loop")
               /\ UNCHANGED <<heap, pageTable, entries, cachedL1Page,
                              cachedShadowPage, fresh, table, todo, addr, slot>>

AccessDone(t) == /\ pc[t] = "loop"
                 /\ table[t] = Global
                 /\ todo[t] = {}
                 /\ Goto(t, "idle")
                 /\ addr' = [addr EXCEPT ![t] = NoAddress]
                 /\ slot' = [slot EXCEPT ![t] = Nil]
                 /\ UNCHANGED <<heap, pageTable, entries, recycled, cachedL1Page,
                                cachedShadowPage, fresh, table, todo>>

L1PagesOf(T) == {pageTable[T][i] : i \in L1Indices} \ {Nil}

ShadowPagesOf(T) == {entries[p][j] : p \in L1PagesOf(T), j \in L2Indices} \ {Nil}

\* Mutated form of RecycleDone: the destructor frees the directory only.
RecycleDoneShallow(t) ==
    /\ pc[t] = "loop"
    /\ table[t] # Global
    /\ todo[t] = {}
    /\ heap' = heap \ L1PagesOf(t)
    /\ recycled' = recycled \ ShadowPagesOf(t)
    /\ pageTable' = [pageTable EXCEPT ![t] = [i \in L1Indices |-> Nil]]
    /\ entries' = [p \in L1Pages |-> IF p \in L1PagesOf(t) THEN Blank ELSE entries[p]]
    /\ addr' = [addr EXCEPT ![t] = NoAddress]
    /\ slot' = [slot EXCEPT ![t] = Nil]
    /\ Goto(t, "idle")
    /\ UNCHANGED <<cachedL1Page, cachedShadowPage, fresh, table, todo>>

\* The local table goes out of scope: ~ShadowMemory frees every page in it.
\* calloc clears a page it returns again, so a freed page is blank here.
RecycleDone(t) ==
    /\ pc[t] = "loop"
    /\ table[t] # Global
    /\ todo[t] = {}
    /\ heap' = heap \ (L1PagesOf(t) \cup ShadowPagesOf(t))
    /\ recycled' = recycled \ ShadowPagesOf(t)
    /\ pageTable' = [pageTable EXCEPT ![t] = [i \in L1Indices |-> Nil]]
    /\ entries' = [p \in L1Pages |-> IF p \in L1PagesOf(t) THEN Blank ELSE entries[p]]
    /\ addr' = [addr EXCEPT ![t] = NoAddress]
    /\ slot' = [slot EXCEPT ![t] = Nil]
    /\ Goto(t, "idle")
    /\ UNCHANGED <<cachedL1Page, cachedShadowPage, fresh, table, todo>>

-----------------------------------------------------------------------------
(* _getOrCreatePageForMemAddr                                               *)

\* calloc returns some page that is not in use; which one does not matter.  Its
\* failure (a fatal error) is not modelled.
Calloc(pages) == CHOOSE p \in pages : p \notin heap

CanCalloc(pages) == pages \ heap # {}

L1PageThere(t) == /\ pc[t] = "l1"
                  /\ L1Entry(t) # Nil
                  /\ Goto(t, "l2")
                  /\ UNCHANGED <<heap, pageTable, entries, recycled, cachedL1Page,
                                 cachedShadowPage, fresh, table, todo, addr, slot>>

\* Mutated form of GetL1Page: the cached page is taken and stays cached.
GetL1PageTwice(t) ==
    /\ pc[t] = "l1"
    /\ L1Entry(t) = Nil
    /\ \/ /\ cachedL1Page[t] # Nil
          /\ fresh' = [fresh EXCEPT ![t] = cachedL1Page[t]]
          /\ UNCHANGED <<heap, cachedL1Page>>
       \/ /\ cachedL1Page[t] = Nil
          /\ CanCalloc(L1Pages)
          /\ fresh' = [fresh EXCEPT ![t] = Calloc(L1Pages)]
          /\ heap' = heap \cup {Calloc(L1Pages)}
          /\ UNCHANGED cachedL1Page
    /\ Goto(t, "l1cas")
    /\ UNCHANGED <<pageTable, entries, recycled, cachedShadowPage, table, todo, addr, slot>>

\* The entry is empty: _getL1Page takes the thread's cached page or a new one.
GetL1Page(t) ==
    /\ pc[t] = "l1"
    /\ L1Entry(t) = Nil
    /\ \/ /\ cachedL1Page[t] # Nil
          /\ fresh' = [fresh EXCEPT ![t] = cachedL1Page[t]]
          /\ cachedL1Page' = [cachedL1Page EXCEPT ![t] = Nil]
          /\ UNCHANGED heap
       \/ /\ cachedL1Page[t] = Nil
          /\ CanCalloc(L1Pages)
          /\ fresh' = [fresh EXCEPT ![t] = Calloc(L1Pages)]
          /\ heap' = heap \cup {Calloc(L1Pages)}
          /\ UNCHANGED cachedL1Page
    /\ Goto(t, "l1cas")
    /\ UNCHANGED <<pageTable, entries, recycled, cachedShadowPage, table, todo, addr, slot>>

InstallL1Page(t) ==
    /\ pc[t] = "l1cas"
    /\ L1Entry(t) = Nil
    /\ pageTable' = [pageTable EXCEPT ![table[t]][addr[t][1]] = fresh[t]]
    /\ fresh' = [fresh EXCEPT ![t] = Nil]
    /\ Goto(t, "l2")
    /\ UNCHANGED <<heap, entries, recycled, cachedL1Page, cachedShadowPage,
                   table, todo, addr, slot>>

\* The compare-and-swap failed: _saveL1Page keeps the page, unless one is kept
\* already, in which case it logs an error and drops the page.
SaveL1Page(t) ==
    /\ pc[t] = "l1cas"
    /\ L1Entry(t) # Nil
    /\ cachedL1Page' = [cachedL1Page EXCEPT ![t] = IF @ = Nil THEN fresh[t] ELSE @]
    /\ fresh' = [fresh EXCEPT ![t] = Nil]
    /\ Goto(t, "l2")
    /\ UNCHANGED <<heap, pageTable, entries, recycled, cachedShadowPage,
                   table, todo, addr, slot>>

ShadowPageThere(t) == /\ pc[t] = "l2"
                      /\ L2Entry(t) # Nil
                      /\ slot' = [slot EXCEPT ![t] = L2Entry(t)]
                      /\ Goto(t, "slot")
                      /\ UNCHANGED <<heap, pageTable, entries, recycled, cachedL1Page,
                                     cachedShadowPage, fresh, table, todo, addr>>

\* Mutated form of GetShadowPage: the cached pointer is not compared with nullptr.
GetCachedShadowPage(t) ==
    /\ pc[t] = "l2"
    /\ L2Entry(t) = Nil
    /\ fresh' = [fresh EXCEPT ![t] = cachedShadowPage[t]]
    /\ cachedShadowPage' = [cachedShadowPage EXCEPT ![t] = Nil]
    /\ Goto(t, "l2cas")
    /\ UNCHANGED <<heap, pageTable, entries, recycled, cachedL1Page, table, todo, addr, slot>>

GetShadowPage(t) ==
    /\ pc[t] = "l2"
    /\ L2Entry(t) = Nil
    /\ \/ /\ cachedShadowPage[t] # Nil
          /\ fresh' = [fresh EXCEPT ![t] = cachedShadowPage[t]]
          /\ cachedShadowPage' = [cachedShadowPage EXCEPT ![t] = Nil]
          /\ UNCHANGED heap
       \/ /\ cachedShadowPage[t] = Nil
          /\ CanCalloc(ShadowPages)
          /\ fresh' = [fresh EXCEPT ![t] = Calloc(ShadowPages)]
          /\ heap' = heap \cup {Calloc(ShadowPages)}
          /\ UNCHANGED cachedShadowPage
    /\ Goto(t, "l2cas")
    /\ UNCHANGED <<pageTable, entries, recycled, cachedL1Page, table, todo, addr, slot>>

\* Mutated form of InstallShadowPage: a plain store, whatever the entry holds.
StoreShadowPage(t) ==
    /\ pc[t] = "l2cas"
    /\ entries' = [entries EXCEPT ![L1Entry(t)][addr[t][2]] = fresh[t]]
    /\ slot' = [slot EXCEPT ![t] = fresh[t]]
    /\ fresh' = [fresh EXCEPT ![t] = Nil]
    /\ Goto(t, "slot")
    /\ UNCHANGED <<heap, pageTable, recycled, cachedL1Page, cachedShadowPage,
                   table, todo, addr>>

\* The entry never changes again, so the load of the return statement is part
\* of this action and of SaveShadowPage.
InstallShadowPage(t) ==
    /\ pc[t] = "l2cas"
    /\ L2Entry(t) = Nil
    /\ entries' = [entries EXCEPT ![L1Entry(t)][addr[t][2]] = fresh[t]]
    /\ slot' = [slot EXCEPT ![t] = fresh[t]]
    /\ fresh' = [fresh EXCEPT ![t] = Nil]
    /\ Goto(t, "slot")
    /\ UNCHANGED <<heap, pageTable, recycled, cachedL1Page, cachedShadowPage,
                   table, todo, addr>>

\* Mutated form of SaveShadowPage: the page is kept and also returned to the caller.
SaveAndUseShadowPage(t) ==
    /\ pc[t] = "l2cas"
    /\ L2Entry(t) # Nil
    /\ cachedShadowPage' = [cachedShadowPage EXCEPT ![t] = IF @ = Nil THEN fresh[t] ELSE @]
    /\ slot' = [slot EXCEPT ![t] = fresh[t]]
    /\ fresh' = [fresh EXCEPT ![t] = Nil]
    /\ Goto(t, "slot")
    /\ UNCHANGED <<heap, pageTable, entries, recycled, cachedL1Page, table, todo, addr>>

SaveShadowPage(t) ==
    /\ pc[t] = "l2cas"
    /\ L2Entry(t) # Nil
    /\ cachedShadowPage' = [cachedShadowPage EXCEPT ![t] = IF @ = Nil THEN fresh[t] ELSE @]
    /\ slot' = [slot EXCEPT ![t] = L2Entry(t)]
    /\ fresh' = [fresh EXCEPT ![t] = Nil]
    /\ Goto(t, "slot")
    /\ UNCHANGED <<heap, pageTable, entries, recycled, cachedL1Page, table, todo, addr>>

Next == \E t \in Threads :
          \/ Access(t) \/ RecycleMemRange(t) \/ NextAddress(t)
          \/ UseSlot(t) \/ MarkSlot(t) \/ AccessDone(t) \/ RecycleDone(t)
          \/ L1PageThere(t) \/ GetL1Page(t) \/ InstallL1Page(t) \/ SaveL1Page(t)
          \/ ShadowPageThere(t) \/ GetShadowPage(t) \/ InstallShadowPage(t)
          \/ SaveShadowPage(t)

Spec == Init /\ [][Next]_vars

-----------------------------------------------------------------------------
(* Properties                                                               *)

\* Every variable has its type, and a thread has a page to install exactly
\* while it is between _getL1Page or _getShadowPage and the compare-and-swap
\* (ShadowMemory.h:187-203).
TypeOK ==
    /\ heap \subseteq L1Pages \cup ShadowPages
    /\ pageTable \in [Tables -> [L1Indices -> L1Pages \cup {Nil}]]
    /\ entries \in [L1Pages -> [L2Indices -> ShadowPages \cup {Nil}]]
    /\ recycled \subseteq ShadowPages
    /\ cachedL1Page \in [Threads -> L1Pages \cup {Nil}]
    /\ cachedShadowPage \in [Threads -> ShadowPages \cup {Nil}]
    /\ fresh \in [Threads -> L1Pages \cup ShadowPages \cup {Nil}]
    /\ table \in [Threads -> Tables]
    /\ todo \in [Threads -> SUBSET Addresses]
    /\ addr \in [Threads -> Addresses \cup {NoAddress}]
    /\ slot \in [Threads -> ShadowPages \cup {Nil}]
    /\ pc \in [Threads -> {"idle", "loop", "l1", "l1cas", "l2", "l2cas", "slot"}]
    /\ \A t \in Threads : /\ pc[t] = "l1cas" <=> fresh[t] \in L1Pages
                          /\ pc[t] = "l2cas" <=> fresh[t] \in ShadowPages

\* The places that hold a page: an entry of a table or of a first level page, a
\* thread's cache, the hands of a thread.
Homes(p) == {h \in Tables \X L1Indices : pageTable[h[1]][h[2]] = p}
            \cup {h \in L1Pages \X L2Indices : entries[h[1]][h[2]] = p}
            \cup {<<t, "cached">> : t \in {u \in Threads : p \in {cachedL1Page[u], cachedShadowPage[u]}}}
            \cup {<<t, "fresh">> : t \in {u \in Threads : fresh[u] = p}}

\* Every allocated page is in exactly one place and a freed one in none: no page
\* is lost when a compare-and-swap fails, none is installed twice or installed
\* and cached (two ranges of memory would share histories), none is freed while
\* something refers to it (ShadowMemory.h:183-281).
PagesHaveOneHome == \A p \in L1Pages \cup ShadowPages :
                      Cardinality(Homes(p)) = IF p \in heap THEN 1 ELSE 0

\* Two threads that look up one address at the same time work on one slot: the
\* lock in the slot would protect nothing otherwise (RompLib.cpp:180-182).
SlotsAgree == \A t, u \in Threads :
                (/\ pc[t] = "slot" /\ pc[u] = "slot"
                 /\ table[t] = Global /\ table[u] = Global
                 /\ addr[t] = addr[u]) => slot[t] = slot[u]

\* A page installed in the shared table stays there: the histories collected in
\* it are those every later lookup finds (ShadowMemory.h:183-206).
GlobalSlot(a) == IF pageTable[Global][a[1]] = Nil THEN Nil
                 ELSE entries[pageTable[Global][a[1]]][a[2]]

SlotsArePermanent == [][\A a \in Addresses :
                          GlobalSlot(a) # Nil => GlobalSlot(a)' = GlobalSlot(a)]_vars

\* "It is always expected that when this function is called, the cached pointer
\* is nullptr" (ShadowMemory.h:261-264): _saveL1Page and _saveShadowPage never
\* drop a page, although the cache is shared by all tables the thread uses.
CacheEmptyWhenSaving == \A t \in Threads :
                          /\ pc[t] = "l1cas" => cachedL1Page[t] = Nil
                          /\ pc[t] = "l2cas" => cachedShadowPage[t] = Nil

\* "This function is responsible for marking memory ranges in [lowerBound,
\* upperBound] to be deallocated" (DataSharing.cpp:64-67): once recycleMemRange
\* has marked an address, the slot that accesses to it use is marked.
RecycledIsMarked ==
    [][\A t \in Threads :
         (MarkSlot(t) /\ GlobalSlot(addr[t]) # Nil)
           => GlobalSlot(addr[t])' \in recycled']_vars
=============================================================================
