-------------------------- MODULE TaskCacheProofs --------------------------
(***************************************************************************)
(* The cache of task lists, for any number of lists, writes and tries of a *)
(* command: versions and revisions stay in their ranges, and an INCR that  *)
(* Redis runs mends the cache until something spoils it again.             *)
(***************************************************************************)
EXTENDS TaskCache, FiniteSetTheorems, TLAPS

\* The writes that have committed, and those that have ended.
Committed == {w \in Writers : made[w] # None}
Ended == {w \in Writers : pc[w] = "done"}

Storing == {"set_version", "set_nx", "set"}

\* Who is where, with what in hand.
ReaderInv ==
  \A c \in Readers :
    /\ pc[c] \notin {"write", "invalidate"}
    /\ pc[c] \in {"get", "set"} => at[c] # None
    /\ pc[c] \in {"select"} \cup Storing => total[c] # None /\ total[c] <= rev
    /\ pc[c] \in Storing => rows[c] # None /\ total[c] <= rows[c] /\ rows[c] <= rev
WriterInv ==
  \A w \in Writers :
    /\ pc[w] \in {"write", "invalidate", "done"}
    /\ pc[w] = "invalidate" => made[w] # None
    /\ pc[w] = "write" => made[w] = None

\* Every write counts at most once in the revision, and as often as its INCR is
\* sent in the version.
CountInv ==
  /\ rev = Cardinality(Committed)
  /\ ver # None => ver <= Tries * Cardinality(Ended) + 1

TypeInv == TypeOK /\ ReaderInv /\ WriterInv /\ CountInv

\* A write is on its way to invalidate the cache.
Pending == \E w \in Writers : pc[w] = "invalidate"

\* No version but the first is used before the counter has it.
VersionInv ==
  /\ ver = None => /\ \A v \in Versions : v > 1 => cache[v] = None
                   /\ \A c \in Readers : at[c] \in {None, 1}
  /\ ver # None => /\ \A v \in Versions : v > ver => cache[v] = None
                   /\ \A c \in Readers : at[c] # None => at[c] <= ver

\* Nor is the first one, unless a SETNX failed.
UnusedInv ==
  ver = None => cache[1] = None /\ \A c \in Readers : at[c] = None

\* An outdated list that is cached, or about to be under the present version,
\* has a write pending that will leave that version behind.
OutdatedInv ==
  \A c \in Readers :
    \/ Pending
    \/ pc[c] \in {"select", "set_version", "set_nx"} => total[c] = rev
ReadyInv ==
  \A c \in Readers :
    \/ Pending
    \/ (pc[c] = "set" /\ at[c] = ver) => total[c] = rev
CachedInv == Pending \/ ver = None \/ cache[ver] \in {None, Present}

CleanInv == UnusedInv /\ OutdatedInv /\ ReadyInv /\ CachedInv
FreshInv == VersionInv /\ (~spoiled => CleanInv)

-----------------------------------------------------------------------------
(* Types *)

\* More writes leave room for more versions.
LEMMA Products ==
  ASSUME NEW m \in Nat, NEW n \in Nat, m <= n
  PROVE  /\ Tries * m \in Nat /\ Tries * m <= Tries * n
         /\ Tries * (m + 1) = Tries * m + Tries
BY CacheAssumption

\* The numbers involved.
LEMMA Numbers ==
  /\ MaxRev \in Nat /\ Tries \in Nat \ {0} /\ 1 \in Versions
  /\ None \notin Nat /\ None \notin Revs /\ None \notin Versions /\ None \notin Lists
  /\ Revs \subseteq Nat /\ 0 \in Revs
  /\ Versions \subseteq Nat /\ \A v \in Versions : v >= 1
  /\ \A S \in SUBSET Writers : IsFiniteSet(S) /\ Cardinality(S) \in Revs
<1>1. MaxRev \in Nat /\ Tries \in Nat \ {0}
  BY CacheAssumption, FS_CardinalityType DEF MaxRev
<1>2. MaxRev * Tries \in Nat
  BY <1>1
<1>3. ASSUME NEW S \in SUBSET Writers PROVE IsFiniteSet(S) /\ Cardinality(S) \in Revs
  <2>1. IsFiniteSet(S) /\ Cardinality(S) <= MaxRev
    BY CacheAssumption, FS_Subset DEF MaxRev
  <2>2. QED
    BY <1>1, <2>1, FS_CardinalityType DEF Revs
<1>4. Revs \subseteq Nat /\ 0 \in Revs
  BY <1>1 DEF Revs
<1>5. Versions \subseteq Nat /\ 1 \in Versions /\ \A v \in Versions : v >= 1
  BY <1>2 DEF Versions
<1>6. QED
  BY <1>1, <1>3, <1>4, <1>5, CacheNoneAssumption

\* A version that is within the count is one of the versions.
LEMMA VersionRange ==
  ASSUME NEW S \in SUBSET Writers, NEW v \in Nat, 1 <= v, v <= Tries * Cardinality(S) + 1
  PROVE  v \in Versions
<1>1. Cardinality(S) \in Nat /\ Cardinality(S) <= MaxRev /\ MaxRev \in Nat /\ Tries \in Nat
  BY Numbers DEF Revs
<1>2. Tries * Cardinality(S) <= Tries * MaxRev /\ Tries * Cardinality(S) \in Nat
  BY <1>1, Products
<1>3. Tries * MaxRev = MaxRev * Tries /\ MaxRev * Tries \in Nat
  BY <1>1
<1>4. QED
  BY <1>2, <1>3 DEF Versions

\* The initial state.
LEMMA TypeInit == Init => TypeInv
<1> SUFFICES ASSUME Init PROVE TypeInv
  OBVIOUS
<1>1. Readers \cap Writers = {}
  BY CacheAssumption
<1>2. TypeOK
  <2>1. pc \in [Readers \cup Writers -> {"start", "write"}]
    BY DEF Init
  <2>2. pc \in [Readers \cup Writers -> {"start", "version", "nx", "get", "count", "select",
                 "set_version", "set_nx", "set", "write", "invalidate", "done"}]
    BY <2>1
  <2>3. spoiled \in BOOLEAN
    BY DEF Init
  <2>4. rev \in Revs /\ acked \in Revs /\ ver = None
    BY Numbers DEF Init
  <2>5. /\ cache \in [Versions -> Lists \cup {None}]
        /\ total \in [Readers -> Revs \cup {None}] /\ rows \in [Readers -> Revs \cup {None}]
        /\ at \in [Readers -> Versions \cup {None}]
        /\ made \in [Writers -> Revs \cup {None}]
        /\ answer \in [Readers -> Lists \cup {None}]
        /\ since \in [Readers -> Revs]
    BY Numbers DEF Init
  <2>6. QED
    BY <2>2, <2>3, <2>4, <2>5 DEF TypeOK
<1>3. ReaderInv /\ WriterInv
  BY <1>1 DEF Init, ReaderInv, WriterInv, Storing
<1>4. Committed = {}
  BY DEF Init, Committed
<1>5. CountInv
  BY <1>4, FS_EmptySet DEF CountInv, Init
<1>6. QED
  BY <1>2, <1>3, <1>5 DEF TypeInv

\* A step of a reader changes neither the counts nor the pending writes.
LEMMA ReaderCounts ==
  ASSUME TypeInv, NEW c \in Readers, Start(c) \/ ReaderStep(c)
  PROVE  \E to \in {"version", "nx", "get", "count", "select", "set_version", "set_nx", "set", "done"} :
           /\ pc' = [pc EXCEPT ![c] = to] /\ pc'[c] = to
           /\ \A d \in Readers : d # c => pc'[d] = pc[d]
           /\ \A w \in Writers : pc'[w] = pc[w]
           /\ Committed' = Committed /\ Ended' = Ended
           /\ Pending' <=> Pending
           /\ UNCHANGED <<rev, made, acked>>
<1>1. PICK to \in {"version", "nx", "get", "count", "select", "set_version", "set_nx", "set", "done"} :
        pc' = [pc EXCEPT ![c] = to]
  BY DEF Start, ReaderStep, Goto, getVersion, SetNX, VersionFails, GetList, GetListFails,
         CountTasks, SelectTasks, ListTasksFails, SetList
<1>2. UNCHANGED <<rev, made, acked>>
  BY DEF Start, ReaderStep, getVersion, SetNX, VersionFails, GetList, GetListFails,
         CountTasks, SelectTasks, ListTasksFails, SetList
<1>3. /\ pc'[c] = to /\ \A d \in Readers : d # c => pc'[d] = pc[d]
      /\ \A w \in Writers : pc'[w] = pc[w]
  BY <1>1, CacheAssumption DEF TypeInv, TypeOK
<1>4. Committed' = Committed /\ Ended' = Ended /\ (Pending' <=> Pending)
  BY <1>2, <1>3 DEF Committed, Ended, Pending
<1>5. QED
  BY <1>1, <1>2, <1>3, <1>4

\* Each step of a list request keeps the types.
LEMMA ReaderTypes ==
  ASSUME TypeInv, NEW c \in Readers, Start(c) \/ ReaderStep(c)
  PROVE  TypeInv'
<1>1. PICK to \in {"version", "nx", "get", "count", "select", "set_version", "set_nx", "set", "done"} :
        /\ pc' = [pc EXCEPT ![c] = to] /\ pc'[c] = to
        /\ \A d \in Readers : d # c => pc'[d] = pc[d]
        /\ \A w \in Writers : pc'[w] = pc[w]
        /\ Committed' = Committed /\ Ended' = Ended
        /\ UNCHANGED <<rev, made, acked>>
  BY ReaderCounts
<1>2. rev \in Revs /\ rev \in Nat /\ rev # None /\ FirstVersion \in Versions /\ FirstVersion = 1
  BY Numbers DEF FirstVersion, TypeInv, TypeOK
<1>3. WriterInv'
  BY <1>1 DEF TypeInv, WriterInv
<1>4. pc' \in [Readers \cup Writers -> {"start", "version", "nx", "get", "count", "select",
                 "set_version", "set_nx", "set", "write", "invalidate", "done"}]
  BY <1>1 DEF TypeInv, TypeOK
\* It is enough that what the step reads and writes has its type.
<1>5. ASSUME ver' \in Versions \cup {None}, ver' # ver => ver' = 1,
             cache' \in [Versions -> Lists \cup {None}],
             total' \in [Readers -> Revs \cup {None}], rows' \in [Readers -> Revs \cup {None}],
             at' \in [Readers -> Versions \cup {None}], answer' \in [Readers -> Lists \cup {None}],
             since' \in [Readers -> Revs], spoiled' \in BOOLEAN,
             ReaderInv'
      PROVE  TypeInv'
  <2>1. TypeOK'
    BY <1>1, <1>4, <1>5 DEF TypeInv, TypeOK
  <2>2. CountInv'
    <3>1. Cardinality(Ended) \in Nat
      BY Numbers DEF Ended
    <3>2. 1 <= Tries * Cardinality(Ended) + 1
      BY <3>1, Products
    <3>3. QED
      BY <1>1, <1>5, <3>2 DEF TypeInv, CountInv
  <2>3. QED
    BY <1>3, <1>5, <2>1, <2>2 DEF TypeInv
<1>6. CASE Start(c)
  <2>1. /\ to = "version" /\ since' \in [Readers -> Revs]
        /\ UNCHANGED <<ver, cache, total, rows, at, answer, spoiled>>
    BY <1>1, <1>6 DEF Start, Goto, redisVars, TypeInv, TypeOK
  <2>2. ReaderInv'
    BY <1>1, <2>1 DEF TypeInv, ReaderInv, Storing
  <2>3. QED
    BY <1>5, <2>1, <2>2 DEF TypeInv, TypeOK
<1>7. ASSUME NEW from \in {"version", "set_version"}, NEW setnx \in {"nx", "set_nx"}, NEW go \in {"get", "set"},
             from = "version" => setnx = "nx" /\ go = "get",
             getVersion(c, from, setnx, go)
      PROVE  TypeInv'
  <2>1. UNCHANGED <<ver, cache, total, rows, answer, since, spoiled>> /\ pc[c] = from
    BY <1>7 DEF getVersion, Goto, redisVars
  <2>2. \/ ver \in Versions /\ to = go /\ at' = [at EXCEPT ![c] = ver]
        \/ to = setnx /\ at' = at
    BY <1>1, <1>7 DEF getVersion, Goto, TypeInv, TypeOK
  <2>3. at' \in [Readers -> Versions \cup {None}]
    BY <2>2 DEF TypeInv, TypeOK
  <2>4. to \in {"get", "set"} => at'[c] # None
    BY <2>2, Numbers, <1>7 DEF TypeInv, TypeOK
  <2>5. \A d \in Readers : d # c => at'[d] = at[d]
    BY <2>2 DEF TypeInv, TypeOK
  <2>6. to \in Storing => pc[c] \in Storing
    BY <1>7, <2>1, <2>2 DEF Storing
  <2>7. to \in {"nx", "get", "set_nx", "set"}
    BY <1>7, <2>2
  <2>8. ReaderInv'
    BY <1>1, <2>1, <2>4, <2>5, <2>6, <2>7 DEF TypeInv, ReaderInv, Storing
  <2>9. QED
    BY <1>5, <2>1, <2>3, <2>8 DEF TypeInv, TypeOK
<1>8. ASSUME NEW from \in {"nx", "set_nx"}, NEW go \in {"get", "set"},
             from = "nx" => go = "get", SetNX(c, from, go)
      PROVE  TypeInv'
  <2>1. /\ pc[c] = from /\ to = go /\ at' = [at EXCEPT ![c] = 1]
        /\ UNCHANGED <<cache, total, rows, answer, since>>
    BY <1>1, <1>2, <1>8 DEF SetNX, Goto, TypeInv, TypeOK
  <2>2. ver' \in {ver, 1} /\ ver' \in Versions \cup {None}
    BY <1>2, <1>8 DEF SetNX, TypeInv, TypeOK
  <2>3. spoiled' \in BOOLEAN
    BY <1>8 DEF SetNX, TypeInv, TypeOK
  <2>4. at' \in [Readers -> Versions \cup {None}] /\ at'[c] = 1 /\ at'[c] # None
    BY <1>2, <2>1, Numbers DEF TypeInv, TypeOK
  <2>5. \A d \in Readers : d # c => at'[d] = at[d]
    BY <2>1 DEF TypeInv, TypeOK
  <2>6. ReaderInv'
    BY <1>1, <1>8, <2>1, <2>4, <2>5 DEF TypeInv, ReaderInv, Storing
  <2>7. QED
    BY <1>5, <2>1, <2>2, <2>3, <2>4, <2>6 DEF TypeInv, TypeOK
<1>9. CASE VersionFails(c) \/ GetListFails(c) \/ ListTasksFails(c)
  <2>1. /\ to \in {"count", "done"}
        /\ UNCHANGED <<ver, cache, total, rows, at, answer, since, spoiled>>
    BY <1>1, <1>9 DEF VersionFails, GetListFails, ListTasksFails, Goto, redisVars, readerVars, TypeInv, TypeOK
  <2>2. ReaderInv'
    BY <1>1, <2>1 DEF TypeInv, ReaderInv, Storing
  <2>3. QED
    BY <1>5, <2>1, <2>2 DEF TypeInv, TypeOK
<1>10. CASE GetList(c)
  <2>1. at[c] \in Versions
    BY <1>10 DEF GetList, TypeInv, TypeOK, ReaderInv
  <2>2. answer' \in [Readers -> Lists \cup {None}]
    BY <1>10, <2>1 DEF GetList, TypeInv, TypeOK
  <2>3. to \in {"done", "count"} /\ UNCHANGED <<ver, cache, total, rows, at, since, spoiled>>
    BY <1>1, <1>10 DEF GetList, Goto, redisVars, TypeInv, TypeOK
  <2>4. ReaderInv'
    BY <1>1, <2>3 DEF TypeInv, ReaderInv, Storing
  <2>5. QED
    BY <1>5, <2>2, <2>3, <2>4 DEF TypeInv, TypeOK
<1>11. CASE CountTasks(c)
  <2>1. /\ to = "select" /\ total' = [total EXCEPT ![c] = rev]
        /\ UNCHANGED <<ver, cache, rows, at, answer, since, spoiled>>
    BY <1>1, <1>11 DEF CountTasks, Goto, redisVars, TypeInv, TypeOK
  <2>2. /\ total' \in [Readers -> Revs \cup {None}] /\ total'[c] = rev
        /\ \A d \in Readers : d # c => total'[d] = total[d]
    BY <1>2, <2>1 DEF TypeInv, TypeOK
  <2>3. ReaderInv'
    BY <1>1, <1>2, <2>1, <2>2 DEF TypeInv, ReaderInv, Storing
  <2>4. QED
    BY <1>5, <2>1, <2>2, <2>3 DEF TypeInv, TypeOK
<1>12. CASE SelectTasks(c)
  <2>1. /\ pc[c] = "select" /\ to = "set_version" /\ rows' = [rows EXCEPT ![c] = rev]
        /\ answer' = [answer EXCEPT ![c] = [total |-> total[c], rows |-> rev]]
        /\ UNCHANGED <<ver, cache, total, at, since, spoiled>>
    BY <1>1, <1>12 DEF SelectTasks, Goto, redisVars, TypeInv, TypeOK
  <2>2. /\ rows' \in [Readers -> Revs \cup {None}] /\ rows'[c] = rev
        /\ \A d \in Readers : d # c => rows'[d] = rows[d]
    BY <1>2, <2>1 DEF TypeInv, TypeOK
  <2>3. total[c] \in Revs /\ total[c] # None /\ total[c] <= rev
    BY <2>1 DEF TypeInv, TypeOK, ReaderInv
  <2>4. [total |-> total[c], rows |-> rev] \in Lists
    BY <1>2, <2>3 DEF Lists
  <2>5. answer' \in [Readers -> Lists \cup {None}]
    BY <2>1, <2>4 DEF TypeInv, TypeOK
  <2>6. ReaderInv'
    BY <1>1, <1>2, <2>1, <2>2, <2>3 DEF TypeInv, ReaderInv, Storing
  <2>7. QED
    BY <1>5, <2>1, <2>2, <2>5, <2>6 DEF TypeInv, TypeOK
<1>13. CASE SetList(c)
  <2>1. pc[c] = "set" /\ to = "done" /\ UNCHANGED <<ver, total, rows, at, answer, since, spoiled>>
    BY <1>1, <1>13 DEF SetList, Goto, readerVars, TypeInv, TypeOK
  <2>2. at[c] \in Versions /\ total[c] \in Revs /\ rows[c] \in Revs
    BY <2>1 DEF TypeInv, TypeOK, ReaderInv, Storing
  <2>3. [total |-> total[c], rows |-> rows[c]] \in Lists
    BY <2>2 DEF Lists
  <2>4. cache' \in [Versions -> Lists \cup {None}]
    BY <1>13, <2>2, <2>3 DEF SetList, TypeInv, TypeOK
  <2>5. ReaderInv'
    BY <1>1, <2>1 DEF TypeInv, ReaderInv, Storing
  <2>6. QED
    BY <1>5, <2>1, <2>4, <2>5 DEF TypeInv, TypeOK
<1>14. QED
  BY <1>6, <1>7, <1>8, <1>9, <1>10, <1>11, <1>12, <1>13 DEF ReaderStep

\* A write that ends leaves room for as many versions as its INCR starts.
LEMMA EndedRoom ==
  ASSUME TypeInv, NEW c \in Writers, pc[c] # "done", pc' = [pc EXCEPT ![c] = "done"],
         NEW n \in 0..Tries,
         ver' = IF n = 0 THEN ver ELSE Incr(ver, n)
  PROVE  ver' \in Versions \cup {None} /\ (ver' # None => ver' <= Tries * Cardinality(Ended') + 1)
<1>1. \A w \in Writers : pc'[w] = IF w = c THEN "done" ELSE pc[w]
  BY DEF TypeInv, TypeOK
<1>2. c \notin Ended /\ Ended' = Ended \cup {c}
  BY <1>1 DEF Ended
<1>3. IsFiniteSet(Ended) /\ Cardinality(Ended) \in Nat /\ Tries \in Nat /\ None \notin Nat
  BY Numbers DEF Ended
<1>4. Cardinality(Ended') = Cardinality(Ended) + 1
  BY <1>2, <1>3, FS_AddElement
<1>5. /\ Tries * Cardinality(Ended') = Tries * Cardinality(Ended) + Tries
      /\ Tries * Cardinality(Ended) \in Nat
  BY <1>3, <1>4, Products
<1>6. ver # None => ver \in Nat /\ ver >= 1 /\ ver <= Tries * Cardinality(Ended) + 1
  BY Numbers DEF TypeInv, TypeOK, CountInv
<1>7. ver' # None => ver' \in Nat /\ ver' >= 1 /\ ver' <= Tries * Cardinality(Ended') + 1
  <2>1. CASE n = 0
    BY <1>3, <1>5, <1>6, <2>1
  <2>2. CASE n # 0 /\ ver = None
    BY <1>3, <1>5, <2>2 DEF Incr
  <2>3. CASE n # 0 /\ ver # None
    BY <1>3, <1>5, <1>6, <2>3 DEF Incr
  <2>4. QED
    BY <2>1, <2>2, <2>3
<1>8. Ended' \in SUBSET Writers
  BY DEF Ended
<1>9. ver' # None => ver' \in Versions
  BY <1>7, <1>8, VersionRange
<1>10. QED
  BY <1>7, <1>9

\* Each step of a write keeps the types: there is room for its revision and for
\* its versions.
LEMMA WriterTypes ==
  ASSUME TypeInv, NEW c \in Writers, Write(c) \/ WriteFails(c) \/ InvalidateTeam(c)
  PROVE  TypeInv'
<1>1. PICK to \in {"invalidate", "done"} : pc' = [pc EXCEPT ![c] = to]
  BY DEF Write, WriteFails, InvalidateTeam, Goto
<1>2. /\ c \notin Readers /\ pc'[c] = to
      /\ \A d \in Readers : pc'[d] = pc[d]
      /\ \A d \in Writers : d # c => pc'[d] = pc[d]
  BY <1>1, CacheAssumption DEF TypeInv, TypeOK
<1>3. pc' \in [Readers \cup Writers -> {"start", "version", "nx", "get", "count", "select",
                 "set_version", "set_nx", "set", "write", "invalidate", "done"}]
  BY <1>1 DEF TypeInv, TypeOK
<1>4. UNCHANGED <<cache, total, rows, at, answer, since>>
  BY DEF Write, WriteFails, InvalidateTeam, redisVars, readerVars
<1>5. rev \in Revs /\ rev \in Nat
  BY Numbers DEF TypeInv, TypeOK
<1>6. CASE Write(c)
  <2>1. /\ pc[c] = "write" /\ rev' = rev + 1 /\ made' = [made EXCEPT ![c] = rev + 1]
        /\ UNCHANGED <<ver, acked>> /\ spoiled' \in BOOLEAN
    BY <1>6 DEF Write, Goto, redisVars, TypeInv, TypeOK
  <2>2. /\ made'[c] = rev + 1 /\ rev + 1 # None
        /\ \A d \in Writers : d # c => made'[d] = made[d]
    BY <1>5, <2>1, Numbers DEF TypeInv, TypeOK
  <2>3. c \notin Committed /\ Committed' = Committed \cup {c}
    BY <2>1, <2>2 DEF Committed, TypeInv, WriterInv
  <2>4. Cardinality(Committed') = rev + 1
    <3>1. IsFiniteSet(Committed)
      BY Numbers DEF Committed
    <3>2. QED
      BY <2>3, <3>1, FS_AddElement DEF TypeInv, CountInv
  <2>5. rev' \in Revs
    <3>1. Committed' \in SUBSET Writers
      BY DEF Committed
    <3>2. QED
      BY <2>1, <2>4, <3>1, Numbers
  <2>6. ver' # None => ver' <= Tries * Cardinality(Ended') + 1
    <3>1. Ended \subseteq Ended'
      BY <1>2, <2>1 DEF Ended
    <3>2. Ended \in SUBSET Writers /\ Ended' \in SUBSET Writers
      BY DEF Ended
    <3>3. /\ Cardinality(Ended) \in Nat /\ Cardinality(Ended') \in Nat
          /\ IsFiniteSet(Ended')
      BY <3>2, Numbers
    <3>4. Cardinality(Ended) <= Cardinality(Ended')
      BY <3>1, <3>3, FS_Subset
    <3>5. Tries * Cardinality(Ended) <= Tries * Cardinality(Ended')
      BY <3>3, <3>4, Products
    <3>6. Tries * Cardinality(Ended) \in Nat /\ Tries * Cardinality(Ended') \in Nat
      BY <3>3, Products
    <3>7. ver # None => ver \in Nat
      BY Numbers DEF TypeInv, TypeOK
    <3>8. QED
      BY <2>1, <3>5, <3>6, <3>7 DEF TypeInv, CountInv
  <2>7. TypeOK'
    <3>1. made' \in [Writers -> Revs \cup {None}]
      BY <2>1, <2>5 DEF TypeInv, TypeOK
    <3>2. QED
      BY <1>3, <1>4, <2>1, <2>5, <3>1 DEF TypeInv, TypeOK
  <2>8. ReaderInv'
    <3>1. \A d \in Readers : (total[d] # None => total[d] \in Nat) /\ (rows[d] # None => rows[d] \in Nat)
      BY Numbers DEF TypeInv, TypeOK
    <3>2. \A x \in Nat : x <= rev => x <= rev'
      BY <1>5, <2>1
    <3>3. QED
      BY <1>2, <1>4, <3>1, <3>2 DEF TypeInv, ReaderInv, Storing
  <2>9. WriterInv'
    BY <1>2, <2>2 DEF TypeInv, WriterInv
  <2>10. QED
    BY <2>1, <2>4, <2>6, <2>7, <2>8, <2>9 DEF TypeInv, CountInv
<1>7. CASE WriteFails(c) \/ InvalidateTeam(c)
  <2>1. PICK n \in 0..Tries : ver' = IF n = 0 THEN ver ELSE Incr(ver, n)
    <3>1. CASE WriteFails(c)
      BY <3>1, Numbers DEF WriteFails, redisVars
    <3>2. CASE InvalidateTeam(c)
      BY <3>2, Numbers DEF InvalidateTeam
    <3>3. QED
      BY <1>7, <3>1, <3>2
  <2>2. /\ pc[c] \in {"write", "invalidate"} /\ to = "done" /\ UNCHANGED <<rev, made>>
    BY <1>1, <1>2, <1>7 DEF WriteFails, InvalidateTeam, Goto, TypeInv, TypeOK
  <2>3. ver' \in Versions \cup {None} /\ (ver' # None => ver' <= Tries * Cardinality(Ended') + 1)
    BY <1>1, <2>1, <2>2, EndedRoom
  <2>4. acked' \in Revs /\ spoiled' \in BOOLEAN
    <3>1. CASE WriteFails(c)
      BY <3>1 DEF WriteFails, TypeInv, TypeOK
    <3>2. CASE InvalidateTeam(c)
      <4>1. made[c] \in Revs
        BY <3>2 DEF InvalidateTeam, Goto, TypeInv, TypeOK, WriterInv
      <4>2. QED
        BY <3>2, <4>1 DEF InvalidateTeam, TypeInv, TypeOK
    <3>3. QED
      BY <1>7, <3>1, <3>2
  <2>5. TypeOK'
    BY <1>3, <1>4, <2>2, <2>3, <2>4 DEF TypeInv, TypeOK
  <2>6. ReaderInv'
    BY <1>2, <1>4, <2>2 DEF TypeInv, ReaderInv, Storing
  <2>7. WriterInv'
    BY <1>2, <2>2 DEF TypeInv, WriterInv
  <2>8. Committed' = Committed
    BY <2>2 DEF Committed
  <2>9. QED
    BY <2>2, <2>3, <2>5, <2>6, <2>7, <2>8 DEF TypeInv, CountInv
<1>8. QED
  BY <1>6, <1>7

\* A crash ends requests, and changes nothing else.
LEMMA CrashTypes == TypeInv /\ Crash => TypeInv'
<1> SUFFICES ASSUME TypeInv, Crash PROVE TypeInv'
  OBVIOUS
<1>1. /\ UNCHANGED <<rev, ver, cache, total, rows, at, made, answer, since, acked>>
      /\ spoiled' \in BOOLEAN
      /\ pc' = [c \in Readers \cup Writers |-> IF c \in Serving THEN "done" ELSE pc[c]]
  BY DEF Crash, redisVars, readerVars, TypeInv, TypeOK
<1>2. TypeOK'
  BY <1>1 DEF TypeInv, TypeOK
<1>3. \A c \in Readers \cup Writers : pc'[c] \in {pc[c], "done"} /\ (pc[c] = "done" => pc'[c] = "done")
  BY <1>1 DEF Serving
<1>4. ReaderInv' /\ WriterInv'
  BY <1>1, <1>3 DEF TypeInv, ReaderInv, WriterInv, Storing
<1>5. Committed' = Committed
  BY <1>1 DEF Committed
<1>6. Ended \subseteq Ended' /\ Ended \in SUBSET Writers /\ Ended' \in SUBSET Writers
  BY <1>3 DEF Ended
<1>7. /\ Cardinality(Ended) \in Nat /\ Cardinality(Ended') \in Nat
      /\ Cardinality(Ended) <= Cardinality(Ended')
  BY <1>6, Numbers, FS_Subset
<1>8. /\ Tries * Cardinality(Ended) <= Tries * Cardinality(Ended')
      /\ Tries * Cardinality(Ended) \in Nat /\ Tries * Cardinality(Ended') \in Nat
  BY <1>7, Products
<1>9. ver # None => ver \in Nat
  BY Numbers DEF TypeInv, TypeOK
<1>10. CountInv'
  BY <1>1, <1>5, <1>8, <1>9 DEF TypeInv, CountInv
<1>11. QED
  BY <1>2, <1>4, <1>10 DEF TypeInv

\* So every step keeps the types.
LEMMA TypeStep == TypeInv /\ [Next]_vars => TypeInv'
<1> SUFFICES ASSUME TypeInv, [Next]_vars PROVE TypeInv'
  OBVIOUS
<1>1. ASSUME NEW v \in Versions, EntryExpires(v) PROVE TypeInv'
  BY <1>1 DEF EntryExpires, readerVars, TypeInv, TypeOK, ReaderInv, WriterInv, CountInv,
              Committed, Ended, Storing
<1>2. CASE UNCHANGED vars
  BY <1>2 DEF vars, TypeInv, TypeOK, ReaderInv, WriterInv, CountInv, Committed, Ended, Storing
<1>3. QED
  BY <1>1, <1>2, ReaderTypes, WriterTypes, CrashTypes DEF Next, Finished

\* Whatever fails, races and crashes, the version, the revision and what is
\* cached stay in their ranges: a write counts once if it commits, and starts
\* as many versions as its INCR is sent at most.
THEOREM TypeTheorem == Spec => []TypeOK
<1>1. TypeInv => TypeOK
  BY DEF TypeInv
<1>2. QED
  BY <1>1, TypeInit, TypeStep, PTL DEF Spec

-----------------------------------------------------------------------------
(* Freshness *)

\* The initial state.
LEMMA FreshInit == Init => FreshInv
<1> SUFFICES ASSUME Init PROVE FreshInv
  OBVIOUS
<1>1. \A c \in Readers : pc[c] = "start" /\ at[c] = None
  BY DEF Init
<1>2. ver = None /\ \A v \in Versions : cache[v] = None
  BY DEF Init
<1>3. 1 \in Versions
  BY Numbers
<1>4. QED
  BY <1>1, <1>2, <1>3 DEF FreshInv, CleanInv, VersionInv, UnusedInv, OutdatedInv, ReadyInv, CachedInv

\* Each step of a list request keeps the cache fresh.
LEMMA ReaderFresh ==
  ASSUME TypeInv, FreshInv, NEW c \in Readers, Start(c) \/ ReaderStep(c)
  PROVE  FreshInv'
<1>1. PICK to \in {"version", "nx", "get", "count", "select", "set_version", "set_nx", "set", "done"} :
        /\ pc' = [pc EXCEPT ![c] = to] /\ pc'[c] = to
        /\ \A d \in Readers : d # c => pc'[d] = pc[d]
        /\ Pending' <=> Pending
        /\ rev' = rev
  BY ReaderCounts
<1>2. /\ None \notin Nat /\ rev \in Nat /\ Present' = Present
      /\ ver # None => ver \in Versions
      /\ Versions \subseteq Nat /\ 1 \in Versions /\ \A v \in Versions : v >= 1
  BY <1>1, Numbers DEF TypeInv, TypeOK, Present
<1>3. VersionInv /\ (~spoiled => UnusedInv /\ OutdatedInv /\ ReadyInv /\ CachedInv)
  BY DEF FreshInv, CleanInv
\* Steps that have no effect on the cache, nor on a list that will be stored.
<1>4. ASSUME UNCHANGED <<ver, cache, at, total, spoiled>>,
             \/ to \notin {"select", "set_version", "set_nx", "set"}
             \/ pc[c] \in {"select", "set_version"} /\ to \in {"set_version", "set_nx"}
      PROVE  FreshInv'
  <2>1. VersionInv' /\ (UnusedInv => UnusedInv') /\ (CachedInv => CachedInv')
    BY <1>1, <1>2, <1>3, <1>4 DEF VersionInv, UnusedInv, CachedInv
  <2>2. OutdatedInv => OutdatedInv'
    BY <1>1, <1>4 DEF OutdatedInv
  <2>3. ReadyInv => ReadyInv'
    BY <1>1, <1>4 DEF ReadyInv
  <2>4. QED
    BY <1>3, <1>4, <2>1, <2>2, <2>3 DEF FreshInv, CleanInv
<1>5. CASE Start(c)
  BY <1>1, <1>4, <1>5 DEF Start, Goto, redisVars, TypeInv, TypeOK
<1>6. ASSUME NEW from \in {"version", "set_version"}, NEW setnx \in {"nx", "set_nx"}, NEW go \in {"get", "set"},
             from = "version" => setnx = "nx" /\ go = "get",
             from = "set_version" => setnx = "set_nx" /\ go = "set",
             getVersion(c, from, setnx, go)
      PROVE  FreshInv'
  <2>1. UNCHANGED <<ver, cache, total, spoiled>> /\ pc[c] = from
    BY <1>6 DEF getVersion, Goto, redisVars
  <2>2. CASE ver = None
    <3>1. to = setnx /\ at' = at
      BY <1>1, <1>6, <2>2 DEF getVersion, Goto, TypeInv, TypeOK
    <3>2. QED
      BY <1>4, <1>6, <2>1, <3>1
  <2>3. CASE ver # None
    <3>1. to = go /\ at' = [at EXCEPT ![c] = ver]
      BY <1>1, <1>6, <2>3 DEF getVersion, Goto, TypeInv, TypeOK
    <3>2. at'[c] = ver /\ \A d \in Readers : d # c => at'[d] = at[d]
      BY <3>1 DEF TypeInv, TypeOK
    <3>3. VersionInv'
      <4>1. ver \in Nat /\ ver' = ver /\ ver' # None
        BY <1>2, <2>1, <2>3
      <4>2. \A v \in Versions : v > ver' => cache'[v] = None
        BY <1>3, <2>1, <2>3 DEF VersionInv
      <4>3. \A d \in Readers : at'[d] # None => at'[d] <= ver'
        BY <1>3, <2>3, <3>2, <4>1 DEF VersionInv
      <4>4. QED
        BY <4>1, <4>2, <4>3 DEF VersionInv
    <3>4. UnusedInv' /\ (CachedInv => CachedInv')
      BY <1>1, <1>2, <2>1, <2>3 DEF UnusedInv, CachedInv
    <3>5. OutdatedInv => OutdatedInv'
      BY <1>1, <1>6, <2>1, <3>1 DEF OutdatedInv
    <3>6. OutdatedInv /\ ReadyInv => ReadyInv'
      BY <1>1, <1>6, <2>1, <3>1, <3>2 DEF OutdatedInv, ReadyInv
    <3>7. QED
      BY <1>3, <2>1, <3>3, <3>4, <3>5, <3>6 DEF FreshInv, CleanInv
  <2>4. QED
    BY <2>2, <2>3
<1>7. ASSUME NEW from \in {"nx", "set_nx"}, NEW go \in {"get", "set"},
             from = "nx" => go = "get", from = "set_nx" => go = "set", SetNX(c, from, go)
      PROVE  FreshInv'
  <2>1. /\ pc[c] = from /\ to = go /\ at' = [at EXCEPT ![c] = 1]
        /\ cache' = cache /\ total' = total
        /\ \/ ver' = (IF ver = None THEN 1 ELSE ver) /\ spoiled' = spoiled
           \/ ver = None /\ ver' = None /\ spoiled' = TRUE
    BY <1>1, <1>7 DEF SetNX, Goto, FirstVersion, TypeInv, TypeOK
  <2>2. at'[c] = 1 /\ \A d \in Readers : d # c => at'[d] = at[d]
    BY <2>1 DEF TypeInv, TypeOK
  <2>3. VersionInv'
    <3>1. CASE ver' = None
      <4>1. ver = None
        BY <1>2, <2>1, <3>1
      <4>2. \A d \in Readers : at'[d] \in {None, 1}
        BY <1>3, <2>2, <4>1 DEF VersionInv
      <4>3. QED
        BY <1>3, <2>1, <3>1, <4>1, <4>2 DEF VersionInv
    <3>2. CASE ver' # None
      <4>1. ver' \in Nat /\ ver' >= 1 /\ (ver # None => ver' = ver) /\ (ver = None => ver' = 1)
        BY <1>2, <2>1, <3>2
      <4>2. \A v \in Versions : v > ver' => cache'[v] = None
        BY <1>3, <2>1, <4>1 DEF VersionInv
      <4>3. \A d \in Readers : at'[d] # None => at'[d] <= ver'
        BY <1>3, <2>2, <4>1 DEF VersionInv
      <4>4. QED
        BY <3>2, <4>2, <4>3 DEF VersionInv
    <3>3. QED
      BY <3>1, <3>2
  <2>4. ASSUME ~spoiled' PROVE CleanInv'
    <3>1. /\ ~spoiled /\ ver' # None
          /\ ver' = IF ver = None THEN 1 ELSE ver
      BY <1>2, <2>1, <2>4
    <3>2. UnusedInv /\ OutdatedInv /\ ReadyInv /\ CachedInv
      BY <1>3, <3>1
    <3>3. UnusedInv'
      BY <3>1 DEF UnusedInv
    <3>4. OutdatedInv'
      BY <1>1, <1>7, <2>1, <3>2 DEF OutdatedInv
    <3>5. ReadyInv'
      <4>1. pc'[c] = "set" => Pending \/ total[c] = rev
        BY <1>1, <1>7, <2>1, <3>2 DEF OutdatedInv
      <4>2. ASSUME NEW d \in Readers, d # c, pc'[d] = "set", at'[d] = ver' PROVE Pending \/ total[d] = rev
        <5>1. pc[d] = "set" /\ at[d] = ver' /\ at[d] # None
          BY <1>1, <2>2, <3>1, <4>2
        <5>2. ver # None /\ ver' = ver
          BY <3>1, <3>2, <5>1 DEF UnusedInv
        <5>3. QED
          BY <3>2, <5>1, <5>2 DEF ReadyInv
      <4>3. QED
        BY <1>1, <2>1, <4>1, <4>2 DEF ReadyInv
    <3>6. CachedInv'
      BY <1>1, <1>2, <2>1, <3>1, <3>2 DEF CachedInv, UnusedInv
    <3>7. QED
      BY <3>3, <3>4, <3>5, <3>6 DEF CleanInv
  <2>5. QED
    BY <2>3, <2>4 DEF FreshInv
<1>8. CASE VersionFails(c) \/ GetListFails(c) \/ ListTasksFails(c)
  BY <1>1, <1>4, <1>8 DEF VersionFails, GetListFails, ListTasksFails, Goto, redisVars, readerVars, TypeInv, TypeOK
<1>9. CASE GetList(c)
  BY <1>1, <1>4, <1>9 DEF GetList, Goto, redisVars, TypeInv, TypeOK
<1>10. CASE CountTasks(c)
  <2>1. /\ to = "select" /\ total' = [total EXCEPT ![c] = rev]
        /\ UNCHANGED <<ver, cache, at, spoiled>>
    BY <1>1, <1>10 DEF CountTasks, Goto, redisVars, TypeInv, TypeOK
  <2>2. total'[c] = rev /\ \A d \in Readers : d # c => total'[d] = total[d]
    BY <2>1 DEF TypeInv, TypeOK
  <2>3. VersionInv' /\ (UnusedInv => UnusedInv') /\ (CachedInv => CachedInv')
    BY <1>1, <1>2, <1>3, <2>1 DEF VersionInv, UnusedInv, CachedInv
  <2>4. (OutdatedInv => OutdatedInv') /\ (ReadyInv => ReadyInv')
    BY <1>1, <2>1, <2>2 DEF OutdatedInv, ReadyInv
  <2>5. QED
    BY <1>3, <2>1, <2>3, <2>4 DEF FreshInv, CleanInv
<1>11. CASE SelectTasks(c)
  BY <1>1, <1>4, <1>11 DEF SelectTasks, Goto, redisVars, TypeInv, TypeOK
<1>12. CASE SetList(c)
  <2>1. /\ pc[c] = "set" /\ to = "done" /\ UNCHANGED <<ver, at, total, spoiled>>
        /\ cache' \in {cache, [cache EXCEPT ![at[c]] = [total |-> total[c], rows |-> rows[c]]]}
    BY <1>1, <1>12 DEF SetList, Goto, readerVars, TypeInv, TypeOK
  <2>2. at[c] \in Versions /\ at[c] # None
    BY <2>1 DEF TypeInv, TypeOK, ReaderInv
  <2>3. \A v \in Versions :
          cache'[v] \in {cache[v], IF v = at[c] THEN [total |-> total[c], rows |-> rows[c]] ELSE cache[v]}
    BY <2>1, <2>2 DEF TypeInv, TypeOK
  <2>4. VersionInv'
    <3>1. CASE ver = None
      <4>1. at[c] = 1
        BY <1>3, <2>2, <3>1 DEF VersionInv
      <4>2. \A v \in Versions : v > 1 => cache'[v] = None
        BY <1>2, <1>3, <2>3, <3>1, <4>1 DEF VersionInv
      <4>3. QED
        BY <1>3, <2>1, <3>1, <4>2 DEF VersionInv
    <3>2. CASE ver # None
      <4>1. at[c] <= ver /\ at[c] \in Nat /\ ver \in Nat
        BY <1>2, <1>3, <2>2, <3>2 DEF VersionInv
      <4>2. \A v \in Versions : v > ver => v # at[c]
        BY <1>2, <4>1
      <4>3. \A v \in Versions : v > ver => cache'[v] = None
        BY <1>3, <2>3, <3>2, <4>2 DEF VersionInv
      <4>4. QED
        BY <1>3, <2>1, <3>2, <4>3 DEF VersionInv
    <3>3. QED
      BY <3>1, <3>2
  <2>5. ASSUME ~spoiled' PROVE CleanInv'
    <3>1. UnusedInv /\ OutdatedInv /\ ReadyInv /\ CachedInv
      BY <1>3, <2>1, <2>5
    <3>2. ver # None
      BY <2>2, <3>1 DEF UnusedInv
    <3>3. UnusedInv' /\ OutdatedInv' /\ ReadyInv'
      BY <1>1, <2>1, <3>1, <3>2 DEF UnusedInv, OutdatedInv, ReadyInv
    <3>4. (~Pending /\ at[c] = ver) => [total |-> total[c], rows |-> rows[c]] = Present
      <4>1. total[c] \in Nat /\ rows[c] \in Nat /\ total[c] <= rows[c] /\ rows[c] <= rev
        BY <2>1, Numbers DEF TypeInv, TypeOK, ReaderInv, Storing
      <4>2. (~Pending /\ at[c] = ver) => total[c] = rev
        BY <2>1, <3>1 DEF ReadyInv
      <4>3. (~Pending /\ at[c] = ver) => rows[c] = rev
        BY <1>2, <4>1, <4>2
      <4>4. QED
        BY <4>2, <4>3 DEF Present
    <3>5. CachedInv'
      BY <1>1, <1>2, <2>1, <2>3, <3>1, <3>2, <3>4 DEF CachedInv
    <3>6. QED
      BY <3>3, <3>5 DEF CleanInv
  <2>6. QED
    BY <2>4, <2>5 DEF FreshInv
<1>13. QED
  BY <1>5, <1>6, <1>7, <1>8, <1>9, <1>10, <1>11, <1>12 DEF ReaderStep

\* Each step of a write does: its commit leaves it pending, and its INCR leaves
\* behind the version that outdated lists are under.
LEMMA WriterFresh ==
  ASSUME TypeInv, FreshInv, NEW c \in Writers, Write(c) \/ WriteFails(c) \/ InvalidateTeam(c)
  PROVE  FreshInv'
<1>1. VersionInv /\ (~spoiled => UnusedInv /\ OutdatedInv /\ ReadyInv /\ CachedInv)
  BY DEF FreshInv, CleanInv
<1>2. UNCHANGED <<cache, at, total>>
  BY DEF Write, WriteFails, InvalidateTeam, redisVars, readerVars
<1>3. CASE Write(c)
  <2>1. ver' = ver
    BY <1>3 DEF Write, redisVars
  <2>2. VersionInv' /\ (UnusedInv => UnusedInv')
    BY <1>1, <1>2, <2>1 DEF VersionInv, UnusedInv
  <2>3. spoiled' \/ (spoiled' = spoiled /\ pc'[c] = "invalidate")
    BY <1>3 DEF Write, Goto, TypeInv, TypeOK
  <2>4. pc'[c] = "invalidate" => OutdatedInv' /\ ReadyInv' /\ CachedInv'
    BY DEF Pending, OutdatedInv, ReadyInv, CachedInv
  <2>5. QED
    BY <1>1, <2>2, <2>3, <2>4 DEF FreshInv, CleanInv
<1>4. CASE WriteFails(c)
  <2>1. /\ UNCHANGED <<ver, rev, spoiled>> /\ pc[c] = "write" /\ pc' = [pc EXCEPT ![c] = "done"]
    BY <1>4 DEF WriteFails, Goto, redisVars
  <2>2. /\ \A d \in Readers : pc'[d] = pc[d]
        /\ \A d \in Writers : pc'[d] = "invalidate" <=> pc[d] = "invalidate"
    BY <2>1, CacheAssumption DEF TypeInv, TypeOK
  <2>3. (Pending' <=> Pending) /\ Present' = Present
    BY <2>1, <2>2 DEF Pending, Present
  <2>4. VersionInv' /\ (UnusedInv => UnusedInv')
    BY <1>1, <1>2, <2>1 DEF VersionInv, UnusedInv
  <2>5. (OutdatedInv => OutdatedInv') /\ (ReadyInv => ReadyInv') /\ (CachedInv => CachedInv')
    BY <1>2, <2>1, <2>2, <2>3 DEF OutdatedInv, ReadyInv, CachedInv
  <2>6. QED
    BY <1>1, <2>1, <2>4, <2>5 DEF FreshInv, CleanInv
<1>5. CASE InvalidateTeam(c)
  <2>1. PICK n \in 0..Tries :
          /\ ver' = IF n = 0 THEN ver ELSE Incr(ver, n)
          /\ spoiled' = (n = 0 \/ Overlapped \/ (spoiled /\ ver' = FirstVersion))
    BY <1>5, Numbers DEF InvalidateTeam
  <2>2. rev' = rev /\ pc' = [pc EXCEPT ![c] = "done"]
    BY <1>5 DEF InvalidateTeam, Goto
  <2>3. \A d \in Readers : pc'[d] = pc[d]
    BY <2>2, CacheAssumption DEF TypeInv, TypeOK
  <2>4. /\ None \notin Nat /\ Versions \subseteq Nat /\ 1 \in Versions /\ \A v \in Versions : v >= 1
        /\ ver # None => ver \in Nat
        /\ ver' # None => ver' \in Versions
    BY <1>5, Numbers, WriterTypes DEF TypeInv, TypeOK
  <2>5. CASE n = 0
    <3>1. ver' = ver /\ spoiled'
      BY <2>1, <2>5
    <3>2. VersionInv'
      BY <1>1, <1>2, <3>1 DEF VersionInv
    <3>3. QED
      BY <3>1, <3>2 DEF FreshInv
  <2>6. CASE n # 0
    <3>1. /\ n \in Nat /\ n > 0 /\ ver' # None /\ ver' \in Nat
          /\ ver # None => ver' = ver + n
          /\ ver = None => ver' = n
      BY <2>1, <2>4, <2>6, Numbers DEF Incr
    <3>2. \A v \in Versions : v >= ver' /\ v # 1 => cache[v] = None
      <4>1. CASE ver = None
        BY <1>1, <2>4, <4>1 DEF VersionInv
      <4>2. CASE ver # None
        <5>1. \A v \in Versions : v > ver => cache[v] = None
          BY <1>1, <4>2 DEF VersionInv
        <5>2. \A v \in Versions : v >= ver' => v > ver
          BY <2>4, <3>1, <4>2
        <5>3. QED
          BY <5>1, <5>2
      <4>3. QED
        BY <4>1, <4>2
    <3>3. \A d \in Readers : at[d] # None => at[d] <= ver' /\ (at[d] = ver' => ver' = 1 /\ ver = None)
      <4>1. CASE ver = None
        BY <1>1, <2>4, <3>1, <4>1 DEF VersionInv
      <4>2. CASE ver # None
        <5>1. \A d \in Readers : at[d] # None => at[d] \in Nat /\ at[d] <= ver
          BY <1>1, <2>4, <4>2 DEF VersionInv, TypeInv, TypeOK
        <5>2. QED
          BY <2>4, <3>1, <4>2, <5>1
      <4>3. QED
        BY <4>1, <4>2
    <3>4. VersionInv'
      <4>1. \A v \in Versions : v > ver' => cache'[v] = None
        BY <1>2, <2>4, <3>1, <3>2
      <4>2. \A d \in Readers : at'[d] # None => at'[d] <= ver'
        BY <1>2, <3>3
      <4>3. QED
        BY <3>1, <4>1, <4>2 DEF VersionInv
    <3>5. ASSUME ~spoiled' PROVE CleanInv'
      <4>1. ~Overlapped /\ (ver' = 1 => ~spoiled)
        BY <2>1, <3>5 DEF FirstVersion
      <4>2. UnusedInv'
        BY <3>1 DEF UnusedInv
      <4>3. OutdatedInv'
        <5>1. \A d \in Readers : pc[d] \in {"select", "set_version", "set_nx"} =>
                total[d] \in Nat /\ total[d] <= rev
          BY Numbers DEF TypeInv, TypeOK, ReaderInv, Storing
        <5>2. rev \in Nat
          BY Numbers DEF TypeInv, TypeOK
        <5>3. \A d \in Readers : pc[d] \in {"select", "set_version", "set_nx"} => total[d] = rev
          BY <4>1, <5>1, <5>2 DEF Overlapped
        <5>4. QED
          BY <1>2, <2>2, <2>3, <5>3 DEF OutdatedInv
      <4>4. ver' = 1 => /\ ver = None /\ cache[1] = None
                        /\ \A d \in Readers : at[d] = None
        <5>1. ver' = 1 => ver = None
          <6>1. ver # None => ver >= 1 /\ ver \in Nat
            BY Numbers DEF TypeInv, TypeOK
          <6>2. QED
            BY <3>1, <6>1
        <5>2. QED
          BY <1>1, <4>1, <5>1 DEF UnusedInv
      <4>5. \A d \in Readers : pc[d] = "set" => at[d] # ver'
        BY <2>4, <3>1, <3>3, <4>4 DEF TypeInv, ReaderInv
      <4>6. ReadyInv'
        BY <1>2, <2>3, <4>5 DEF ReadyInv
      <4>7. cache[ver'] = None
        BY <2>4, <3>1, <3>2, <4>4
      <4>8. QED
        BY <1>2, <4>2, <4>3, <4>6, <4>7 DEF CachedInv, CleanInv
    <3>6. QED
      BY <3>4, <3>5 DEF FreshInv
  <2>7. QED
    BY <2>5, <2>6
<1>6. QED
  BY <1>3, <1>4, <1>5

\* A crash does: it spoils the version if a write was pending, and otherwise
\* leaves no list about to be stored.
LEMMA CrashFresh == TypeInv /\ FreshInv /\ Crash => FreshInv'
<1> SUFFICES ASSUME TypeInv, FreshInv, Crash PROVE FreshInv'
  OBVIOUS
<1>1. /\ UNCHANGED <<rev, ver, cache, at, total>> /\ spoiled' = (spoiled \/ Pending)
      /\ pc' = [c \in Readers \cup Writers |-> IF c \in Serving THEN "done" ELSE pc[c]]
  BY DEF Crash, redisVars, readerVars, Pending
<1>2. \A c \in Readers : pc'[c] \notin {"select", "set_version", "set_nx", "set"}
  BY <1>1 DEF Serving
<1>3. VersionInv' /\ (UnusedInv => UnusedInv')
  BY <1>1 DEF FreshInv, VersionInv, UnusedInv
<1>4. OutdatedInv' /\ ReadyInv'
  BY <1>2 DEF OutdatedInv, ReadyInv
<1>5. (~Pending /\ CachedInv) => CachedInv'
  BY <1>1 DEF CachedInv, Present
<1>6. QED
  BY <1>1, <1>3, <1>4, <1>5 DEF FreshInv, CleanInv

\* So every step does.
LEMMA FreshStep == TypeInv /\ FreshInv /\ [Next]_vars => FreshInv'
<1> SUFFICES ASSUME TypeInv, FreshInv, [Next]_vars PROVE FreshInv'
  OBVIOUS
<1>1. ASSUME NEW v \in Versions, EntryExpires(v) PROVE FreshInv'
  <2>1. /\ \A u \in Versions : cache'[u] \in {None, cache[u]}
        /\ UNCHANGED <<rev, ver, pc, total, at, spoiled>>
    BY <1>1 DEF EntryExpires, readerVars, TypeInv, TypeOK
  <2>2. (ver # None => cache'[ver] \in {None, cache[ver]}) /\ cache'[1] \in {None, cache[1]}
    BY <2>1, Numbers DEF TypeInv, TypeOK
  <2>3. VersionInv' /\ (UnusedInv => UnusedInv')
    BY <2>1, <2>2 DEF FreshInv, VersionInv, UnusedInv
  <2>4. (OutdatedInv => OutdatedInv') /\ (ReadyInv => ReadyInv') /\ (CachedInv => CachedInv')
    BY <2>1, <2>2 DEF OutdatedInv, ReadyInv, CachedInv, Pending, Present
  <2>5. QED
    BY <2>1, <2>3, <2>4 DEF FreshInv, CleanInv
<1>2. CASE UNCHANGED vars
  BY <1>2 DEF vars, FreshInv, CleanInv, VersionInv, UnusedInv, OutdatedInv, ReadyInv, CachedInv,
              Pending, Present
<1>3. QED
  BY <1>1, <1>2, ReaderFresh, WriterFresh, CrashFresh DEF Next, Finished

\* After an INCR that Redis runs, and until a list is caught between its first
\* query and its read of the version, a SETNX or INCR is not run, or a write
\* commits without coming to its INCR, the cache holds the present list or none
\* once the writes that were committed have been answered.
THEOREM FreshTheorem == Spec => []FreshUnlessSpoiled
<1>1. TypeInv /\ FreshInv => FreshUnlessSpoiled
  <2>1. ASSUME FreshInv, ~spoiled, ~Pending PROVE Cached \in {None, Present}
    BY <2>1 DEF FreshInv, CleanInv, UnusedInv, CachedInv, Cached
  <2>2. QED
    BY <2>1 DEF FreshUnlessSpoiled, Pending
<1>2. QED
  BY <1>1, TypeInit, TypeStep, FreshInit, FreshStep, PTL DEF Spec
=============================================================================
