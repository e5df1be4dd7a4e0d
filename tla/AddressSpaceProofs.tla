------------------------- MODULE AddressSpaceProofs -------------------------
(***************************************************************************)
(* Mmu implements AddressSpace: the tables of a context, read as the MMU   *)
(* reads them, are a map from pages to pages that memory_map_region and    *)
(* the destruction change as a user of mmu.c expects.                      *)
(***************************************************************************)
EXTENDS MmuProofs

-----------------------------------------------------------------------------
(***************************************************************************)
(* Walks, and what they find.                                              *)
(***************************************************************************)
\* A walk for va through the tables c, from the table r down: the table it has
\* reached at a level, and the entry it reads there.
Hop(c, r, va, level) ==
  LET first  == c[r][Index(0, va)].page
      second == c[first][Index(1, va)].page
      third  == c[second][Index(2, va)].page
  IN  CASE level = 0 -> r [] level = 1 -> first [] level = 2 -> second [] level = 3 -> third

Read(c, r, va, level) == c[Hop(c, r, va, level)][Index(level, va)]

\* The walk goes as far as the level.
OnWalk(c, r, va, level) == \A k \in Levels : k < level => Read(c, r, va, k).bits = TABLE

\* ... and no further.
EndsAt(c, r, va, level) ==
  OnWalk(c, r, va, level) /\ (level < 3 => Read(c, r, va, level).bits # TABLE)

\* What it finds if it ends there.
Reading(entry, va, level) ==
  IF entry.bits = 0 THEN UNMAPPED
  ELSE [page |-> entry.page + (va % SIZE[level]), type |-> entry.type]

LEMMA HopNext ==
  ASSUME NEW c, NEW r, NEW va
  PROVE  /\ Hop(c, r, va, 0) = r
         /\ \A level \in 0 .. 2 : Hop(c, r, va, level + 1) = Read(c, r, va, level).page
PROOF
  <1>1. Hop(c, r, va, 0) = r /\ Read(c, r, va, 0) = c[r][Index(0, va)]
    BY DEF Hop, Read
  <1>2. Hop(c, r, va, 1) = Read(c, r, va, 0).page
    BY DEF Hop, Read
  <1>3. Hop(c, r, va, 2) = Read(c, r, va, 1).page
    BY DEF Hop, Read
  <1>4. Hop(c, r, va, 3) = Read(c, r, va, 2).page
    BY DEF Hop, Read
  <1>5. \A level \in 0 .. 2 : level = 0 \/ level = 1 \/ level = 2
    OBVIOUS
  <1> QED BY <1>1, <1>2, <1>3, <1>4, <1>5

LEMMA OnWalkNext ==
  ASSUME NEW c, NEW r, NEW va
  PROVE  /\ OnWalk(c, r, va, 0)
         /\ \A level \in 0 .. 2 :
              OnWalk(c, r, va, level + 1) <=> OnWalk(c, r, va, level) /\ Read(c, r, va, level).bits = TABLE
         /\ \A level, k \in Levels : k <= level /\ OnWalk(c, r, va, level) => OnWalk(c, r, va, k)
PROOF
  <1>1. OnWalk(c, r, va, 0)
    BY DEF OnWalk, Levels
  <1>2. ASSUME NEW level \in 0 .. 2
        PROVE  OnWalk(c, r, va, level + 1) <=> OnWalk(c, r, va, level) /\ Read(c, r, va, level).bits = TABLE
    <2>1. \A k \in Levels : k < level + 1 <=> k < level \/ k = level
      BY DEF Levels
    <2>2. level \in Levels
      BY DEF Levels
    <2> QED BY <2>1, <2>2 DEF OnWalk
  <1>3. \A level, k, n \in Levels : k <= level /\ n < k => n < level
    BY DEF Levels
  <1> QED BY <1>1, <1>2, <1>3 DEF OnWalk

\* Every walk ends somewhere.
LEMMA EndsSomewhere ==
  ASSUME NEW c, NEW r, NEW va
  PROVE  \E level \in Levels : EndsAt(c, r, va, level)
PROOF
  <1>1. /\ OnWalk(c, r, va, 0)
        /\ OnWalk(c, r, va, 0) /\ Read(c, r, va, 0).bits = TABLE => OnWalk(c, r, va, 1)
        /\ OnWalk(c, r, va, 1) /\ Read(c, r, va, 1).bits = TABLE => OnWalk(c, r, va, 2)
        /\ OnWalk(c, r, va, 2) /\ Read(c, r, va, 2).bits = TABLE => OnWalk(c, r, va, 3)
    <2>1. /\ OnWalk(c, r, va, 0 + 1) <=> OnWalk(c, r, va, 0) /\ Read(c, r, va, 0).bits = TABLE
          /\ OnWalk(c, r, va, 1 + 1) <=> OnWalk(c, r, va, 1) /\ Read(c, r, va, 1).bits = TABLE
          /\ OnWalk(c, r, va, 2 + 1) <=> OnWalk(c, r, va, 2) /\ Read(c, r, va, 2).bits = TABLE
      BY OnWalkNext
    <2> QED BY <2>1, OnWalkNext
  <1> QED BY <1>1 DEF EndsAt, Levels

\* Stop and Translate, for any first table.
StopFrom(c, r, va) ==
  LET At(table, level) == c[table][Index(level, va)]
      l1 == At(r, 0).page
      l2 == At(l1, 1).page
      l3 == At(l2, 2).page
  IN  IF At(r, 0).bits # TABLE THEN [level |-> 0, table |-> r]
      ELSE IF At(l1, 1).bits # TABLE THEN [level |-> 1, table |-> l1]
      ELSE IF At(l2, 2).bits # TABLE THEN [level |-> 2, table |-> l2]
      ELSE [level |-> 3, table |-> l3]

TranslateFrom(c, r, va) ==
  LET stop == StopFrom(c, r, va)
  IN  Reading(c[stop.table][Index(stop.level, va)], va, stop.level)

LEMMA StopFinds ==
  ASSUME NEW c, NEW r, NEW va, NEW level \in Levels, EndsAt(c, r, va, level)
  PROVE  StopFrom(c, r, va) = [level |-> level, table |-> Hop(c, r, va, level)]
PROOF
  <1> DEFINE l1 == c[r][Index(0, va)].page
             l2 == c[l1][Index(1, va)].page
             l3 == c[l2][Index(2, va)].page
  <1>2. /\ Hop(c, r, va, 0) = r /\ Hop(c, r, va, 1) = l1
        /\ Hop(c, r, va, 2) = l2 /\ Hop(c, r, va, 3) = l3
    BY DEF Hop
  <1>3. /\ \A k \in Levels : k < level => c[Hop(c, r, va, k)][Index(k, va)].bits = TABLE
        /\ level < 3 => c[Hop(c, r, va, level)][Index(level, va)].bits # TABLE
    BY DEF EndsAt, OnWalk, Read
  <1>4. StopFrom(c, r, va) =
          IF c[r][Index(0, va)].bits # TABLE THEN [level |-> 0, table |-> r]
          ELSE IF c[l1][Index(1, va)].bits # TABLE THEN [level |-> 1, table |-> l1]
          ELSE IF c[l2][Index(2, va)].bits # TABLE THEN [level |-> 2, table |-> l2]
          ELSE [level |-> 3, table |-> l3]
    BY Zenon DEF StopFrom
  <1> HIDE DEF l1, l2, l3
  <1>5. CASE level = 0
    BY <1>2, <1>3, <1>4, <1>5
  <1>6. CASE level = 1
    <2>1. c[r][Index(0, va)].bits = TABLE /\ c[l1][Index(1, va)].bits # TABLE
      BY <1>2, <1>3, <1>6 DEF Levels
    <2> QED BY <1>2, <1>4, <1>6, <2>1, Zenon
  <1>7. CASE level = 2
    <2>1. /\ c[r][Index(0, va)].bits = TABLE /\ c[l1][Index(1, va)].bits = TABLE
          /\ c[l2][Index(2, va)].bits # TABLE
      BY <1>2, <1>3, <1>7 DEF Levels
    <2> QED BY <1>2, <1>4, <1>7, <2>1
  <1>8. CASE level = 3
    <2>1. /\ c[r][Index(0, va)].bits = TABLE /\ c[l1][Index(1, va)].bits = TABLE
          /\ c[l2][Index(2, va)].bits = TABLE
      BY <1>2, <1>3, <1>8 DEF Levels
    <2> QED BY <1>2, <1>4, <1>8, <2>1
  <1>9. level = 0 \/ level = 1 \/ level = 2 \/ level = 3
    BY DEF Levels
  <1> QED BY <1>5, <1>6, <1>7, <1>8, <1>9, Zenon

LEMMA WalkFinds ==
  ASSUME NEW c, NEW r, NEW va, NEW level \in Levels, EndsAt(c, r, va, level)
  PROVE  TranslateFrom(c, r, va) = Reading(Read(c, r, va, level), va, level)
PROOF
  <1>1. PICK stop : stop = StopFrom(c, r, va)
    OBVIOUS
  <1>2. stop.level = level /\ stop.table = Hop(c, r, va, level)
    BY <1>1, StopFinds
  <1>3. TranslateFrom(c, r, va) = Reading(c[stop.table][Index(stop.level, va)], va, stop.level)
    BY <1>1, Zenon DEF TranslateFrom
  <1> QED BY <1>2, <1>3 DEF Read

\* Translate is such a walk from the context's first table.
LEMMA TranslateFinds ==
  ASSUME NEW c, NEW va, NEW level \in Levels, EndsAt(c, level0_table, va, level)
  PROVE  Translate(c, va) = Reading(Read(c, level0_table, va, level), va, level)
PROOF
  <1>1. Translate(c, va) = TranslateFrom(c, level0_table, va)
    BY Zenon DEF Translate, TranslateFrom, Stop, StopFrom, Reading
  <1> QED BY <1>1, WalkFinds

LEMMA TranslateFindsNext ==
  ASSUME NEW CONSTANT va, NEW CONSTANT level \in Levels,
         EndsAt(Context_tables', level0_table', va, level)
  PROVE  Translate(Context_tables, va)' = Reading(Read(Context_tables', level0_table', va, level), va, level)
PROOF
  <1>1. Translate(Context_tables, va)' = TranslateFrom(Context_tables', level0_table', va)
    BY Zenon DEF Translate, TranslateFrom, Stop, StopFrom, Reading
  <1> QED BY <1>1, WalkFinds

\* A walk through entries that are the same in other contents goes the same way.
LEMMA SameUpTo ==
  ASSUME NEW c, NEW d, NEW r, NEW va, NEW level \in Levels,
         \A k \in Levels : k < level /\ OnWalk(c, r, va, k) =>
           d[Hop(c, r, va, k)][Index(k, va)] = Read(c, r, va, k)
  PROVE  \A k \in Levels : k <= level =>
           /\ OnWalk(d, r, va, k) <=> OnWalk(c, r, va, k)
           /\ OnWalk(c, r, va, k) => Hop(d, r, va, k) = Hop(c, r, va, k)
PROOF
  <1> DEFINE Same(k) == /\ OnWalk(d, r, va, k) <=> OnWalk(c, r, va, k)
                        /\ OnWalk(c, r, va, k) => Hop(d, r, va, k) = Hop(c, r, va, k)
  <1>1. Same(0)
    BY HopNext, OnWalkNext
  <1>2. ASSUME NEW k \in 0 .. 2, Same(k), k < level PROVE Same(k + 1)
    <2>1. k \in Levels /\ k + 1 \in Levels
      BY DEF Levels
    <2>2. /\ OnWalk(c, r, va, k + 1) <=> OnWalk(c, r, va, k) /\ Read(c, r, va, k).bits = TABLE
          /\ OnWalk(d, r, va, k + 1) <=> OnWalk(d, r, va, k) /\ Read(d, r, va, k).bits = TABLE
      BY OnWalkNext
    <2>3. OnWalk(c, r, va, k) => Read(d, r, va, k) = Read(c, r, va, k)
      <3>1. SUFFICES ASSUME OnWalk(c, r, va, k) PROVE Read(d, r, va, k) = Read(c, r, va, k)
        OBVIOUS
      <3>2. Hop(d, r, va, k) = Hop(c, r, va, k)
        BY <1>2, <3>1
      <3>3. d[Hop(c, r, va, k)][Index(k, va)] = Read(c, r, va, k)
        BY <1>2, <2>1, <3>1
      <3>4. Read(d, r, va, k) = d[Hop(d, r, va, k)][Index(k, va)]
        BY DEF Read
      <3> QED BY <3>2, <3>3, <3>4
    <2>4. /\ Hop(c, r, va, k + 1) = Read(c, r, va, k).page
          /\ Hop(d, r, va, k + 1) = Read(d, r, va, k).page
      BY HopNext
    <2> QED BY <1>2, <2>2, <2>3, <2>4
  <1> HIDE DEF Same
  <1>3. 0 < level => Same(0 + 1)
    BY <1>1, <1>2
  <1>4. 1 < level => Same(1 + 1)
    BY <1>2, <1>3 DEF Levels
  <1>5. 2 < level => Same(2 + 1)
    BY <1>2, <1>4 DEF Levels
  <1>6. \A k \in Levels : k <= level => Same(k)
    BY <1>1, <1>3, <1>4, <1>5 DEF Levels
  <1> QED BY <1>6 DEF Same

LEMMA SameEnds ==
  ASSUME NEW c, NEW d, NEW r, NEW va, NEW level \in Levels, EndsAt(c, r, va, level),
         \A k \in Levels : OnWalk(c, r, va, k) => d[Hop(c, r, va, k)][Index(k, va)] = Read(c, r, va, k)
  PROVE  EndsAt(d, r, va, level) /\ Read(d, r, va, level) = Read(c, r, va, level)
PROOF
  <1>1. OnWalk(c, r, va, level) /\ level <= level
    BY DEF EndsAt, Levels
  <1>2. OnWalk(d, r, va, level) /\ Hop(d, r, va, level) = Hop(c, r, va, level)
    BY <1>1, SameUpTo
  <1>3. Read(d, r, va, level) = Read(c, r, va, level)
    <2>1. d[Hop(c, r, va, level)][Index(level, va)] = Read(c, r, va, level)
      BY <1>1
    <2>2. Read(d, r, va, level) = d[Hop(d, r, va, level)][Index(level, va)]
      BY DEF Read
    <2> QED BY <1>2, <2>1, <2>2
  <1> QED BY <1>2, <1>3 DEF EndsAt

\* If a step changes none of its entries, a virtual page stays where it is.
LEMMA Undisturbed ==
  ASSUME NEW CONSTANT va, UNCHANGED level0_table,
         \A k \in Levels : OnWalk(Context_tables, level0_table, va, k) =>
           Context_tables'[Hop(Context_tables, level0_table, va, k)][Index(k, va)]
             = Read(Context_tables, level0_table, va, k)
  PROVE  Translate(Context_tables, va)' = Translate(Context_tables, va)
PROOF
  <1>1. PICK level \in Levels : EndsAt(Context_tables, level0_table, va, level)
    BY EndsSomewhere
  <1>2. /\ EndsAt(Context_tables', level0_table, va, level)
        /\ Read(Context_tables', level0_table, va, level) = Read(Context_tables, level0_table, va, level)
    BY <1>1, SameEnds
  <1>3. EndsAt(Context_tables', level0_table', va, level)
    BY <1>2
  <1>4. Translate(Context_tables, va)' = Reading(Read(Context_tables', level0_table', va, level), va, level)
    BY <1>3, TranslateFindsNext
  <1>5. Translate(Context_tables, va) = Reading(Read(Context_tables, level0_table, va, level), va, level)
    BY <1>1, TranslateFinds
  <1> QED BY <1>2, <1>4, <1>5

-----------------------------------------------------------------------------
\* The tables a walk reaches.
LEMMA HopsAre ==
  ASSUME NEW lev \in [DOMAIN tables -> Levels], Tree(lev), table_stack = <<>>, pc # "entry",
         level0_table # NULL, NEW va \in Nat, NEW level \in Levels,
         OnWalk(tables, level0_table, va, level)
  PROVE  /\ Hop(tables, level0_table, va, level) \in DOMAIN tables
         /\ lev[Hop(tables, level0_table, va, level)] = level
         /\ Read(tables, level0_table, va, level) \in EntryType
         /\ level < 3 /\ Read(tables, level0_table, va, level).bits = TABLE =>
              Link(lev, Hop(tables, level0_table, va, level), Index(level, va))
PROOF
  <1> DEFINE At(k) == Hop(tables, level0_table, va, k)
             There(k) == OnWalk(tables, level0_table, va, k) => At(k) \in DOMAIN tables /\ lev[At(k)] = k
             Linking(k) == OnWalk(tables, level0_table, va, k) /\ Read(tables, level0_table, va, k).bits = TABLE
                             => Link(lev, At(k), Index(k, va))
  <1>1. There(0)
    BY HopNext DEF Tree, Rooted
  <1>2. ASSUME NEW k \in 0 .. 2, There(k) PROVE Linking(k)
    <2>1. k \in Levels /\ k < 3
      BY DEF Levels
    <2>2. Index(k, va) \in Indices(k)
      BY <2>1, IndexType
    <2> QED BY <1>2, <2>1, <2>2 DEF Link, Live, Read
  <1>3. ASSUME NEW k \in 0 .. 2, There(k) PROVE There(k + 1)
    <2>1. SUFFICES ASSUME OnWalk(tables, level0_table, va, k + 1)
                   PROVE  At(k + 1) \in DOMAIN tables /\ lev[At(k + 1)] = k + 1
      OBVIOUS
    <2>2. OnWalk(tables, level0_table, va, k) /\ Read(tables, level0_table, va, k).bits = TABLE
      BY <2>1, OnWalkNext
    <2>3. Link(lev, At(k), Index(k, va)) /\ lev[At(k)] = k
      BY <1>2, <1>3, <2>2
    <2>4. At(k + 1) = tables[At(k)][Index(k, va)].page
      BY HopNext DEF Read
    <2>5. At(k) \in DOMAIN tables /\ Index(k, va) \in Indices(lev[At(k)])
      BY <2>3 DEF Link
    <2> HIDE DEF At
    <2> QED BY <2>3, <2>4, <2>5 DEF Tree, Linked
  <1> HIDE DEF There
  <1>4. There(0 + 1) /\ There(0)
    BY <1>1, <1>3
  <1>5. There(1 + 1)
    BY <1>3, <1>4
  <1>6. There(2 + 1)
    BY <1>3, <1>5
  <1>7. There(level)
    BY <1>4, <1>5, <1>6 DEF Levels
  <1>8. At(level) \in DOMAIN tables /\ lev[At(level)] = level
    BY <1>7 DEF There
  <1>9. Read(tables, level0_table, va, level) \in EntryType
    <2>1. Index(level, va) \in Indices(level)
      BY IndexType
    <2> HIDE DEF At
    <2>2. tables[At(level)][Index(level, va)] \in EntryType
      BY <1>8, <2>1 DEF Tree, Shaped
    <2> QED BY <2>2 DEF At, Read
  <1>10. level < 3 => Linking(level)
    <2>1. level < 3 => level \in 0 .. 2
      BY DEF Levels
    <2> QED BY <1>2, <1>7, <2>1
  <1> QED BY <1>8, <1>9, <1>10

-----------------------------------------------------------------------------
\* The number of the entry, of all entries of a level, that is for a page.
Num(level, va) == va \div SIZE[level]

LEMMA NumType ==
  ASSUME NEW va \in Nat, NEW level \in Levels
  PROVE  Num(level, va) \in Nat
  BY SizeIs, Division DEF Num

LEMMA VasIs ==
  ASSUME NEW va \in VAS
  PROVE  va \in Nat /\ Num(0, va) < ENTRIES[0] /\ Index(0, va) = Num(0, va)
PROOF
  <1>1. ENTRIES[0] \in Nat \ {0} /\ SIZE[0] \in Nat \ {0}
    BY EntriesAre, SizeIs DEF Levels
  <1>2. ENTRIES[0] * SIZE[0] \in Nat
    BY <1>1
  <1>3. va \in Nat /\ va < ENTRIES[0] * SIZE[0]
    BY <1>2 DEF VAS
  <1>4. va \div SIZE[0] \in 0 .. (ENTRIES[0] - 1)
    BY <1>3, IndexIs DEF Levels, Indices
  <1>5. (va \div SIZE[0]) % ENTRIES[0] = va \div SIZE[0]
    <2> DEFINE q == va \div SIZE[0]
               n == ENTRIES[0]
    <2>1. q \in 0 .. (n - 1) /\ n \in Nat \ {0}
      BY <1>1, <1>4
    <2> HIDE DEF q, n
    <2>2. q % n = q
      BY <2>1
    <2> QED BY <2>2 DEF q, n
  <1> QED BY <1>1, <1>3, <1>4, <1>5 DEF Num, Index

\* An entry's number is made of the one above it and of its index.
LEMMA NumAbove ==
  ASSUME NEW va \in Nat, NEW level \in 1 .. 3
  PROVE  /\ Num(level, va) = Num(level - 1, va) * ENTRIES[level] + Index(level, va)
         /\ Index(level, va) \in 0 .. (ENTRIES[level] - 1)
PROOF
  <1> DEFINE n == ENTRIES[level]
             w == SIZE[level]
             q == va \div w
             r == va % w
  <1>1. level \in Levels /\ level - 1 \in 0 .. 2 /\ level - 1 \in Levels /\ (level - 1) + 1 = level
    BY DEF Levels
  <1>2. n \in Nat \ {0} /\ w \in Nat \ {0} /\ SIZE[level - 1] = n * w
    BY <1>1, EntriesAre, SizeIs
  <1> HIDE DEF n, w
  <1>3. q \in Nat /\ r \in 0 .. (w - 1) /\ va = q * w + r
    BY <1>2, Division
  <1>4. q \div n \in Nat /\ q % n \in 0 .. (n - 1) /\ q = (q \div n) * n + (q % n)
    <2> HIDE DEF q
    <2> QED BY <1>2, <1>3, Division
  <1>5. va \div (n * w) = q \div n
    <2> DEFINE a == q \div n
               b == q % n
    <2>1. a \in Nat /\ b \in 0 .. (n - 1) /\ q = a * n + b
      BY <1>4
    <2> HIDE DEF a, b, q, r
    <2>2. va = (a * n + b) * w + r
      BY <1>3, <2>1
    <2>3. (a * n + b) * w = (a * n) * w + b * w /\ (a * n) * w = a * (n * w)
      BY <1>2, <2>1
    <2>4. b * w + r \in 0 .. (n * w - 1)
      <3>1. b <= n - 1 /\ n - 1 \in Nat /\ b \in Nat
        BY <1>2, <2>1
      <3>2. b * w <= (n - 1) * w
        BY <1>2, <3>1, MultipleMonotone
      <3>3. (n - 1) * w = n * w - w
        BY <1>2
      <3>4. b * w \in Nat /\ n * w \in Nat
        BY <1>2, <2>1
      <3> QED BY <1>2, <1>3, <3>2, <3>3, <3>4
    <2>5. n * w \in Nat \ {0}
      BY <1>2, ProductPositive
    <2> DEFINE z == n * w
               y == b * w + r
    <2>6. va = a * z + y
      <3>1. b * w \in Nat /\ a * (n * w) \in Nat
        BY <1>2, <2>1
      <3> QED BY <1>3, <2>2, <2>3, <3>1
    <2>7. z \in Nat \ {0} /\ y \in 0 .. (z - 1)
      BY <2>4, <2>5
    <2> HIDE DEF z, y
    <2>8. va \div z = a
      BY <2>1, <2>6, <2>7, DivisionUnique
    <2> QED BY <2>8 DEF z, a
  <1> QED BY <1>1, <1>2, <1>4, <1>5 DEF Num, Index, n, w

\* Pages with the same entry on one level have it on each level above.
LEMMA SameNum ==
  ASSUME NEW va \in Nat, NEW vb \in Nat, NEW level \in 1 .. 3,
         Num(level, va) = Num(level, vb)
  PROVE  Num(level - 1, va) = Num(level - 1, vb) /\ Index(level, va) = Index(level, vb)
PROOF
  <1> DEFINE n == ENTRIES[level]
  <1>1. level \in Levels /\ level - 1 \in Levels
    BY DEF Levels
  <1>2. n \in Nat \ {0} /\ Num(level - 1, va) \in Nat /\ Num(level - 1, vb) \in Nat
    BY <1>1, EntriesAre, NumType
  <1>3. /\ Num(level, va) = Num(level - 1, va) * n + Index(level, va)
        /\ Index(level, va) \in 0 .. (n - 1)
        /\ Num(level, vb) = Num(level - 1, vb) * n + Index(level, vb)
        /\ Index(level, vb) \in 0 .. (n - 1)
    BY NumAbove
  <1> DEFINE q(v) == Num(level - 1, v)
             i(v) == Index(level, v)
  <1> HIDE DEF n, q, i
  <1>4. q(va) \in Nat /\ i(va) \in 0 .. (n - 1) /\ q(vb) \in Nat /\ i(vb) \in 0 .. (n - 1)
    BY <1>2, <1>3 DEF q, i
  <1>5. /\ (q(va) * n + i(va)) \div n = q(va) /\ (q(va) * n + i(va)) % n = i(va)
        /\ (q(vb) * n + i(vb)) \div n = q(vb) /\ (q(vb) * n + i(vb)) % n = i(vb)
    BY <1>2, <1>4, DivisionUnique
  <1>6. q(va) * n + i(va) = q(vb) * n + i(vb)
    BY <1>3 DEF q, i
  <1> QED BY <1>5, <1>6 DEF q, i

LEMMA NumsAbove ==
  ASSUME NEW va \in Nat, NEW vb \in Nat, NEW level \in Levels,
         Num(level, va) = Num(level, vb), NEW k \in Levels, k <= level
  PROVE  Num(k, va) = Num(k, vb)
PROOF
  <1> DEFINE Same(n) == Num(n, va) = Num(n, vb)
  <1>1. ASSUME NEW n \in 1 .. 3, Same(n) PROVE Same(n - 1)
    BY <1>1, SameNum
  <1> HIDE DEF Same
  <1>2. Same(3) => Same(3 - 1)
    BY <1>1
  <1>3. Same(2) => Same(2 - 1)
    BY <1>1
  <1>4. Same(1) => Same(1 - 1)
    BY <1>1
  <1>5. Same(level)
    BY DEF Same
  <1>6. Same(k)
    BY <1>2, <1>3, <1>4, <1>5 DEF Levels
  <1> QED BY <1>6 DEF Same

\* Pages with the same entry on the level above reach the same table.
LEMMA SameHop ==
  ASSUME NEW c, NEW r, NEW va \in Nat, NEW vb \in Nat, NEW level \in 1 .. 3,
         Num(level - 1, va) = Num(level - 1, vb), OnWalk(c, r, va, level)
  PROVE  OnWalk(c, r, vb, level) /\ Hop(c, r, vb, level) = Hop(c, r, va, level)
PROOF
  <1> DEFINE Same(k) == OnWalk(c, r, vb, k) /\ Hop(c, r, vb, k) = Hop(c, r, va, k)
  <1>1. Same(0)
    BY HopNext, OnWalkNext
  <1>2. ASSUME NEW k \in 0 .. 2, k < level PROVE Index(k, va) = Index(k, vb)
    <2>1. level - 1 \in Levels /\ k \in Levels /\ k <= level - 1
      BY <1>2 DEF Levels
    <2>2. Num(k, va) = Num(k, vb)
      BY <2>1, NumsAbove
    <2> QED BY <2>2 DEF Num, Index
  <1>3. ASSUME NEW k \in 0 .. 2, Same(k), k < level PROVE Same(k + 1)
    <2>1. Index(k, va) = Index(k, vb)
      BY <1>2, <1>3
    <2>2. Read(c, r, vb, k) = Read(c, r, va, k)
      BY <1>3, <2>1 DEF Read
    <2>3. /\ Hop(c, r, va, k + 1) = Read(c, r, va, k).page
          /\ Hop(c, r, vb, k + 1) = Read(c, r, vb, k).page
      BY HopNext
    <2>4. OnWalk(c, r, vb, k + 1) <=> OnWalk(c, r, vb, k) /\ Read(c, r, vb, k).bits = TABLE
      BY OnWalkNext
    <2>5. Read(c, r, va, k).bits = TABLE
      <3>1. k \in Levels
        BY DEF Levels
      <3> QED BY <1>3, <3>1 DEF OnWalk
    <2> QED BY <1>3, <2>2, <2>3, <2>4, <2>5
  <1> HIDE DEF Same
  <1>4. Same(0 + 1)
    BY <1>1, <1>3
  <1>5. 1 < level => Same(1 + 1)
    BY <1>3, <1>4
  <1>6. 2 < level => Same(2 + 1)
    BY <1>3, <1>5
  <1>7. Same(level)
    BY <1>4, <1>5, <1>6
  <1> QED BY <1>7 DEF Same

\* ... and only they do: each table has one entry that leads to it.
LEMMA HopsMeet ==
  ASSUME NEW lev \in [DOMAIN tables -> Levels], Tree(lev), table_stack = <<>>, pc # "entry",
         level0_table # NULL, NEW va \in VAS, NEW vb \in VAS, NEW level \in 1 .. 3,
         OnWalk(tables, level0_table, va, level), OnWalk(tables, level0_table, vb, level),
         Hop(tables, level0_table, va, level) = Hop(tables, level0_table, vb, level)
  PROVE  Num(level - 1, va) = Num(level - 1, vb)
PROOF
  <1> DEFINE Both(k) == OnWalk(tables, level0_table, va, k) /\ OnWalk(tables, level0_table, vb, k)
             Meet(k) == Hop(tables, level0_table, va, k) = Hop(tables, level0_table, vb, k)
  <1>1. va \in Nat /\ vb \in Nat
    BY VasIs
  <1>2. ASSUME NEW k \in 0 .. 2, Both(k + 1), Meet(k + 1)
        PROVE  Both(k) /\ Meet(k) /\ Index(k, va) = Index(k, vb)
    <2>1. k \in Levels /\ k < 3
      BY DEF Levels
    <2>2. /\ Both(k)
          /\ Read(tables, level0_table, va, k).bits = TABLE
          /\ Read(tables, level0_table, vb, k).bits = TABLE
      BY <1>2, OnWalkNext
    <2> DEFINE T(v) == Hop(tables, level0_table, v, k)
               R(v) == Read(tables, level0_table, v, k)
    <2>3. Link(lev, T(va), Index(k, va)) /\ Link(lev, T(vb), Index(k, vb))
      BY <1>1, <2>1, <2>2, HopsAre
    <2>4. R(va).page = R(vb).page
      BY <1>2, HopNext
    <2>5. tables[T(va)][Index(k, va)].page = tables[T(vb)][Index(k, vb)].page
      BY <2>4 DEF Read
    <2> HIDE DEF T
    <2>6. /\ T(va) \in DOMAIN tables /\ Index(k, va) \in Indices(lev[T(va)])
          /\ T(vb) \in DOMAIN tables /\ Index(k, vb) \in Indices(lev[T(vb)])
      BY <2>3 DEF Link
    <2>7. T(va) = T(vb) /\ Index(k, va) = Index(k, vb)
      BY <2>3, <2>5, <2>6 DEF Tree, Linked
    <2> QED BY <2>2, <2>7 DEF T
  <1>3. ASSUME NEW k \in 1 .. 2, Num(k - 1, va) = Num(k - 1, vb), Index(k, va) = Index(k, vb)
        PROVE  Num(k, va) = Num(k, vb)
    <2>1. k \in 1 .. 3
      OBVIOUS
    <2> QED BY <1>1, <1>3, <2>1, NumAbove
  <1>4. Index(0, va) = Index(0, vb) => Num(0, va) = Num(0, vb)
    BY VasIs
  <1> DEFINE Number(k) == Both(k + 1) /\ Meet(k + 1) => Num(k, va) = Num(k, vb)
  <1>5. Number(0)
    BY <1>2, <1>4
  <1> HIDE DEF Both, Meet
  <1>6. ASSUME NEW k \in 1 .. 2, Number(k - 1) PROVE Number(k)
    <2> SUFFICES ASSUME Both(k + 1), Meet(k + 1) PROVE Num(k, va) = Num(k, vb)
      OBVIOUS
    <2>1. k \in 0 .. 2 /\ (k - 1) + 1 = k
      OBVIOUS
    <2>2. Both(k) /\ Meet(k) /\ Index(k, va) = Index(k, vb)
      BY <1>2, <2>1
    <2>3. Num(k - 1, va) = Num(k - 1, vb)
      BY <1>6, <2>1, <2>2
    <2> QED BY <1>3, <2>2, <2>3
  <1> HIDE DEF Number
  <1>7. Number(1 - 1)
    BY <1>5
  <1>8. Number(1)
    BY <1>6, <1>7
  <1>9. Number(2 - 1)
    BY <1>8
  <1>10. Number(2)
    BY <1>6, <1>9
  <1>11. Number(level - 1)
    <2>1. level = 1 \/ level = 2 \/ level = 3
      OBVIOUS
    <2>2. 1 - 1 = 0 /\ 2 - 1 = 1 /\ 3 - 1 = 2
      OBVIOUS
    <2> QED BY <1>5, <1>8, <1>10, <2>1, <2>2
  <1>12. (level - 1) + 1 = level
    OBVIOUS
  <1>13. Both(level) /\ Meet(level)
    BY DEF Both, Meet
  <1> QED BY <1>11, <1>12, <1>13 DEF Number

\* The pages for which entry n of a table is, beside the one for a.
LEMMA EntryPagesAre ==
  ASSUME NEW lev \in [DOMAIN tables -> Levels], Tree(lev), table_stack = <<>>, pc # "entry",
         level0_table # NULL, NEW a \in VAS, NEW va \in VAS, NEW level \in 1 .. 3,
         OnWalk(tables, level0_table, a, level), NEW n \in Indices(level)
  PROVE  /\ OnWalk(tables, level0_table, va, level)
         /\ Hop(tables, level0_table, va, level) = Hop(tables, level0_table, a, level)
         /\ Index(level, va) = n
         <=> Num(level, va) = Num(level, a) + (n - Index(level, a))
PROOF
  <1>1. /\ va \in Nat /\ a \in Nat /\ level \in Levels /\ level - 1 \in Levels
    BY VasIs DEF Levels
  <1>2. PICK w, qa, ia, qv, iv :
          /\ w = ENTRIES[level] /\ qa = Num(level - 1, a) /\ ia = Index(level, a)
          /\ qv = Num(level - 1, va) /\ iv = Index(level, va)
    OBVIOUS
  <1>3. /\ w \in Nat \ {0} /\ qa \in Nat /\ ia \in 0 .. (w - 1) /\ qv \in Nat /\ iv \in 0 .. (w - 1)
        /\ Num(level, a) = qa * w + ia /\ Num(level, va) = qv * w + iv
    BY <1>1, <1>2, EntriesAre, NumType, NumAbove
  <1>4. n \in 0 .. (w - 1)
    BY <1>2 DEF Indices
  <1>5. ASSUME OnWalk(tables, level0_table, va, level),
               Hop(tables, level0_table, va, level) = Hop(tables, level0_table, a, level), iv = n
        PROVE  Num(level, va) = Num(level, a) + (n - ia)
    <2>1. qa = qv
      BY <1>2, <1>5, HopsMeet
    <2>2. qa * w \in Nat
      BY <1>3
    <2> QED BY <1>3, <1>5, <2>1, <2>2
  <1>6. ASSUME Num(level, va) = Num(level, a) + (n - ia)
        PROVE  /\ OnWalk(tables, level0_table, va, level)
               /\ Hop(tables, level0_table, va, level) = Hop(tables, level0_table, a, level)
               /\ iv = n
    <2>1. qv * w + iv = qa * w + n
      <3>1. qa * w \in Nat /\ qv * w \in Nat
        BY <1>3
      <3> QED BY <1>3, <1>4, <1>6, <3>1
    <2>2. /\ (qv * w + iv) \div w = qv /\ (qv * w + iv) % w = iv
          /\ (qa * w + n) \div w = qa /\ (qa * w + n) % w = n
      BY <1>3, <1>4, DivisionUnique
    <2>3. qv = qa /\ iv = n
      BY <2>1, <2>2
    <2> QED BY <1>1, <1>2, <2>3, SameHop
  <1> QED BY <1>2, <1>5, <1>6

\* ... which are a run.
LEMMA NumRun ==
  ASSUME NEW va \in Nat, NEW level \in Levels, NEW m \in Nat
  PROVE  Num(level, va) = m <=> va \in Run(m * SIZE[level], SIZE[level])
PROOF
  <1> DEFINE w == SIZE[level]
  <1>1. w \in Nat \ {0}
    BY SizeIs
  <1>2. m * w \in Nat
    BY <1>1
  <1> HIDE DEF w
  <1>3. va \div w \in Nat /\ va % w \in 0 .. (w - 1) /\ va = (va \div w) * w + (va % w)
    BY <1>1, Division
  <1>4. va \div w = m => va \in m * w .. (m * w + w - 1)
    BY <1>1, <1>2, <1>3
  <1>5. ASSUME va \in m * w .. (m * w + w - 1) PROVE va \div w = m
    <2> DEFINE d == va - m * w
    <2>1. d \in 0 .. (w - 1) /\ va = m * w + d
      BY <1>1, <1>2, <1>5
    <2> HIDE DEF d
    <2> QED BY <1>1, <2>1, DivisionUnique
  <1> QED BY <1>4, <1>5 DEF Num, Run, w

-----------------------------------------------------------------------------
(***************************************************************************)
(* The calls of a mapping.                                                 *)
(***************************************************************************)
Last(call) == call.address + call.count * SIZE[call.level]

\* Calls one after the other, that ask for blocks where blocks can lie.
Ahead(calls, from, to) ==
  /\ \A i \in DOMAIN calls :
       /\ calls[i].count > 0
       /\ from <= calls[i].address /\ Last(calls[i]) <= to
       /\ calls[i].level = 2 => calls[i].address % SIZE[2] = 0
  /\ \A i, j \in DOMAIN calls : i < j => Last(calls[i]) <= calls[j].address

Covered(calls) == UNION {CallPages(calls[i]) : i \in DOMAIN calls}

Covers(calls, from, to) ==
  calls \in Seq(Calls) /\ Ahead(calls, from, to) /\ Covered(calls) = from .. (to - 1)

LEMMA CallsAre ==
  ASSUME NEW call \in Calls
  PROVE  /\ call.address \in Nat /\ call.count \in Nat /\ call.level \in {2, 3}
         /\ SIZE[call.level] \in Nat \ {0}
         /\ call.count * SIZE[call.level] \in Nat /\ Last(call) \in Nat
         /\ call.count > 0 => call.address < Last(call)
         /\ CallPages(call) = call.address .. (Last(call) - 1)
PROOF
  <1>1. call.address \in Nat /\ call.count \in Nat /\ call.level \in {2, 3}
    BY MmuAssumption DEF Calls
  <1>2. SIZE[call.level] \in Nat \ {0}
    BY <1>1, SizeIs DEF Levels
  <1> DEFINE n == call.count
             w == SIZE[call.level]
  <1>3. n * w \in Nat /\ (n > 0 => n * w > 0)
    BY <1>1, <1>2, ProductPositive
  <1> QED BY <1>1, <1>2, <1>3 DEF Last, CallPages, Run

LEMMA CoverNothing ==
  ASSUME NEW from \in Nat
  PROVE  Covers(<<>>, from, from)
PROOF
  <1>1. <<>> \in Seq(Calls) /\ DOMAIN <<>> = {}
    OBVIOUS
  <1>2. Covered(<<>>) = {}
    BY <1>1 DEF Covered
  <1>3. from .. (from - 1) = {}
    OBVIOUS
  <1> QED BY <1>1, <1>2, <1>3 DEF Covers, Ahead

LEMMA CoverOne ==
  ASSUME NEW address \in Nat, NEW count \in Nat, NEW level \in {2, 3},
         count < COUNTS, address + count * SIZE[level] <= ADDRESSES,
         level = 2 => address % SIZE[2] = 0
  PROVE  Covers(If_any(Call(address, count, level)), address, address + count * SIZE[level])
PROOF
  <1> DEFINE call == Call(address, count, level)
             w == SIZE[level]
  <1>1. w \in Nat \ {0} /\ ADDRESSES \in Nat \ {0} /\ COUNTS \in Nat \ {0}
    BY SizeIs, MmuAssumption DEF Levels
  <1>2. count % COUNTS = count
    BY <1>1
  <1>3. CASE count = 0
    <2>1. If_any(call) = <<>>
      BY <1>2, <1>3 DEF If_any, Call
    <2>2. address + count * w = address
      BY <1>1, <1>3
    <2> QED BY <2>1, <2>2, CoverNothing
  <1>4. CASE count # 0
    <2>1. PICK z : z = count * w
      OBVIOUS
    <2>2. z \in Nat \ {0} /\ address + z <= ADDRESSES
      BY <1>1, <1>4, <2>1, ProductPositive
    <2>3. address < ADDRESSES
      BY <1>1, <2>2
    <2>4. address % ADDRESSES = address
      BY <1>1, <2>3
    <2>5. call = [address |-> address, count |-> count, level |-> level]
      BY <1>2, <2>4 DEF Call
    <2>6. call \in Calls
      BY <1>1, <2>3, <2>5 DEF Calls
    <2>7. If_any(call) = <<call>>
      BY <1>4, <2>5 DEF If_any
    <2>8. Last(call) = address + z
      BY <2>1, <2>5 DEF Last
    <2>10. call.count > 0 /\ call.address = address /\ call.level = level
      BY <1>4, <2>5
    <2>11. level = 2 => call.address % SIZE[2] = 0
      BY <2>10
    <2> HIDE DEF call
    <2>9. CallPages(call) = address .. ((address + z) - 1)
      <3>1. CallPages(call) = call.address .. (Last(call) - 1)
        BY <2>6, CallsAre
      <3> QED BY <2>8, <2>10, <3>1, Zenon
    <2>12. <<call>> \in Seq(Calls) /\ DOMAIN <<call>> = {1} /\ <<call>>[1] = call
      BY <2>6
    <2>13. Covered(<<call>>) = CallPages(call)
      BY <2>12 DEF Covered
    <2>14. Ahead(<<call>>, address, address + z)
      <3>1. address <= address /\ address + z <= address + z
        BY <2>2
      <3>2. \A i, j \in {1} : ~(i < j)
        OBVIOUS
      <3> QED BY <2>8, <2>10, <2>11, <2>12, <3>1, <3>2 DEF Ahead
    <2>15. Covers(<<call>>, address, address + z)
      <3>1. Covered(<<call>>) = address .. ((address + z) - 1)
        BY <2>9, <2>13, Zenon
      <3> QED BY <2>12, <2>14, <3>1, Zenon DEF Covers
    <2> QED BY <2>1, <2>7, <2>15 DEF call
  <1> QED BY <1>3, <1>4

LEMMA CoverBoth ==
  ASSUME NEW s, NEW t, NEW from \in Nat, NEW mid \in Nat, NEW to \in Nat, from <= mid, mid <= to,
         Covers(s, from, mid), Covers(t, mid, to)
  PROVE  Covers(s \o t, from, to)
PROOF
  <1> DEFINE c == s \o t
             m == Len(s)
             n == Len(t)
  <1>1. s \in Seq(Calls) /\ t \in Seq(Calls)
    BY DEF Covers
  <1>2. m \in Nat /\ n \in Nat /\ DOMAIN s = 1 .. m /\ DOMAIN t = 1 .. n
    BY <1>1, LenProperties
  <1>3. /\ c \in Seq(Calls) /\ DOMAIN c = 1 .. (m + n)
        /\ \A i \in 1 .. (m + n) : c[i] = IF i <= m THEN s[i] ELSE t[i - m]
    BY <1>1, <1>2, ConcatProperties, LenProperties
  <1> HIDE DEF c
  <1>4. \A i \in DOMAIN c : \/ i \in DOMAIN s /\ c[i] = s[i]
                            \/ i > m /\ (i - m) \in DOMAIN t /\ c[i] = t[i - m]
    BY <1>2, <1>3
  <1>5. \A i \in DOMAIN s : i \in DOMAIN c /\ c[i] = s[i] /\ i <= m
    BY <1>2, <1>3
  <1>6. \A j \in DOMAIN t : (j + m) \in DOMAIN c /\ c[j + m] = t[j]
    <2> TAKE j \in DOMAIN t
    <2>1. j \in 1 .. n /\ j + m \in 1 .. (m + n) /\ ~(j + m <= m) /\ (j + m) - m = j
      BY <1>2
    <2> QED BY <1>3, <2>1
  <1>7. Covered(c) = Covered(s) \cup Covered(t)
    <2>1. Covered(c) \subseteq Covered(s) \cup Covered(t)
      BY <1>4 DEF Covered
    <2>2. Covered(s) \subseteq Covered(c)
      BY <1>5 DEF Covered
    <2>3. Covered(t) \subseteq Covered(c)
      <3> SUFFICES ASSUME NEW j \in DOMAIN t, NEW p \in CallPages(t[j]) PROVE p \in Covered(c)
        BY DEF Covered
      <3>1. p \in CallPages(c[j + m]) /\ (j + m) \in DOMAIN c
        BY <1>6
      <3> QED BY <3>1 DEF Covered
    <2> QED BY <2>1, <2>2, <2>3
  <1>8. from .. (mid - 1) \cup mid .. (to - 1) = from .. (to - 1)
    OBVIOUS
  <1>9. /\ \A i \in DOMAIN s : /\ s[i].count > 0 /\ from <= s[i].address /\ Last(s[i]) <= mid
                               /\ s[i].level = 2 => s[i].address % SIZE[2] = 0
        /\ \A i \in DOMAIN t : /\ t[i].count > 0 /\ mid <= t[i].address /\ Last(t[i]) <= to
                               /\ t[i].level = 2 => t[i].address % SIZE[2] = 0
        /\ \A i, j \in DOMAIN s : i < j => Last(s[i]) <= s[j].address
        /\ \A i, j \in DOMAIN t : i < j => Last(t[i]) <= t[j].address
    BY DEF Covers, Ahead
  <1>10. /\ \A i \in DOMAIN s : s[i] \in Calls
         /\ \A i \in DOMAIN t : t[i] \in Calls
    BY <1>1, <1>2, ElementOfSeq
  <1>11. /\ \A i \in DOMAIN s : Last(s[i]) \in Nat /\ s[i].address \in Nat
         /\ \A i \in DOMAIN t : Last(t[i]) \in Nat /\ t[i].address \in Nat
    BY <1>10, CallsAre
  <1>12. ASSUME NEW i \in DOMAIN c
         PROVE  /\ c[i].count > 0 /\ from <= c[i].address /\ Last(c[i]) <= to
                /\ c[i].level = 2 => c[i].address % SIZE[2] = 0
    <2>1. CASE i \in DOMAIN s /\ c[i] = s[i]
      BY <1>9, <1>11, <2>1
    <2>2. CASE (i - m) \in DOMAIN t /\ c[i] = t[i - m]
      BY <1>9, <1>11, <2>2
    <2> QED BY <1>4, <2>1, <2>2
  <1>13. ASSUME NEW i \in DOMAIN c, NEW j \in DOMAIN c, i < j
         PROVE  Last(c[i]) <= c[j].address
    <2>0. i \in Nat /\ j \in Nat
      BY <1>3
    <2>1. CASE i \in DOMAIN s /\ c[i] = s[i] /\ j \in DOMAIN s /\ c[j] = s[j]
      BY <1>9, <1>13, <2>1
    <2>2. CASE i \in DOMAIN s /\ c[i] = s[i] /\ (j - m) \in DOMAIN t /\ c[j] = t[j - m]
      BY <1>9, <1>11, <2>2
    <2>3. CASE (i - m) \in DOMAIN t /\ c[i] = t[i - m] /\ (j - m) \in DOMAIN t /\ c[j] = t[j - m]
      <3>1. i - m < j - m
        BY <1>2, <1>13, <2>0
      <3> QED BY <1>9, <2>3, <3>1
    <2>4. ~(i > m /\ j \in DOMAIN s)
      BY <1>2, <1>13, <2>0
    <2> QED BY <1>4, <2>1, <2>2, <2>3, <2>4
  <1>14. Ahead(c, from, to)
    BY <1>12, <1>13 DEF Ahead
  <1>15. Covered(c) = from .. (to - 1)
    BY <1>7, <1>8 DEF Covers
  <1> QED BY <1>3, <1>14, <1>15 DEF Covers, c

\* A region that ends within the addresses, and starts where a block can lie or
\* is too short for one; a head of pages must be counted as memory_mmu_insert
\* does not (see mmu_head).
RegionFits(r) ==
  LET gap == BlockAbove(r.va) - r.va
  IN  /\ r.va + r.size <= ADDRESSES /\ r.size < COUNTS
      /\ r.size >= gap + SIZE[2] => Head_count(gap) = gap

LEMMA BlockAboveIs ==
  ASSUME NEW va \in Nat
  PROVE  /\ BlockAbove(va) \in Nat /\ va <= BlockAbove(va)
         /\ BlockAbove(va) % SIZE[2] = 0
PROOF
  <1> DEFINE w == SIZE[2]
             x == va + w - 1
             q == x \div w
  <1>1. w \in Nat \ {0}
    BY SizeIs DEF Levels
  <1> HIDE DEF w
  <1>2. x \in Nat
    BY <1>1
  <1>3. q \in Nat /\ x % w \in 0 .. (w - 1) /\ x = q * w + (x % w)
    <2> HIDE DEF x
    <2> QED BY <1>1, <1>2, Division
  <1> HIDE DEF q
  <1>4. q * w \in Nat /\ va <= q * w
    BY <1>1, <1>3
  <1>5. (q * w) % w = 0
    <2>1. q * w + 0 = q * w /\ 0 \in 0 .. (w - 1)
      BY <1>1, <1>4
    <2> QED BY <1>1, <1>3, <2>1, DivisionUnique
  <1>6. BlockAbove(va) = q * w
    BY DEF BlockAbove, w, x, q
  <1> QED BY <1>4, <1>5, <1>6 DEF w

\* ... is what the calls of memory_mmu_insert cover.
LEMMA InsertCovers ==
  ASSUME NEW va \in Nat, NEW size \in 0 .. (ADDRESSES - 1),
         RegionFits([va |-> va, size |-> size])
  PROVE  Covers(memory_mmu_insert(va, size), va, va + size)
PROOF
  <1> DEFINE w == SIZE[2]
             above == BlockAbove(va)
             gap == above - va
             head == Head_count(gap)
             blocks == (((size - head) % ADDRESSES) \div w) % COUNTS
             mapped == head + blocks * w
             first == If_any(Call(va, head, 3))
             second == If_any(Call(va + head, blocks, 2))
             third == If_any(Call(va + mapped, (size - mapped) % ADDRESSES, 3))
  <1>1. w \in Nat \ {0} /\ ADDRESSES \in Nat \ {0} /\ COUNTS \in Nat \ {0} /\ SIZE[3] = 1
    BY SizeIs, MmuAssumption DEF Levels
  <1>2. above \in Nat /\ va <= above /\ above % w = 0
    BY BlockAboveIs
  <1>3. va + size <= ADDRESSES /\ size < COUNTS /\ (size >= gap + w => head = gap)
    BY DEF RegionFits
  <1> HIDE DEF w, above
  <1>4. gap \in Nat /\ va + gap = above
    BY <1>2
  <1>5. CASE ~(size >= gap + w)
    <2>1. memory_mmu_insert(va, size) = If_any(Call(va, size, 3))
      BY <1>5 DEF memory_mmu_insert, w, above
    <2>2. size * SIZE[3] = size
      BY <1>1
    <2>3. Covers(If_any(Call(va, size, 3)), va, va + size * SIZE[3])
      BY <1>3, <2>2, CoverOne
    <2> QED BY <2>1, <2>2, <2>3
  <1>6. CASE size >= gap + w
    <2>1. memory_mmu_insert(va, size) = first \o second \o third
      BY <1>6 DEF memory_mmu_insert, w, above
    <2>2. head = gap
      BY <1>3, <1>6
    <2>3. PICK left : left = size - gap
      OBVIOUS
    <2>4. left \in Nat /\ left < ADDRESSES /\ left < COUNTS /\ gap < COUNTS /\ size < ADDRESSES
      BY <1>1, <1>3, <1>4, <1>6, <2>3
    <2>5. PICK b : b = left \div w
      OBVIOUS
    <2>6. PICK z : z = b * w
      OBVIOUS
    <2>7. b \in Nat /\ z \in Nat /\ z <= left /\ b <= left
      <3>1. b \in Nat /\ left % w \in 0 .. (w - 1) /\ left = b * w + (left % w)
        BY <1>1, <2>4, <2>5, Division
      <3>2. b * w \in Nat
        BY <1>1, <3>1
      <3>3. b * 1 <= b * w
        BY <1>1, <3>1
      <3> QED BY <2>6, <3>1, <3>2, <3>3
    <2>8. blocks = b
      <3>1. left % ADDRESSES = left
        BY <1>1, <2>4
      <3>2. b % COUNTS = b
        BY <1>1, <2>4, <2>7
      <3> QED BY <2>2, <2>3, <2>5, <3>1, <3>2
    <2>9. mapped = gap + z /\ (size - mapped) % ADDRESSES = left - z
      <3>1. mapped = gap + z
        BY <2>2, <2>6, <2>8
      <3>2. size - (gap + z) = left - z /\ left - z \in Nat /\ left - z < ADDRESSES
        BY <1>1, <1>2, <2>3, <2>4, <2>7
      <3>3. (left - z) % ADDRESSES = left - z
        BY <1>1, <3>2
      <3> QED BY <3>1, <3>2, <3>3
    <2>10. /\ first = If_any(Call(va, gap, 3))
           /\ second = If_any(Call(above, b, 2))
           /\ third = If_any(Call(above + z, left - z, 3))
      <3>1. va + mapped = above + z
        BY <1>2, <1>4, <2>7, <2>9
      <3> QED BY <1>4, <2>2, <2>8, <2>9, <3>1
    <2> HIDE DEF gap, head, blocks, mapped, first, second, third
    <2>11. va + gap = above /\ gap \in Nat /\ above + left = va + size /\ above + left <= ADDRESSES
      BY <1>2, <1>3, <1>4, <1>6, <2>3 DEF gap
    <2>12. Covers(If_any(Call(va, gap, 3)), va, va + gap * SIZE[3])
      <3>1. va + gap * SIZE[3] <= ADDRESSES
        BY <1>1, <1>2, <2>4, <2>11
      <3> QED BY <2>4, <2>11, <3>1, CoverOne
    <2>13. Covers(If_any(Call(above, b, 2)), above, above + b * SIZE[2])
      <3>1. above + b * SIZE[2] <= ADDRESSES
        BY <1>1, <1>2, <2>4, <2>6, <2>7, <2>11 DEF w
      <3>2. b < COUNTS
        BY <1>1, <2>4, <2>7
      <3> QED BY <1>2, <2>7, <3>1, <3>2, CoverOne DEF w
    <2>14. Covers(If_any(Call(above + z, left - z, 3)), above + z, above + z + (left - z) * SIZE[3])
      <3>1. above + z + (left - z) * SIZE[3] <= ADDRESSES
        BY <1>1, <1>2, <2>4, <2>7, <2>11
      <3>2. left - z \in Nat /\ left - z < COUNTS /\ above + z \in Nat
        BY <1>1, <1>2, <2>4, <2>7
      <3> QED BY <3>1, <3>2, CoverOne
    <2>15. Covers(first, va, above) /\ Covers(second, above, above + z) /\ Covers(third, above + z, va + size)
      <3>1. gap * SIZE[3] = gap
        BY <1>1, <2>11
      <3>2. b * SIZE[2] = z
        BY <2>6 DEF w
      <3>3. above + z + (left - z) * SIZE[3] = above + left
        BY <1>1, <1>2, <2>4, <2>7
      <3> QED BY <2>10, <2>11, <2>12, <2>13, <2>14, <3>1, <3>2, <3>3
    <2>16. Covers(first \o second, va, above + z)
      BY <1>2, <2>7, <2>15, CoverBoth
    <2>17. Covers((first \o second) \o third, va, va + size)
      <3>1. va <= above + z /\ above + z <= va + size /\ above + z \in Nat /\ va + size \in Nat
        BY <1>2, <2>4, <2>7, <2>11
      <3> QED BY <2>15, <2>16, <3>1, CoverBoth
    <2> QED BY <2>1, <2>17
  <1> QED BY <1>5, <1>6

-----------------------------------------------------------------------------
(***************************************************************************)
(* One entry is written.                                                   *)
(***************************************************************************)
\* The rest of an address within a table, as the walk keeps it.
LEMMA RestIs ==
  ASSUME NEW a \in Nat, NEW level \in Levels
  PROVE  /\ (a % (ENTRIES[level] * SIZE[level])) \div SIZE[level] = Index(level, a)
         /\ (a % (ENTRIES[level] * SIZE[level])) % SIZE[level] = a % SIZE[level]
PROOF
  <1>1. PICK n, w : n = ENTRIES[level] /\ w = SIZE[level]
    OBVIOUS
  <1>2. n \in Nat \ {0} /\ w \in Nat \ {0}
    BY <1>1, EntriesAre, SizeIs
  <1>3. PICK q, d : q = a \div w /\ d = a % w
    OBVIOUS
  <1>4. q \in Nat /\ d \in 0 .. (w - 1) /\ a = q * w + d
    BY <1>2, <1>3, Division
  <1>5. PICK p, i : p = q \div n /\ i = q % n
    OBVIOUS
  <1>6. p \in Nat /\ i \in 0 .. (n - 1) /\ q = p * n + i
    BY <1>2, <1>4, <1>5, Division
  <1>7. PICK z : z = n * w
    OBVIOUS
  <1>8. z \in Nat \ {0}
    BY <1>2, <1>7, ProductPositive
  <1>9. i * w + d \in 0 .. (z - 1)
    <2>1. i <= n - 1 /\ n - 1 \in Nat /\ i \in Nat
      BY <1>2, <1>6
    <2>2. i * w <= (n - 1) * w
      BY <1>2, <2>1, MultipleMonotone
    <2>3. (n - 1) * w = z - w
      BY <1>2, <1>7
    <2>4. i * w \in Nat
      BY <1>2, <2>1
    <2> QED BY <1>2, <1>4, <1>8, <2>2, <2>3, <2>4
  <1>10. a = p * z + (i * w + d)
    <2>1. (p * n + i) * w = p * z + i * w
      BY <1>2, <1>6, <1>7
    <2>2. i * w \in Nat /\ p * z \in Nat
      BY <1>2, <1>6, <1>8
    <2> QED BY <1>4, <1>6, <2>1, <2>2
  <1>11. a % z = i * w + d
    BY <1>6, <1>8, <1>9, <1>10, DivisionUnique
  <1>12. i \in Nat /\ (i * w + d) \div w = i /\ (i * w + d) % w = d
    BY <1>2, <1>4, <1>6, DivisionUnique
  <1> QED BY <1>1, <1>3, <1>5, <1>7, <1>11, <1>12 DEF Index

\* Who reads an entry that a step changes, and what they find.
LEMMA EntryWritten ==
  ASSUME NEW lev \in [DOMAIN tables -> Levels], Tree(lev), ~Destroying, level0_table # NULL,
         NEW va \in VAS, NEW a \in VAS, NEW level \in {2, 3},
         OnWalk(tables, level0_table, a, level),
         NEW T, T = Hop(tables, level0_table, a, level),
         NEW n \in Indices(level), NEW e \in EntryType, Put(T, n, e),
         e.bits = IF level = 3 THEN TABLE ELSE BLOCK,
         level = 2 => tables[T][n].bits # TABLE,
         pc # "split", pc' # "split", UNCHANGED level0_table
  PROVE  LET m == Num(level, a) + (n - Index(level, a))
         IN  /\ Num(level, va) # m => Translate(Context_tables, va)' = Translate(Context_tables, va)
             /\ Num(level, va) = m =>
                  /\ Translate(Context_tables, va) = Reading(tables[T][n], va, level)
                  /\ Translate(Context_tables, va)' = Reading(e, va, level)
PROOF
  <1> DEFINE r == level0_table
             m == Num(level, a) + (n - Index(level, a))
  <1>1. /\ a \in Nat /\ va \in Nat /\ level \in Levels /\ level \in 1 .. 3
        /\ table_stack = <<>> /\ pc # "entry"
    BY VasIs DEF Levels, Destroying, Tree, Destruction
  <1>2. T \in DOMAIN tables /\ lev[T] = level
    BY <1>1, HopsAre
  <1>3. /\ tables'[T][n] = e
        /\ \A u \in DOMAIN tables : \A j \in Indices(lev[u]) :
             u # T \/ j # n => tables'[u][j] = tables[u][j]
    <2>1. Shaped(lev) /\ n \in Indices(lev[T]) /\ (e.bits = 0 => e = EMPTY_ENTRY)
          /\ (e.bits = BLOCK => lev[T] = 2)
      BY <1>2 DEF Tree, TABLE, BLOCK
    <2> QED BY <1>2, <2>1, PutIs
  <1>4. Context_tables = tables /\ Context_tables' = tables'
    BY DEF Context_tables
  <1> DEFINE There(k) == k = level /\ Hop(tables, r, va, k) = T /\ Index(k, va) = n
  <1>5. ASSUME NEW k \in Levels, OnWalk(tables, r, va, k), ~There(k)
        PROVE  tables'[Hop(tables, r, va, k)][Index(k, va)] = Read(tables, r, va, k)
    <2>1. PICK h, i : h = Hop(tables, r, va, k) /\ i = Index(k, va)
      OBVIOUS
    <2>2. h \in DOMAIN tables /\ lev[h] = k /\ i \in Indices(k)
      BY <1>1, <1>5, <2>1, HopsAre, IndexType
    <2>3. h # T \/ i # n
      BY <1>2, <1>5, <2>1, <2>2
    <2>4. tables'[h][i] = tables[h][i]
      BY <1>3, <2>2, <2>3
    <2> QED BY <2>1, <2>4 DEF Read
  <1>6. OnWalk(tables, r, va, level) /\ There(level) <=> Num(level, va) = m
    BY <1>1, EntryPagesAre
  <1>7. CASE Num(level, va) # m
    <2>1. \A k \in Levels : OnWalk(tables, r, va, k) =>
            tables'[Hop(tables, r, va, k)][Index(k, va)] = Read(tables, r, va, k)
      BY <1>5, <1>6, <1>7
    <2>2. \A k \in Levels : OnWalk(Context_tables, r, va, k) =>
            Context_tables'[Hop(Context_tables, r, va, k)][Index(k, va)] = Read(Context_tables, r, va, k)
      BY <1>4, <2>1
    <2>3. Translate(Context_tables, va)' = Translate(Context_tables, va)
      BY <2>2, Undisturbed
    <2> QED BY <1>7, <2>3
  <1>8. CASE Num(level, va) = m
    <2>1. OnWalk(tables, r, va, level) /\ There(level)
      BY <1>6, <1>8
    <2>2. Read(tables, r, va, level) = tables[T][n]
      BY <2>1 DEF Read
    <2>3. Translate(Context_tables, va) = Reading(tables[T][n], va, level)
      <3>1. EndsAt(tables, r, va, level)
        BY <2>1, <2>2 DEF EndsAt
      <3> QED BY <1>1, <1>4, <2>2, <3>1, TranslateFinds
    <2>4. Translate(Context_tables, va)' = Reading(e, va, level)
      <3>1. \A k \in Levels : k < level /\ OnWalk(tables, r, va, k) =>
              tables'[Hop(tables, r, va, k)][Index(k, va)] = Read(tables, r, va, k)
        <4>1. \A k \in Levels : k < level => ~There(k)
          BY <1>1 DEF Levels
        <4> QED BY <1>5, <4>1
      <3>2. level <= level
        BY <1>1
      <3>3. OnWalk(tables', r, va, level) /\ Hop(tables', r, va, level) = T
        BY <1>1, <2>1, <3>1, <3>2, SameUpTo
      <3>4. Read(tables', r, va, level) = e
        BY <1>3, <2>1, <3>3 DEF Read
      <3>5. EndsAt(Context_tables', level0_table', va, level)
        BY <1>1, <1>4, <3>3, <3>4 DEF EndsAt, TABLE, BLOCK
      <3>6. Translate(Context_tables, va)' = Reading(Read(Context_tables', level0_table', va, level), va, level)
        BY <1>1, <3>5, TranslateFindsNext
      <3> QED BY <1>4, <3>4, <3>6
    <2> QED BY <1>8, <2>3, <2>4
  <1> QED BY <1>7, <1>8

\* The virtual pages are those with an entry in the first table.
LEMMA BelowVas ==
  ASSUME NEW va \in Nat, Num(0, va) < ENTRIES[0]
  PROVE  va \in VAS
PROOF
  <1>1. PICK n, w, q, d : n = ENTRIES[0] /\ w = SIZE[0] /\ q = va \div w /\ d = va % w
    OBVIOUS
  <1>2. n \in Nat \ {0} /\ w \in Nat \ {0}
    BY <1>1, EntriesAre, SizeIs DEF Levels
  <1>3. q \in Nat /\ d \in 0 .. (w - 1) /\ va = q * w + d
    BY <1>1, <1>2, Division
  <1>4. q <= n - 1 /\ n - 1 \in Nat
    <2>1. q < n
      BY <1>1 DEF Num
    <2> QED BY <1>2, <1>3, <2>1
  <1>5. q * w <= (n - 1) * w
    BY <1>2, <1>3, <1>4, MultipleMonotone
  <1>6. (n - 1) * w = n * w - w /\ n * w \in Nat /\ q * w \in Nat
    BY <1>2, <1>3
  <1>7. va <= n * w - 1
    BY <1>2, <1>3, <1>5, <1>6
  <1> QED BY <1>1, <1>6, <1>7 DEF VAS

\* The pages of an entry that is reached are pages of the context.
LEMMA RunInVas ==
  ASSUME NEW a \in VAS, NEW level \in {2, 3}, NEW n \in Indices(level)
  PROVE  LET m == Num(level, a) + (n - Index(level, a))
         IN  /\ m \in Nat
             /\ Run(m * SIZE[level], SIZE[level]) \subseteq VAS
             /\ \A va \in VAS : Num(level, va) = m <=> va \in Run(m * SIZE[level], SIZE[level])
PROOF
  <1>1. a \in Nat /\ level \in Levels /\ level \in 1 .. 3 /\ level - 1 \in Levels
    BY VasIs DEF Levels
  <1>2. PICK w, qa, ia, m : /\ w = ENTRIES[level] /\ qa = Num(level - 1, a) /\ ia = Index(level, a)
                            /\ m = Num(level, a) + (n - Index(level, a))
    OBVIOUS
  <1>3. w \in Nat \ {0} /\ qa \in Nat /\ ia \in 0 .. (w - 1) /\ Num(level, a) = qa * w + ia
    BY <1>1, <1>2, EntriesAre, NumType, NumAbove
  <1>4. n \in 0 .. (w - 1)
    BY <1>2 DEF Indices
  <1>5. m = qa * w + n /\ m \in Nat
    <2>1. qa * w \in Nat
      BY <1>3
    <2> QED BY <1>2, <1>3, <1>4, <2>1
  <1>6. ASSUME NEW va \in Run(m * SIZE[level], SIZE[level]) PROVE va \in VAS
    <2>1. SIZE[level] \in Nat
      BY <1>1, SizeIs
    <2>2. m * SIZE[level] \in Nat
      BY <1>5, <2>1
    <2>3. va \in Nat
      BY <2>1, <2>2 DEF Run
    <2>4. Num(level, va) = m
      BY <1>1, <1>5, <2>3, NumRun
    <2>5. PICK qv, iv : qv = Num(level - 1, va) /\ iv = Index(level, va)
      OBVIOUS
    <2>6. qv \in Nat /\ iv \in 0 .. (w - 1) /\ m = qv * w + iv
      BY <1>1, <1>2, <2>3, <2>4, <2>5, NumType, NumAbove
    <2>7. (qv * w + iv) \div w = qv /\ (qa * w + n) \div w = qa
      BY <1>3, <1>4, <2>6, DivisionUnique
    <2>8. Num(level - 1, va) = Num(level - 1, a)
      BY <1>2, <1>5, <2>5, <2>6, <2>7
    <2>9. Num(0, va) = Num(0, a)
      <3>1. 0 \in Levels /\ 0 <= level - 1
        BY <1>1 DEF Levels
      <3> QED BY <1>1, <2>3, <2>8, <3>1, NumsAbove
    <2>10. Num(0, va) < ENTRIES[0]
      BY <2>9, VasIs
    <2> QED BY <2>3, <2>10, BelowVas
  <1>7. \A va \in VAS : Num(level, va) = m <=> va \in Run(m * SIZE[level], SIZE[level])
    BY <1>1, <1>5, NumRun, VasIs
  <1> QED BY <1>2, <1>5, <1>6, <1>7

\* What a page or a block leads to.
LEMMA FoundIs ==
  ASSUME NEW e \in EntryType, NEW va \in Nat, NEW level \in {2, 3},
         e.bits = IF level = 3 THEN TABLE ELSE BLOCK
  PROVE  /\ va % SIZE[level] \in Nat
         /\ Reading(e, va, level) = [page |-> e.page + (va % SIZE[level]), type |-> e.type]
         /\ e.page + (va % SIZE[level]) \in Extent(e)
         /\ Reading(e, va, level) # UNMAPPED
PROOF
  <1>1. PICK d, w : d = va % SIZE[level] /\ w = SIZE[level]
    OBVIOUS
  <1>2. w \in Nat \ {0} /\ (level = 3 => w = 1) /\ (level = 2 => w = SIZE[2])
    BY <1>1, SizeIs DEF Levels
  <1>3. d \in 0 .. (w - 1)
    BY <1>1, <1>2, Division
  <1>4. e.page \in Nat /\ e.type \in Nat
    BY MmuAssumption DEF EntryType
  <1>5. Reading(e, va, level) = [page |-> e.page + d, type |-> e.type]
    BY <1>1 DEF Reading, TABLE, BLOCK
  <1>6. Extent(e) = e.page .. (e.page + w - 1)
    BY <1>2 DEF Extent, Run, TABLE, BLOCK
  <1>7. e.page + d \in Extent(e)
    BY <1>2, <1>3, <1>4, <1>6
  <1>8. Reading(e, va, level).type # -1
    BY <1>4, <1>5
  <1>9. Reading(e, va, level) # UNMAPPED
    BY <1>8 DEF UNMAPPED
  <1> QED BY <1>1, <1>2, <1>3, <1>5, <1>7, <1>9

\* Memory of the context is claimed.
LEMMA MappedClaimed ==
  ASSUME NEW lev \in [DOMAIN tables -> Levels], Tree(lev), ~Destroying, level0_table # NULL,
         Data, bitmap \subseteq Pages, NEW va \in VAS, Translate(tables, va) # UNMAPPED
  PROVE  Translate(tables, va).page \in bitmap /\ Translate(tables, va).type \in TYPES
PROOF
  <1>1. va \in Nat /\ table_stack = <<>> /\ pc # "entry"
    BY VasIs DEF Destroying, Tree, Destruction
  <1>2. PICK level \in Levels : EndsAt(tables, level0_table, va, level)
    BY EndsSomewhere
  <1>3. PICK T, i, e : /\ T = Hop(tables, level0_table, va, level) /\ i = Index(level, va)
                       /\ e = Read(tables, level0_table, va, level)
    OBVIOUS
  <1>4. T \in DOMAIN tables /\ lev[T] = level /\ e \in EntryType /\ i \in Indices(level)
    BY <1>1, <1>2, <1>3, HopsAre, IndexType DEF EndsAt
  <1>5. e = tables[T][i] /\ Translate(tables, va) = Reading(e, va, level)
    BY <1>2, <1>3, TranslateFinds DEF Read
  <1>6. e.bits # 0
    BY <1>5 DEF Reading
  <1>7. level < 3 => e.bits # TABLE
    BY <1>2, <1>3 DEF EndsAt
  <1>8. e.bits = BLOCK => level = 2
    BY <1>4, <1>5 DEF Tree, Shaped
  <1>9. level \in {2, 3} /\ e.bits = IF level = 3 THEN TABLE ELSE BLOCK
    <2>1. e.bits \in {BLOCK, TABLE}
      BY <1>4, <1>6 DEF EntryType
    <2> QED BY <1>7, <1>8, <2>1 DEF Levels, TABLE, BLOCK
  <1>10. i \in DOMAIN tables[T]
    BY <1>4 DEF Tree, Shaped
  <1>11. Uses(T, i)
    BY <1>1, <1>4, <1>5, <1>6, <1>10 DEF Uses, Live
  <1>12. PICK p : p = e.page + (va % SIZE[level])
    OBVIOUS
  <1>13. p \in Extent(e) /\ Translate(tables, va) = [page |-> p, type |-> e.type]
    BY <1>1, <1>4, <1>5, <1>9, <1>12, FoundIs
  <1>14. p \in Nat
    BY <1>4, <1>13, ExtentIs
  <1>15. Owns(T, i, p)
    BY <1>5, <1>11, <1>13 DEF Owns
  <1>16. p \in bitmap
    BY <1>14, <1>15 DEF Data, OneOwner
  <1> QED BY <1>4, <1>13, <1>16 DEF EntryType

\* A page or a block is mapped: pages that were pending get the memory of the
\* entry, all or none of them for the first time.
LEMMA PieceMapped ==
  ASSUME TypeOK, NEW lev \in [DOMAIN tables -> Levels], Tree(lev), ~Destroying, level0_table # NULL,
         Data, NEW a \in VAS, NEW level \in {2, 3},
         OnWalk(tables, level0_table, a, level),
         NEW T, T = Hop(tables, level0_table, a, level),
         NEW n \in Indices(level), NEW e \in EntryType, Put(T, n, e),
         e.bits = IF level = 3 THEN TABLE ELSE BLOCK, e.type = region.type,
         level = 2 => tables[T][n].bits # TABLE,
         pc \in {"units", "pages"}, pc' \in {"units", "pages"},
         UNCHANGED <<level0_table, region>>,
         \/ tables[T][n].bits = 0 /\ Extent(e) \subseteq Pages /\ Extent(e) \cap bitmap = {}
         \/ tables[T][n].bits # 0 /\ e.page = tables[T][n].page,
         NEW some, some = Run((Num(level, a) + (n - Index(level, a))) * SIZE[level], SIZE[level]),
         some \subseteq Pending, Pending' = Pending \ some
  PROVE  Abstract!MapSome(some)
PROOF
  <1> DEFINE m == Num(level, a) + (n - Index(level, a))
             w == SIZE[level]
             old == tables[T][n]
  <1>1. Mode = "mapping" /\ Mode' = "mapping"
    BY DEF Mode
  <1>2. /\ some \subseteq VAS /\ m \in Nat /\ w \in Nat \ {0}
        /\ \A va \in VAS : va \in Nat /\ (Num(level, va) = m <=> va \in some)
    <2>1. w \in Nat \ {0}
      BY SizeIs DEF Levels
    <2> QED BY <2>1, RunInVas, VasIs
  <1>3. some # {}
    <2>1. m * w \in Nat
      BY <1>2
    <2>2. m * w \in some
      BY <1>2, <2>1 DEF Run
    <2> QED BY <2>2
  <1>4. /\ \A va \in VAS : Space[va] = Translate(Context_tables, va)
        /\ \A va \in VAS : Space'[va] = Translate(Context_tables, va)'
    BY <1>1 DEF Space
  <1>5. Context_tables = tables /\ pc # "split" /\ pc' # "split"
    BY DEF Context_tables
  <1>6. ASSUME NEW va \in VAS \ some PROVE Space'[va] = Space[va]
    <2>1. Num(level, va) # m
      BY <1>2
    <2>2. Translate(Context_tables, va)' = Translate(Context_tables, va)
      BY <1>5, <2>1, EntryWritten
    <2> QED BY <1>4, <2>2
  <1>7. ASSUME NEW va \in some
        PROVE  Space[va] = Reading(old, va, level) /\ Space'[va] = Reading(e, va, level)
    <2>1. va \in VAS /\ Num(level, va) = m
      BY <1>2
    <2>2. /\ Translate(Context_tables, va) = Reading(old, va, level)
          /\ Translate(Context_tables, va)' = Reading(e, va, level)
      BY <1>5, <2>1, EntryWritten
    <2> QED BY <1>4, <2>1, <2>2
  <1>8. T \in DOMAIN tables /\ old \in EntryType /\ (old.bits = BLOCK => level = 2)
    <2>1. a \in Nat /\ level \in Levels /\ table_stack = <<>> /\ pc # "entry"
      BY VasIs DEF Levels, Destroying, Tree, Destruction
    <2>2. T \in DOMAIN tables /\ lev[T] = level
      BY <2>1, HopsAre
    <2> QED BY <2>2 DEF Tree, Shaped
  <1> DEFINE new(va) == e.page + (va % w)
  <1>9. ASSUME NEW va \in some
        PROVE  /\ va % w \in Nat /\ new(va) \in Extent(e)
               /\ Space'[va].page = new(va) /\ Space'[va].type = e.type
               /\ (new(va) \in Pages /\ e.type \in TYPES) => Space'[va] \in Abstract!Frames
    <2>1. va % w \in Nat /\ new(va) \in Extent(e) /\ Space'[va] = [page |-> new(va), type |-> e.type]
      BY <1>2, <1>7, <1>9, FoundIs
    <2> HIDE DEF new
    <2> QED BY <2>1 DEF Abstract!Frames
  <1>10. old.bits # 0 => /\ old.bits = e.bits
                         /\ \A va \in some : Space[va].page = new(va) /\ Space[va] # UNMAPPED
    <2> SUFFICES ASSUME old.bits # 0
                 PROVE  /\ old.bits = e.bits
                        /\ \A va \in some : Space[va].page = new(va) /\ Space[va] # UNMAPPED
      OBVIOUS
    <2>1. e.page = old.page
      OBVIOUS
    <2>2. old.bits = IF level = 3 THEN TABLE ELSE BLOCK
      BY <1>8 DEF EntryType, TABLE, BLOCK
    <2>3. ASSUME NEW va \in some
          PROVE  Space[va].page = new(va) /\ Space[va] # UNMAPPED
      <3>1. va \in Nat
        BY <1>2
      <3>2. Reading(old, va, level) = [page |-> old.page + (va % w), type |-> old.type]
            /\ Reading(old, va, level) # UNMAPPED
        BY <1>8, <2>2, <3>1, FoundIs
      <3> QED BY <1>7, <2>1, <3>2
    <2> QED BY <2>2, <2>3
  <1>11. old.bits = 0 => \A va \in some : Space[va] = UNMAPPED
    BY <1>7 DEF Reading
  <1>12. \A va \in VAS : Space[va] # UNMAPPED => Space[va].page \in bitmap
    BY <1>4, <1>5, MappedClaimed DEF TypeOK
  <1> HIDE DEF new, m, w, old
  <1>13. ASSUME NEW va \in some PROVE new(va) \in Pages
    <2>1. CASE old.bits = 0
      BY <1>9, <2>1 DEF old
    <2>2. CASE old.bits # 0
      <3>1. Space[va] # UNMAPPED /\ Space[va].page = new(va) /\ va \in VAS
        BY <1>2, <1>10, <2>2
      <3> QED BY <1>12, <3>1 DEF TypeOK
    <2> QED BY <2>1, <2>2
  <1>14. \A va \in some : Space'[va].page = new(va) /\ Space'[va].type = region.type
                          /\ Space'[va] \in Abstract!Frames
    <2>1. e.type \in TYPES
      BY DEF EntryType
    <2> QED BY <1>9, <1>13, <2>1
  <1>15. ASSUME NEW va \in some, NEW v \in some, va # v PROVE new(va) # new(v)
    <2>1. va \in Nat /\ v \in Nat /\ va \div w = m /\ v \div w = m
      BY <1>2 DEF Num, w
    <2>2. va = (va \div w) * w + (va % w) /\ va % w \in 0 .. (w - 1)
      BY <1>2, <2>1, Division
    <2>3. v = (v \div w) * w + (v % w) /\ v % w \in 0 .. (w - 1)
      BY <1>2, <2>1, Division
    <2>4. va % w # v % w
      BY <1>15, <2>1, <2>2, <2>3
    <2>5. e.page \in Nat /\ va % w \in Nat /\ v % w \in Nat
      BY <1>2, <2>2, <2>3 DEF EntryType
    <2> QED BY <2>4, <2>5 DEF new
  <1> DEFINE fresh == {va \in some : Space[va] = UNMAPPED}
  <1>16. \A va \in some \ fresh : Space'[va].page = Space[va].page
    <2>1. CASE old.bits = 0
      BY <1>11, <2>1
    <2>2. CASE old.bits # 0
      BY <1>10, <1>14, <2>2
    <2> QED BY <2>1, <2>2
  <1>17. Abstract!Used(Space) \cap {Space'[va].page : va \in fresh} = {}
    <2>1. CASE old.bits = 0
      <3>1. Abstract!Used(Space) \subseteq bitmap
        BY <1>12 DEF Abstract!Used, Abstract!UNMAPPED, UNMAPPED, NULL
      <3>2. \A va \in fresh : Space'[va].page \notin bitmap
        BY <1>9, <1>14, <2>1 DEF old
      <3> QED BY <3>1, <3>2
    <2>2. CASE old.bits # 0
      BY <1>10, <2>2
    <2> QED BY <2>1, <2>2
  <1>18. \A va, v \in fresh : va # v => Space'[va].page # Space'[v].page
    BY <1>14, <1>15
  <1>19. region'.type = region.type /\ Mode' = Mode
    BY <1>1
  <1> HIDE DEF new
  <1> QED BY <1>1, <1>3, <1>6, <1>14, <1>16, <1>17, <1>18, <1>19
          DEF Abstract!MapSome, Abstract!UNMAPPED, UNMAPPED, NULL

-----------------------------------------------------------------------------
(***************************************************************************)
(* The walk and the loops of a call follow its address.                    *)
(***************************************************************************)
\* The calls lie ahead of each other; the walk for the first of them is where
\* its address leads; a split is linked where that address has its block.
Following ==
  /\ Ahead(todo, 0, ADDRESSES)
  /\ InCall =>
       LET a == TheCall.address
       IN  /\ a \in VAS
           /\ OnWalk(tables, level0_table, a, walk.level)
           /\ walk.table = Hop(tables, level0_table, a, walk.level)
           /\ walk.rest = a % (ENTRIES[walk.level] * SIZE[walk.level])
  /\ pc = "split" =>
       /\ Read(tables, level0_table, TheCall.address, 2) = mmu_create_table_entry(walk.table)
       /\ block.bits = BLOCK
  /\ pc = "pages" => unit = Idx

LEMMA FollowingIs ==
  ASSUME TypeOK, NEW lev \in [DOMAIN tables -> Levels], Tree(lev), Following, InCall
  PROVE  LET a == TheCall.address
         IN  /\ a \in VAS /\ a \in Nat
             /\ OnWalk(tables, level0_table, a, walk.level)
             /\ walk.table = Hop(tables, level0_table, a, walk.level)
             /\ Idx = Index(walk.level, a)
             /\ walk.rest % SIZE[walk.level] = a % SIZE[walk.level]
             /\ TheCall.level \in {2, 3} /\ a % SIZE[TheCall.level] = 0
             /\ TheCall.count \in Nat \ {0} /\ Last(TheCall) <= ADDRESSES
             /\ 1 \in DOMAIN todo
PROOF
  <1> DEFINE a == TheCall.address
  <1>1. /\ a \in VAS /\ OnWalk(tables, level0_table, a, walk.level)
        /\ walk.table = Hop(tables, level0_table, a, walk.level)
        /\ walk.rest = a % (ENTRIES[walk.level] * SIZE[walk.level])
    BY DEF Following
  <1>2. TheCall \in Calls /\ walk.level \in Levels
    BY WalkIs
  <1>3. a \in Nat
    BY <1>1, VasIs
  <1>4. Idx = Index(walk.level, a) /\ walk.rest % SIZE[walk.level] = a % SIZE[walk.level]
    BY <1>1, <1>2, <1>3, RestIs DEF Idx
  <1>5. 1 \in DOMAIN todo
    <2>1. todo \in Seq(Calls) /\ todo # <<>>
      BY DEF TypeOK, Tree, Walking
    <2> QED BY <2>1
  <1>6. /\ TheCall.count > 0 /\ Last(TheCall) <= ADDRESSES
        /\ TheCall.level = 2 => a % SIZE[2] = 0
    BY <1>5 DEF Following, Ahead, TheCall
  <1>7. TheCall.level \in {2, 3} /\ TheCall.count \in Nat \ {0}
    BY <1>2, <1>6, CallsAre
  <1>8. a % SIZE[TheCall.level] = 0
    <2>1. a % 1 = 0
      BY <1>3
    <2> QED BY <1>6, <1>7, <2>1, SizeIs
  <1> QED BY <1>1, <1>3, <1>4, <1>5, <1>6, <1>7, <1>8

\* The next k pages of a call are gone through.
LEMMA SomePending ==
  ASSUME todo' = todo, 1 \in DOMAIN todo, NEW a \in Nat, NEW d \in Nat, NEW k \in Nat,
         Gone = Run(a, d), Gone' = Run(a, d + k),
         Run(a + d, k) \subseteq CallPages(TheCall)
  PROVE  Run(a + d, k) \subseteq Pending /\ Pending' = Pending \ Run(a + d, k)
PROOF
  <1>1. Pending = Covered(todo) \ Gone /\ Pending' = Covered(todo) \ Gone'
    <2>1. Pending = Covered(todo) \ Gone
      BY DEF Pending, Covered
    <2>2. Pending' = Covered(todo)' \ Gone'
      BY DEF Pending, Covered
    <2>3. Covered(todo)' = Covered(todo)
      BY DEF Covered, CallPages
    <2> QED BY <2>1, <2>2, <2>3
  <1>2. Run(a, d + k) = Run(a, d) \cup Run(a + d, k) /\ Run(a, d) \cap Run(a + d, k) = {}
    BY DEF Run
  <1>3. CallPages(TheCall) \subseteq Covered(todo)
    BY DEF Covered, TheCall
  <1> QED BY <1>1, <1>2, <1>3

\* The pages of a unit.
LEMMA UnitPending ==
  ASSUME TypeOK, NEW lev \in [DOMAIN tables -> Levels], Tree(lev), Following, InUnits, NextUnit
  PROVE  LET level == walk.level
             some  == Run((Num(level, TheCall.address) + (unit - Index(level, TheCall.address)))
                            * SIZE[level], SIZE[level])
         IN  some \subseteq Pending /\ Pending' = Pending \ some
PROOF
  <1>1. /\ pc = "units" /\ InCall /\ unit < EndUnit /\ pc' = "units"
        /\ todo' = todo /\ walk' = walk /\ unit' = unit + 1
    BY DEF InUnits, InCall, NextUnit, request
  <1>2. PICK a, w, q, i, c, u :
          /\ a = TheCall.address /\ w = SIZE[walk.level] /\ q = Num(walk.level, a) /\ i = Idx
          /\ c = TheCall.count /\ u = unit
    OBVIOUS
  <1>3. /\ walk.level \in {2, 3} /\ walk.level = TheCall.level /\ i \in Nat /\ u \in Nat /\ i <= u
    BY <1>1, <1>2, RequestedIs DEF Tree, Walking
  <1>4. /\ a \in Nat /\ i = Index(walk.level, a) /\ a % w = 0 /\ c \in Nat \ {0} /\ 1 \in DOMAIN todo
    BY <1>1, <1>2, <1>3, FollowingIs
  <1>5. w \in Nat \ {0}
    BY <1>2, <1>3, SizeIs DEF Levels
  <1>6. q \in Nat /\ a = q * w
    <2>1. a \div w \in Nat /\ a = (a \div w) * w + (a % w)
      BY <1>4, <1>5, Division
    <2>2. (a \div w) * w \in Nat
      BY <1>5, <2>1
    <2> QED BY <1>2, <1>4, <2>1, <2>2 DEF Num
  <1>7. PICK d : d = (u - i) * w
    OBVIOUS
  <1>8. d \in Nat /\ ((u + 1) - i) * w = d + w /\ (q + (u - i)) * w = a + d
    <2>1. u - i \in Nat
      BY <1>3
    <2> QED BY <1>3, <1>5, <1>6, <1>7, <2>1
  <1>9. u - i + 1 <= c
    <2>1. unit_count <= TheCall.count /\ unit_count \in Nat /\ EndUnit = i + unit_count
      BY <1>1, <1>2, WalkIs DEF EndUnit
    <2> QED BY <1>1, <1>2, <1>3, <1>4, <2>1
  <1>10. d + w <= c * w
    <2>1. u - i + 1 \in Nat /\ (u - i + 1) * w = d + w
      BY <1>3, <1>5, <1>7
    <2> QED BY <1>4, <1>5, <1>9, <2>1, MultipleMonotone
  <1>11. TheCall' = TheCall /\ Idx' = Idx
    BY <1>1, CursorStays
  <1>12. Gone = Run(a, d)
    BY <1>1, <1>2, <1>7 DEF Gone
  <1>13. Gone' = Run(a, d + w)
    <2>1. Gone' = Run(TheCall.address, ((unit + 1) - Idx) * SIZE[walk.level])
      BY <1>1, <1>11 DEF Gone
    <2> QED BY <1>2, <1>8, <2>1
  <1>14. CallPages(TheCall) = Run(a, c * w)
    BY <1>2, <1>3 DEF CallPages
  <1>15. Run(a + d, w) \subseteq CallPages(TheCall)
    <2>1. c * w \in Nat
      BY <1>4, <1>5
    <2> QED BY <1>4, <1>5, <1>8, <1>10, <1>14, <2>1 DEF Run
  <1>16. Run(a + d, w) \subseteq Pending /\ Pending' = Pending \ Run(a + d, w)
    BY <1>1, <1>4, <1>5, <1>8, <1>12, <1>13, <1>15, SomePending
  <1> QED BY <1>2, <1>4, <1>8, <1>16

\* The page of a table of pages that is in the way of a block.
LEMMA PagePending ==
  ASSUME TypeOK, NEW lev \in [DOMAIN tables -> Levels], Tree(lev), Following, pc = "pages", NextPage
  PROVE  LET some == Run((Num(3, TheCall.address) + (l3_idx - Index(3, TheCall.address)))
                            * SIZE[3], SIZE[3])
         IN  /\ some \subseteq Pending /\ Pending' = Pending \ some
             /\ OnWalk(tables, level0_table, TheCall.address, 3)
             /\ pages = Hop(tables, level0_table, TheCall.address, 3)
PROOF
  <1>1. PICK a, w, c, l : a = TheCall.address /\ w = SIZE[2] /\ c = TheCall.count /\ l = l3_idx
    OBVIOUS
  <1>2. InCall /\ walk.level = 2 /\ TheCall.level = 2 /\ unit = Idx /\ Idx \in Nat
    BY RequestedIs DEF InCall, Tree, Walking, Following
  <1>3. /\ a \in Nat /\ a % w = 0 /\ c \in Nat \ {0} /\ Idx = Index(2, a) /\ 1 \in DOMAIN todo
        /\ OnWalk(tables, level0_table, a, 2) /\ walk.table = Hop(tables, level0_table, a, 2)
    BY <1>1, <1>2, FollowingIs
  <1>4. w \in Nat \ {0} /\ w = ENTRIES[3] /\ SIZE[3] = 1
    BY <1>1, SizeIs DEF Levels
  <1>5. l \in Nat /\ l < w
    BY <1>1, <1>4 DEF TypeOK, Indices
  <1>6. Num(3, a) = a /\ Index(3, a) = 0
    <2>1. a \div 1 = a
      BY <1>3
    <2> QED BY <1>3, <1>4, <2>1 DEF Num, Index
  <1>7. /\ todo' = todo /\ walk' = walk
        /\ \/ l + 1 < w /\ l3_idx' = l + 1 /\ pc' = "pages" /\ unit' = unit
           \/ l + 1 = w /\ pc' = "units" /\ unit' = unit + 1
    <2>1. ~(l + 1 < w) => l + 1 = w
      BY <1>4, <1>5
    <2> QED BY <1>1, <1>4, <2>1 DEF NextPage, request
  <1>8. TheCall' = TheCall /\ Idx' = Idx
    BY <1>7, CursorStays
  <1>9. Gone = Run(a, l)
    <2>1. (unit - Idx) * SIZE[2] + l = l
      BY <1>1, <1>2, <1>4, <1>5
    <2> QED BY <1>1, <1>2, <2>1 DEF Gone
  <1>10. Gone' = Run(a, l + 1)
    <2>1. CASE l + 1 < w /\ l3_idx' = l + 1 /\ pc' = "pages" /\ unit' = unit
      <3>1. (unit - Idx) * SIZE[2] + (l + 1) = l + 1
        BY <1>1, <1>2, <1>4, <1>5
      <3>2. Gone' = Run(TheCall.address, (unit - Idx) * SIZE[walk.level] + (l + 1))
        BY <1>7, <1>8, <2>1 DEF Gone
      <3> QED BY <1>1, <1>2, <3>1, <3>2
    <2>2. CASE l + 1 = w /\ pc' = "units" /\ unit' = unit + 1
      <3>1. ((unit + 1) - Idx) * SIZE[2] = l + 1
        <4>1. (unit + 1) - Idx = 1
          BY <1>2
        <4>2. 1 * w = w
          BY <1>4
        <4> QED BY <1>1, <2>2, <4>1, <4>2
      <3>2. Gone' = Run(TheCall.address, ((unit + 1) - Idx) * SIZE[walk.level])
        BY <1>7, <1>8, <2>2 DEF Gone
      <3> QED BY <1>1, <1>2, <3>1, <3>2
    <2> QED BY <1>7, <2>1, <2>2
  <1>11. Run(a + l, 1) \subseteq CallPages(TheCall)
    <2>1. CallPages(TheCall) = Run(a, c * w)
      BY <1>1, <1>2 DEF CallPages
    <2>2. 1 * w <= c * w /\ c * w \in Nat
      BY <1>3, <1>4, MultipleMonotone
    <2> QED BY <1>3, <1>4, <1>5, <2>1, <2>2 DEF Run
  <1>12. Run(a + l, 1) \subseteq Pending /\ Pending' = Pending \ Run(a + l, 1)
    BY <1>3, <1>5, <1>7, <1>9, <1>10, <1>11, SomePending
  <1>13. (Num(3, a) + (l - Index(3, a))) * SIZE[3] = a + l
    BY <1>3, <1>4, <1>5, <1>6
  <1>14. OnWalk(tables, level0_table, a, 2 + 1) /\ pages = Hop(tables, level0_table, a, 2 + 1)
    <2>1. TableOfFirst = Read(tables, level0_table, a, 2) /\ TableOfFirst.bits = TABLE
      BY <1>2, <1>3 DEF Read, TableOfFirst, Tree, Walking
    <2> QED BY <1>3, <2>1, HopNext, OnWalkNext DEF pages
  <1> QED BY <1>1, <1>4, <1>12, <1>13, <1>14

-----------------------------------------------------------------------------
(***************************************************************************)
(* The steps that map something.                                           *)
(***************************************************************************)
\* The entry a unit gets where nothing was has memory that nobody has.
LEMMA NewUnitIs ==
  ASSUME TypeOK, NEW lev \in [DOMAIN tables -> Levels], Tree(lev),
         UnitCreated, fault' = "none", MAP_TYPE = "ALLOC"
  PROVE  LET e == Piece(walk.level, UnitSpace.page, region.type)
         IN  /\ e \in EntryType /\ e.bits = (IF walk.level = 3 THEN TABLE ELSE BLOCK)
             /\ e.type = region.type
             /\ Extent(e) \subseteq Pages /\ Extent(e) \cap bitmap = {}
PROOF
  <1> DEFINE e == Piece(walk.level, UnitSpace.page, region.type)
  <1>1. /\ InUnits /\ bitmap' = UnitSpace.bitmap /\ UnitSpace.page # NULL
        /\ Got(UnitSpace, SIZE[walk.level]) = "none"
    BY DEF UnitCreated, Got
  <1>2. walk.level \in {2, 3} /\ bitmap \in SUBSET Pages /\ requested_addr \in Nat
    BY <1>1, RequestedIs DEF InUnits, TypeOK
  <1>3. bitmap' \in SUBSET Pages
    <2>1. SIZE[walk.level] \in Nat \ {0}
      BY <1>2, SizeIs DEF Levels
    <2> QED BY <1>1, <1>2, <2>1, SpaceIs DEF UnitSpace
  <1>4. CASE walk.level = 3
    <2>1. UnitSpace = NewPage
      BY <1>4, SizeIs DEF UnitSpace, get_phys_space, NewPage
    <2>2. /\ UnitSpace.page \in Nat /\ UnitSpace.page \notin bitmap
          /\ bitmap' = bitmap \cup {UnitSpace.page}
      BY <1>1, <1>2, <2>1, NewPageIs, PageCountType DEF Pages
    <2>3. e \in EntryType /\ e.bits = TABLE /\ e.page = UnitSpace.page /\ e.type = region.type
      BY <1>4, <2>2, PieceIs, RegionType DEF Piece, mmu_create_page_entry
    <2> HIDE DEF e
    <2>4. Extent(e) = {UnitSpace.page}
      BY <2>3, ExtentIs DEF TABLE, BLOCK
    <2> QED BY <1>3, <1>4, <2>2, <2>3, <2>4 DEF e
  <1>5. CASE walk.level = 2
    <2>1. UnitSpace = get_phys_space(requested_addr, SIZE[2], SIZE[2])
      BY <1>5 DEF UnitSpace
    <2>2. /\ UnitSpace.page \in Nat /\ UnitSpace.page % SIZE[2] = 0
          /\ Run(UnitSpace.page, SIZE[2]) \cap bitmap = {}
          /\ bitmap' = bitmap \cup Run(UnitSpace.page, SIZE[2])
      <3>1. Got(get_phys_space(requested_addr, SIZE[2], SIZE[2]), SIZE[2]) = "none"
        BY <1>1, <1>5, <2>1
      <3> QED BY <1>1, <1>2, <2>1, <3>1, BlockSpaceIs
    <2>3. e \in EntryType /\ e.bits = BLOCK /\ e.page = UnitSpace.page /\ e.type = region.type
      BY <1>5, <2>2, PieceIs, RegionType DEF Piece, mmu_create_block_entry
    <2> HIDE DEF e
    <2>4. Extent(e) = Run(UnitSpace.page, SIZE[2])
      BY <2>3 DEF BLOCK, Extent
    <2> QED BY <1>3, <1>5, <2>2, <2>3, <2>4 DEF e
  <1> QED BY <1>2, <1>4, <1>5

LEMMA UnitCreatedRefines ==
  ASSUME TypeOK, NEW lev \in [DOMAIN tables -> Levels], Tree(lev), Data, Following,
         UnitCreated, fault' = "none", MAP_TYPE = "ALLOC"
  PROVE  \E some \in SUBSET Pending : Abstract!MapSome(some)
PROOF
  <1> DEFINE e == Piece(walk.level, UnitSpace.page, region.type)
             a == TheCall.address
  <1>1. /\ InUnits /\ NextUnit /\ UnitEntry = EMPTY_ENTRY
        /\ Put(walk.table, unit, e)
    BY DEF UnitCreated, Put
  <1>2. /\ e \in EntryType /\ e.bits = (IF walk.level = 3 THEN TABLE ELSE BLOCK)
        /\ e.type = region.type
        /\ Extent(e) \subseteq Pages /\ Extent(e) \cap bitmap = {}
    BY NewUnitIs
  <1> HIDE DEF e
  <1>3. /\ walk.level \in {2, 3} /\ level0_table # NULL /\ ~Destroying /\ InCall
        /\ unit \in Indices(walk.level) /\ pc = "units"
    BY <1>1, UnitsType, RequestedIs
  <1>4. a \in VAS /\ OnWalk(tables, level0_table, a, walk.level)
        /\ walk.table = Hop(tables, level0_table, a, walk.level)
    BY <1>3, FollowingIs
  <1>5. pc' = "units" /\ UNCHANGED <<level0_table, region>>
    BY <1>1, <1>3 DEF NextUnit, request
  <1>6. tables[walk.table][unit].bits = 0 /\ tables[walk.table][unit].bits # TABLE
    BY <1>1 DEF UnitEntry, EMPTY_ENTRY, TABLE
  <1> DEFINE some == Run((Num(walk.level, a) + (unit - Index(walk.level, a)))
                            * SIZE[walk.level], SIZE[walk.level])
  <1>7. some \subseteq Pending /\ Pending' = Pending \ some
    BY <1>1, UnitPending
  <1> HIDE DEF a
  <1>8. Abstract!MapSome(some)
    BY <1>1, <1>2, <1>3, <1>4, <1>5, <1>6, <1>7, PieceMapped
  <1> QED BY <1>7, <1>8

LEMMA UnitOverriddenRefines ==
  ASSUME TypeOK, NEW lev \in [DOMAIN tables -> Levels], Tree(lev), Data, Following,
         UnitOverridden
  PROVE  \E some \in SUBSET Pending : Abstract!MapSome(some)
PROOF
  <1> DEFINE e == [UnitEntry EXCEPT !.type = region.type]
             a == TheCall.address
  <1>1. /\ InUnits /\ NextUnit /\ UnitEntry # EMPTY_ENTRY /\ ~TableInTheWay
        /\ tables' = [tables EXCEPT ![walk.table][unit].type = region.type]
    BY DEF UnitOverridden
  <1>2. /\ walk.table \in DOMAIN tables /\ lev[walk.table] = walk.level
        /\ unit \in Indices(walk.level) /\ UnitEntry \in EntryType /\ walk.level \in {2, 3}
        /\ level0_table # NULL /\ ~Destroying /\ InCall /\ pc = "units"
    BY <1>1, UnitsType, RequestedIs
  <1>3. Put(walk.table, unit, e)
    BY <1>1 DEF UnitEntry, Put
  <1>4. UnitEntry.bits \in {TABLE, BLOCK} /\ (UnitEntry.bits = BLOCK => walk.level = 2)
    <2>1. UnitEntry.bits # 0
      BY <1>1, <1>2 DEF UnitEntry, Tree, Shaped
    <2> QED BY <1>2, <2>1 DEF EntryType, UnitEntry, Tree, Shaped, BLOCK, TABLE
  <1>5. walk.level = 2 => UnitEntry.bits = BLOCK
    BY <1>1, <1>4 DEF TableInTheWay
  <1>6. /\ e \in EntryType /\ e.bits = (IF walk.level = 3 THEN TABLE ELSE BLOCK)
        /\ e.type = region.type /\ e.page = UnitEntry.page
    BY <1>2, <1>4, <1>5, RegionType DEF EntryType
  <1> HIDE DEF e
  <1>7. a \in VAS /\ OnWalk(tables, level0_table, a, walk.level)
        /\ walk.table = Hop(tables, level0_table, a, walk.level)
    BY <1>2, FollowingIs
  <1>8. pc' = "units" /\ UNCHANGED <<level0_table, region>>
    BY <1>1, <1>2 DEF NextUnit, request
  <1>9. /\ tables[walk.table][unit].bits # 0 /\ e.page = tables[walk.table][unit].page
        /\ walk.level = 2 => tables[walk.table][unit].bits # TABLE
    BY <1>4, <1>5, <1>6 DEF UnitEntry, TABLE, BLOCK
  <1> DEFINE some == Run((Num(walk.level, a) + (unit - Index(walk.level, a)))
                            * SIZE[walk.level], SIZE[walk.level])
  <1>10. some \subseteq Pending /\ Pending' = Pending \ some
    BY <1>1, UnitPending
  <1> HIDE DEF a
  <1>11. Abstract!MapSome(some)
    BY <1>2, <1>3, <1>6, <1>7, <1>8, <1>9, <1>10, PieceMapped
  <1> QED BY <1>10, <1>11

LEMMA PageCreatedRefines ==
  ASSUME TypeOK, NEW lev \in [DOMAIN tables -> Levels], Tree(lev), Data, Following,
         PageCreated, fault' = "none", MAP_TYPE = "ALLOC"
  PROVE  \E some \in SUBSET Pending : Abstract!MapSome(some)
PROOF
  <1> DEFINE e == mmu_create_page_entry(PageSpace.page, region.type)
             a == TheCall.address
  <1>1. /\ pc = "pages" /\ NextPage /\ tables[pages][l3_idx].bits = 0
        /\ PageSpace.page # NULL
        /\ Put(pages, l3_idx, e)
    BY DEF PageCreated, Put, Got
  <1>2. /\ InCall /\ level0_table # NULL /\ ~Destroying /\ bitmap \in SUBSET Pages
        /\ l3_idx \in Indices(3)
    BY <1>1, WalkIs DEF InCall, TypeOK
  <1>3. PageSpace = NewPage
    BY DEF PageSpace, get_phys_space, NewPage
  <1>4. PageSpace.page \in Pages /\ PageSpace.page \in Nat /\ PageSpace.page \notin bitmap
    BY <1>1, <1>2, <1>3, NewPageIs, PageCountType DEF Pages
  <1>5. e \in EntryType /\ e.bits = TABLE /\ e.page = PageSpace.page /\ e.type = region.type
    BY <1>4, RegionType DEF mmu_create_page_entry, EntryType, TABLE
  <1> HIDE DEF e
  <1>6. Extent(e) \subseteq Pages /\ Extent(e) \cap bitmap = {}
    <2>1. Extent(e) = {PageSpace.page}
      BY <1>5, ExtentIs DEF TABLE, BLOCK
    <2> QED BY <1>4, <2>1
  <1>7. a \in VAS
    BY <1>2, FollowingIs
  <1>8. pc' \in {"units", "pages"} /\ UNCHANGED <<level0_table, region>>
    BY <1>1 DEF NextPage, request
  <1> DEFINE some == Run((Num(3, a) + (l3_idx - Index(3, a))) * SIZE[3], SIZE[3])
  <1>9. /\ some \subseteq Pending /\ Pending' = Pending \ some
        /\ OnWalk(tables, level0_table, a, 3) /\ pages = Hop(tables, level0_table, a, 3)
    BY <1>1, PagePending
  <1> HIDE DEF a
  <1>10. 3 \in {2, 3} /\ e.bits = (IF 3 = 3 THEN TABLE ELSE BLOCK)
    BY <1>5
  <1>11. Abstract!MapSome(some)
    BY <1>1, <1>2, <1>5, <1>6, <1>7, <1>8, <1>9, <1>10, PieceMapped
  <1> QED BY <1>9, <1>11

LEMMA PageOverriddenRefines ==
  ASSUME TypeOK, NEW lev \in [DOMAIN tables -> Levels], Tree(lev), Data, Following,
         PageOverridden
  PROVE  \E some \in SUBSET Pending : Abstract!MapSome(some)
PROOF
  <1> DEFINE old == tables[pages][l3_idx]
             e == [old EXCEPT !.type = region.type]
             a == TheCall.address
  <1>1. /\ pc = "pages" /\ NextPage /\ old.bits # 0
        /\ tables' = [tables EXCEPT ![pages][l3_idx].type = region.type]
    BY DEF PageOverridden
  <1>2. /\ pages \in DOMAIN tables /\ lev[pages] = 3 /\ l3_idx \in Indices(lev[pages])
        /\ old \in EntryType
    BY <1>1, PagesType
  <1>3. old.bits = TABLE
    BY <1>1, <1>2 DEF Tree, Shaped, EntryType
  <1>4. e \in EntryType /\ e.bits = TABLE /\ e.page = old.page /\ e.type = region.type
    BY <1>2, <1>3, RegionType DEF EntryType
  <1>5. Put(pages, l3_idx, e)
    BY <1>1 DEF Put
  <1> HIDE DEF e
  <1>6. /\ InCall /\ level0_table # NULL /\ ~Destroying /\ l3_idx \in Indices(3)
    BY <1>1, <1>2, WalkIs DEF InCall
  <1>7. a \in VAS
    BY <1>6, FollowingIs
  <1>8. pc' \in {"units", "pages"} /\ UNCHANGED <<level0_table, region>>
    BY <1>1 DEF NextPage, request
  <1> DEFINE some == Run((Num(3, a) + (l3_idx - Index(3, a))) * SIZE[3], SIZE[3])
  <1>9. /\ some \subseteq Pending /\ Pending' = Pending \ some
        /\ OnWalk(tables, level0_table, a, 3) /\ pages = Hop(tables, level0_table, a, 3)
    BY <1>1, PagePending
  <1> HIDE DEF a
  <1>10. 3 \in {2, 3} /\ e.bits = (IF 3 = 3 THEN TABLE ELSE BLOCK)
    BY <1>4
  <1>11. Abstract!MapSome(some)
    BY <1>1, <1>4, <1>5, <1>6, <1>7, <1>8, <1>9, <1>10, PieceMapped
  <1> QED BY <1>9, <1>11

-----------------------------------------------------------------------------
(***************************************************************************)
(* The steps that show as none.                                            *)
(***************************************************************************)
LEMMA SameSpace ==
  ASSUME Mode = "none" <=> Mode' = "none",
         Mode # "none" =>
           \A va \in VAS : Translate(Context_tables, va)' = Translate(Context_tables, va)
  PROVE  Space' = Space
  BY DEF Space

LEMMA CalmSpace ==
  ASSUME UNCHANGED <<tables, level0_table>>, pc # "split", pc' # "split",
         Mode = "none" <=> Mode' = "none"
  PROVE  Space' = Space
PROOF
  <1>1. Context_tables = tables /\ Context_tables' = tables
    BY DEF Context_tables
  <1>2. ASSUME NEW va \in VAS
        PROVE  Translate(Context_tables, va)' = Translate(Context_tables, va)
    <2>1. \A k \in Levels : OnWalk(Context_tables, level0_table, va, k) =>
            Context_tables'[Hop(Context_tables, level0_table, va, k)][Index(k, va)]
              = Read(Context_tables, level0_table, va, k)
      BY <1>1 DEF Read
    <2> QED BY <2>1, Undisturbed
  <1> QED BY <1>2, SameSpace

LEMMA PendingStays ==
  ASSUME todo' = todo, Gone' = Gone
  PROVE  Pending' = Pending
PROOF
  <1>1. \A i \in DOMAIN todo : CallPages(todo[i])' = CallPages(todo[i])
    BY DEF CallPages
  <1>2. Pending' = (UNION {CallPages(todo[i])' : i \in DOMAIN todo}) \ Gone
    BY DEF Pending, CallPages
  <1> QED BY <1>1, <1>2 DEF Pending

\* A call is done.
LEMMA TailAhead ==
  ASSUME NEW calls \in Seq(Calls), 1 \in DOMAIN calls, Ahead(calls, 0, ADDRESSES)
  PROVE  /\ Ahead(Tail(calls), 0, ADDRESSES)
         /\ Covered(Tail(calls)) = Covered(calls) \ CallPages(calls[1])
PROOF
  <1> DEFINE t == Tail(calls)
             n == Len(calls)
  <1>1. n \in Nat /\ n >= 1 /\ DOMAIN calls = 1 .. n
    BY LenProperties
  <1>2. t \in Seq(Calls) /\ DOMAIN t = 1 .. (n - 1) /\ \A i \in 1 .. (n - 1) : t[i] = calls[i + 1]
    <2>1. calls # <<>>
      BY <1>1
    <2>2. t \in Seq(Calls) /\ Len(t) = n - 1 /\ \A i \in 1 .. Len(t) : t[i] = calls[i + 1]
      BY <2>1, HeadTailProperties, LenProperties
    <2> QED BY <2>2, LenProperties
  <1> HIDE DEF t, n
  <1>3. \A i \in DOMAIN t : i \in Nat /\ i + 1 \in DOMAIN calls /\ t[i] = calls[i + 1] /\ 1 < i + 1
    BY <1>1, <1>2
  <1>4. \A i \in DOMAIN calls : i = 1 \/ (i - 1 \in DOMAIN t /\ t[i - 1] = calls[i])
    <2> TAKE i \in DOMAIN calls
    <2>1. i # 1 => i - 1 \in 1 .. (n - 1) /\ (i - 1) + 1 = i
      BY <1>1
    <2> QED BY <1>2, <2>1
  <1>5. Ahead(t, 0, ADDRESSES)
    <2>1. \A i, j \in DOMAIN t : i < j => i + 1 < j + 1
      BY <1>3
    <2> QED BY <1>3, <2>1 DEF Ahead
  <1>6. \A i \in DOMAIN calls : calls[i] \in Calls
    BY <1>1, ElementOfSeq
  <1>7. ASSUME NEW i \in DOMAIN t PROVE CallPages(t[i]) \cap CallPages(calls[1]) = {}
    <2>1. Last(calls[1]) <= calls[i + 1].address
      BY <1>3 DEF Ahead
    <2>2. /\ CallPages(calls[1]) = calls[1].address .. (Last(calls[1]) - 1)
          /\ CallPages(calls[i + 1]) = calls[i + 1].address .. (Last(calls[i + 1]) - 1)
          /\ Last(calls[1]) \in Nat /\ calls[1].address \in Nat /\ calls[i + 1].address \in Nat
          /\ Last(calls[i + 1]) \in Nat
      BY <1>3, <1>6, CallsAre
    <2> QED BY <1>3, <2>1, <2>2
  <1>8. Covered(t) \subseteq Covered(calls) \ CallPages(calls[1])
    BY <1>3, <1>7 DEF Covered
  <1>9. Covered(calls) \ CallPages(calls[1]) \subseteq Covered(t)
    <2> SUFFICES ASSUME NEW i \in DOMAIN calls, NEW p \in CallPages(calls[i]), p \notin CallPages(calls[1])
                 PROVE  p \in Covered(t)
      BY DEF Covered
    <2>1. i # 1
      OBVIOUS
    <2>2. i - 1 \in DOMAIN t /\ p \in CallPages(t[i - 1])
      BY <1>4, <2>1
    <2> QED BY <2>2 DEF Covered
  <1> QED BY <1>5, <1>8, <1>9 DEF t

\* The first units of a call are done.
LEMMA RestAhead ==
  ASSUME NEW calls \in Seq(Calls), 1 \in DOMAIN calls, Ahead(calls, 0, ADDRESSES),
         NEW done \in Nat, done < calls[1].count
  PROVE  LET rest == [calls EXCEPT ![1] = Rest(calls[1], done)]
         IN  /\ Ahead(rest, 0, ADDRESSES)
             /\ Covered(rest) = Covered(calls) \ Run(calls[1].address, done * SIZE[calls[1].level])
PROOF
  <1> DEFINE c == calls[1]
             r == Rest(c, done)
             rest == [calls EXCEPT ![1] = r]
             w == SIZE[c.level]
  <1>1. DOMAIN rest = DOMAIN calls /\ rest[1] = r /\ \A i \in DOMAIN calls : i # 1 => rest[i] = calls[i]
    OBVIOUS
  <1>2. \A i \in DOMAIN calls : calls[i] \in Calls /\ i \in Nat /\ i >= 1
    BY LenProperties, ElementOfSeq
  <1>3. PICK a, n, l, s, e, d : /\ a = c.address /\ n = c.count /\ l = c.level /\ s = SIZE[l]
                                /\ e = Last(c) /\ d = done * s
    OBVIOUS
  <1>4. /\ a \in Nat /\ n \in Nat /\ l \in {2, 3} /\ s \in Nat \ {0} /\ e \in Nat /\ e = a + n * s
        /\ CallPages(c) = a .. (e - 1)
    BY <1>2, <1>3, CallsAre DEF Last
  <1>5. e <= ADDRESSES /\ ADDRESSES \in Nat \ {0} /\ (l = 2 => a % SIZE[2] = 0) /\ n > 0
    BY <1>3, MmuAssumption DEF Ahead
  <1>6. /\ done < n /\ n - done > 0
        /\ d \in Nat /\ (n - done) * s = n * s - d /\ n * s \in Nat /\ (n - done) * s \in Nat \ {0}
    <2>1. done < n
      BY <1>3
    <2>2. n - done \in Nat \ {0} /\ done \in Nat /\ d = done * s
      <3>1. d = done * s
        BY <1>3
      <3>2. n \in Nat /\ done \in Nat
        BY <1>4
      <3> QED BY <2>1, <3>1, <3>2
    <2>3. (n - done) * s \in Nat \ {0}
      BY <1>4, <2>2, ProductPositive
    <2>4. (n - done) * s = n * s - done * s
      BY <1>4, <2>2
    <2>5. n * s \in Nat /\ done * s \in Nat
      BY <1>4, <2>2
    <2> QED BY <2>1, <2>2, <2>3, <2>4, <2>5
  <1>7. a + d < e
    BY <1>4, <1>6
  <1>8. (a + d) % ADDRESSES = a + d
    BY <1>4, <1>5, <1>6, <1>7
  <1>9. r.address = a + d /\ r.count = n - done /\ r.level = l
    <2>1. c \in [address : 0 .. (ADDRESSES - 1), count : 0 .. (COUNTS - 1), level : {2, 3}]
      BY <1>2 DEF Calls
    <2>2. r = [c EXCEPT !.address = (c.address + done * SIZE[c.level]) % ADDRESSES,
                        !.count = c.count - done]
      BY DEF Rest
    <2>3. r.address = (c.address + done * SIZE[c.level]) % ADDRESSES /\ r.count = c.count - done
          /\ r.level = c.level
      <3> HIDE DEF r, c
      <3> QED BY <2>1, <2>2
    <2> QED BY <1>3, <1>8, <2>3
  <1> HIDE DEF r, c
  <1>10. Last(r) = e /\ CallPages(r) = (a + d) .. (e - 1)
    <2>1. Last(r) = (a + d) + (n - done) * s
      BY <1>3, <1>9 DEF Last
    <2>2. (a + d) + (n - done) * s = e
      BY <1>4, <1>6
    <2>3. CallPages(r) = Run(a + d, (n - done) * s)
      BY <1>3, <1>9 DEF CallPages
    <2> QED BY <1>4, <1>6, <2>1, <2>2, <2>3 DEF Run
  <1>11. l = 2 => (a + d) % SIZE[2] = 0
    <2> SUFFICES ASSUME l = 2 PROVE (a + d) % s = 0
      BY <1>3
    <2>1. PICK q : q = a \div s
      OBVIOUS
    <2>2. q \in Nat /\ a = q * s
      <3>1. a \div s \in Nat /\ a = (a \div s) * s + (a % s) /\ a % s = 0
        BY <1>3, <1>4, <1>5, Division
      <3>2. (a \div s) * s \in Nat
        BY <1>4, <3>1
      <3> QED BY <2>1, <3>1, <3>2
    <2>3. a + d = (q + done) * s + 0 /\ q + done \in Nat /\ 0 \in 0 .. (s - 1)
      <3>1. d = done * s /\ done \in Nat
        BY <1>3
      <3>2. (q + done) * s = q * s + done * s
        BY <1>4, <2>2, <3>1
      <3>3. (q + done) * s \in Nat
        BY <1>4, <2>2, <3>1
      <3> QED BY <1>4, <2>2, <3>1, <3>2, <3>3
    <2> QED BY <1>4, <2>3, DivisionUnique
  <1>12. Ahead(rest, 0, ADDRESSES)
    <2>1. ASSUME NEW i \in DOMAIN rest
          PROVE  /\ rest[i].count > 0 /\ 0 <= rest[i].address /\ Last(rest[i]) <= ADDRESSES
                 /\ rest[i].level = 2 => rest[i].address % SIZE[2] = 0
      <3>1. CASE i = 1
        <4>1. r.count > 0 /\ 0 <= r.address
          BY <1>4, <1>6, <1>9
        <4> QED BY <1>1, <1>5, <1>9, <1>10, <1>11, <3>1, <4>1
      <3>2. CASE i # 1
        BY <1>1, <3>2 DEF Ahead
      <3> QED BY <3>1, <3>2
    <2>2. ASSUME NEW i \in DOMAIN rest, NEW j \in DOMAIN rest, i < j
          PROVE  Last(rest[i]) <= rest[j].address
      <3>1. j # 1 /\ Last(calls[i]) <= calls[j].address
        BY <1>1, <1>2, <2>2 DEF Ahead
      <3> QED BY <1>1, <1>3, <1>10, <3>1 DEF c
    <2> QED BY <2>1, <2>2 DEF Ahead
  <1>13. ASSUME NEW i \in DOMAIN calls, i # 1 PROVE CallPages(calls[i]) \cap Run(a, d) = {}
    <2>1. e <= calls[i].address
      <3>1. 1 < i /\ 1 \in DOMAIN calls
        BY <1>2, <1>13
      <3> QED BY <1>3, <3>1 DEF Ahead, c
    <2>2. /\ CallPages(calls[i]) = calls[i].address .. (Last(calls[i]) - 1)
          /\ calls[i].address \in Nat /\ Last(calls[i]) \in Nat
      BY <1>2, CallsAre
    <2> QED BY <1>4, <1>6, <1>7, <2>1, <2>2 DEF Run
  <1>14. CallPages(r) = CallPages(c) \ Run(a, d)
    BY <1>4, <1>6, <1>7, <1>10 DEF Run
  <1>15. ASSUME NEW i \in DOMAIN calls PROVE CallPages(rest[i]) = CallPages(calls[i]) \ Run(a, d)
    BY <1>1, <1>13, <1>14 DEF c
  <1> HIDE DEF rest
  <1>16. Covered(rest) = Covered(calls) \ Run(a, d)
    BY <1>1, <1>15 DEF Covered
  <1> QED BY <1>3, <1>12, <1>16 DEF rest, r, c

\* A table or a call is at its end.
LEMMA UnitsDoneAhead ==
  ASSUME TypeOK, NEW lev \in [DOMAIN tables -> Levels], Tree(lev), Following, UnitsDone
  PROVE  Ahead(todo', 0, ADDRESSES) /\ Pending' = Pending
PROOF
  <1>1. /\ pc = "units" /\ pc' = "insert" /\ InCall /\ unit = EndUnit /\ todo \in Seq(Calls)
    BY DEF UnitsDone, InCall, TypeOK
  <1>2. /\ 1 \in DOMAIN todo /\ Ahead(todo, 0, ADDRESSES) /\ TheCall.count \in Nat
    BY <1>1, FollowingIs DEF Following
  <1>3. unit_count \in Nat /\ unit_count <= TheCall.count /\ Idx \in Nat /\ walk.level = TheCall.level
    BY <1>1, WalkIs, RequestedIs
  <1>4. Gone = Run(TheCall.address, unit_count * SIZE[TheCall.level]) /\ Gone' = {}
    <2>1. unit - Idx = unit_count
      BY <1>1, <1>3 DEF EndUnit
    <2> QED BY <1>1, <1>3, <2>1 DEF Gone
  <1>5. Pending = Covered(todo) \ Gone
    BY DEF Pending, Covered
  <1>6. Pending' = Covered(todo')
    BY <1>4 DEF Pending, Covered, CallPages
  <1>7. CASE TheCall.count = unit_count
    <2>1. todo' = Tail(todo)
      BY <1>7 DEF UnitsDone
    <2>2. CallPages(todo[1]) = Gone
      BY <1>4, <1>7 DEF CallPages, TheCall
    <2> QED BY <1>1, <1>2, <1>5, <1>6, <2>1, <2>2, TailAhead
  <1>8. CASE TheCall.count # unit_count
    <2>1. todo' = [todo EXCEPT ![1] = Rest(todo[1], unit_count)]
      BY <1>8 DEF UnitsDone, TheCall
    <2>2. unit_count < todo[1].count
      BY <1>2, <1>3, <1>8 DEF TheCall
    <2>3. Gone = Run(todo[1].address, unit_count * SIZE[todo[1].level])
      BY <1>4 DEF TheCall
    <2> QED BY <1>1, <1>2, <1>3, <1>5, <1>6, <2>1, <2>2, <2>3, RestAhead
  <1> QED BY <1>7, <1>8

-----------------------------------------------------------------------------
(***************************************************************************)
(* Each step keeps the walk where the address of its call leads.           *)
(***************************************************************************)
LEMMA FollowingNext ==
  ASSUME Ahead(todo', 0, ADDRESSES),
         InCall' =>
           /\ TheCall'.address \in VAS
           /\ OnWalk(tables', level0_table', TheCall'.address, walk'.level)
           /\ walk'.table = Hop(tables', level0_table', TheCall'.address, walk'.level)
           /\ walk'.rest = TheCall'.address % (ENTRIES[walk'.level] * SIZE[walk'.level]),
         pc' = "split" =>
           /\ Read(tables', level0_table', TheCall'.address, 2) = mmu_create_table_entry(walk'.table)
           /\ block'.bits = BLOCK,
         pc' = "pages" => unit' = Idx'
  PROVE  Following'
PROOF
  <1>1. Ahead(todo, 0, ADDRESSES)'
    BY DEF Ahead, Last
  <1>2. OnWalk(tables, level0_table, TheCall.address, walk.level)'
          <=> OnWalk(tables', level0_table', TheCall'.address, walk'.level)
    BY Zenon DEF OnWalk, Read, Hop, Index
  <1>3. Hop(tables, level0_table, TheCall.address, walk.level)'
          = Hop(tables', level0_table', TheCall'.address, walk'.level)
    BY Zenon DEF Hop, Index
  <1>4. Read(tables, level0_table, TheCall.address, 2)'
          = Read(tables', level0_table', TheCall'.address, 2)
    BY Zenon DEF Read, Hop, Index
  <1>5. mmu_create_table_entry(walk.table)' = mmu_create_table_entry(walk'.table)
    BY DEF mmu_create_table_entry
  <1> QED BY <1>1, <1>2, <1>3, <1>4, <1>5 DEF Following

\* The entries above the level of a walk lead to where it is.
LEMMA WalkStays ==
  ASSUME TypeOK, NEW lev \in [DOMAIN tables -> Levels], Tree(lev), Following, InCall,
         UNCHANGED level0_table,
         \A t \in DOMAIN tables : lev[t] < walk.level =>
           \A i \in Indices(lev[t]) : tables'[t][i] = tables[t][i]
  PROVE  /\ OnWalk(tables', level0_table', TheCall.address, walk.level)
         /\ walk.table = Hop(tables', level0_table', TheCall.address, walk.level)
PROOF
  <1>1. PICK a, r : a = TheCall.address /\ r = level0_table
    OBVIOUS
  <1>2. /\ a \in Nat /\ OnWalk(tables, r, a, walk.level) /\ walk.table = Hop(tables, r, a, walk.level)
        /\ walk.level \in Levels /\ level0_table # NULL /\ table_stack = <<>> /\ pc # "entry"
    BY <1>1, FollowingIs, WalkIs DEF Destroying, Tree, Destruction
  <1>3. ASSUME NEW k \in Levels, k < walk.level, OnWalk(tables, r, a, k)
        PROVE  tables'[Hop(tables, r, a, k)][Index(k, a)] = Read(tables, r, a, k)
    <2>1. Hop(tables, r, a, k) \in DOMAIN tables /\ lev[Hop(tables, r, a, k)] = k
      BY <1>1, <1>2, <1>3, HopsAre
    <2>2. Index(k, a) \in Indices(k)
      BY <1>2, IndexType
    <2> QED BY <1>3, <2>1, <2>2 DEF Read
  <1>4. walk.level <= walk.level
    BY <1>2 DEF Levels
  <1>5. OnWalk(tables', r, a, walk.level) /\ Hop(tables', r, a, walk.level) = Hop(tables, r, a, walk.level)
    BY <1>2, <1>3, <1>4, SameUpTo
  <1> QED BY <1>1, <1>2, <1>5

\* The walk stays where it is.
LEMMA FollowStays ==
  ASSUME TypeOK, NEW lev \in [DOMAIN tables -> Levels], Tree(lev), Following, InCall,
         UNCHANGED <<level0_table, todo, walk>>,
         \A t \in DOMAIN tables : lev[t] < walk.level =>
           \A i \in Indices(lev[t]) : tables'[t][i] = tables[t][i],
         pc' # "split", pc' = "pages" => unit' = Idx
  PROVE  Following'
PROOF
  <1>1. /\ OnWalk(tables', level0_table', TheCall.address, walk.level)
        /\ walk.table = Hop(tables', level0_table', TheCall.address, walk.level)
    BY WalkStays
  <1>2. TheCall' = TheCall /\ Idx' = Idx /\ walk' = walk /\ todo' = todo
    BY CursorStays
  <1>3. /\ TheCall.address \in VAS /\ Ahead(todo, 0, ADDRESSES)
        /\ walk.rest = TheCall.address % (ENTRIES[walk.level] * SIZE[walk.level])
    BY DEF Following
  <1> QED BY <1>1, <1>2, <1>3, FollowingNext

\* The walk goes down by one level.
LEMMA FollowDown ==
  ASSUME TypeOK, NEW lev \in [DOMAIN tables -> Levels], Tree(lev), Following, Traversing,
         UNCHANGED <<level0_table, todo>>,
         \A t \in DOMAIN tables : lev[t] < walk.level =>
           \A i \in Indices(lev[t]) : tables'[t][i] = tables[t][i],
         tables'[walk.table][Idx].bits = TABLE,
         walk'.table = tables'[walk.table][Idx].page,
         walk'.level = walk.level + 1, walk'.rest = walk.rest % SIZE[walk.level],
         pc' = "traverse" \/
           /\ pc' = "split" /\ walk.level = 2 /\ block'.bits = BLOCK
           /\ tables'[walk.table][Idx] = mmu_create_table_entry(walk'.table)
  PROVE  Following'
PROOF
  <1>1. PICK a, r, L, c : a = TheCall.address /\ r = level0_table' /\ L = walk.level /\ c = tables'
    OBVIOUS
  <1>2. InCall /\ L \in 0 .. 2 /\ L \in Levels
    BY <1>1, TraversingIs DEF Levels
  <1>3. OnWalk(c, r, a, L) /\ walk.table = Hop(c, r, a, L)
    BY <1>1, <1>2, WalkStays
  <1>4. a \in VAS /\ a \in Nat /\ Idx = Index(L, a) /\ walk.rest % SIZE[L] = a % SIZE[L]
    BY <1>1, <1>2, FollowingIs
  <1>5. Read(c, r, a, L) = c[walk.table][Idx]
    BY <1>3, <1>4 DEF Read
  <1>6. OnWalk(c, r, a, L + 1) /\ walk'.table = Hop(c, r, a, L + 1)
    BY <1>1, <1>2, <1>3, <1>5, HopNext, OnWalkNext
  <1>7. walk'.rest = a % (ENTRIES[walk'.level] * SIZE[walk'.level])
    <2>1. SIZE[L] = ENTRIES[L + 1] * SIZE[L + 1]
      BY <1>2, SizeIs
    <2> QED BY <1>1, <1>4, <2>1
  <1>8. TheCall' = TheCall /\ Ahead(todo', 0, ADDRESSES) /\ pc' # "pages"
    BY DEF TheCall, Following
  <1>9. pc' = "split" =>
          /\ Read(tables', level0_table', TheCall'.address, 2) = mmu_create_table_entry(walk'.table)
          /\ block'.bits = BLOCK
    BY <1>1, <1>5, <1>8
  <1>10. /\ TheCall'.address \in VAS
         /\ OnWalk(tables', level0_table', TheCall'.address, walk'.level)
         /\ walk'.table = Hop(tables', level0_table', TheCall'.address, walk'.level)
         /\ walk'.rest = TheCall'.address % (ENTRIES[walk'.level] * SIZE[walk'.level])
    BY <1>1, <1>4, <1>6, <1>7, <1>8
  <1> QED BY <1>8, <1>9, <1>10, FollowingNext

\* The steps of a mapping.
LEMMA TraverseFollows ==
  ASSUME TypeOK, NEW lev \in [DOMAIN tables -> Levels], Tree(lev), Following,
         fault' = "none", TraverseStarts \/ TraverseTable \/ TraverseEmpty \/ SplitLinks
  PROVE  Following'
PROOF
  <1>1. CASE TraverseStarts
    <2>1. /\ walk' = [table |-> level0_table, level |-> 0, rest |-> TheCall.address]
          /\ TheCall.address \in VAS /\ todo' = todo /\ level0_table' = level0_table
          /\ pc' = "traverse"
      BY <1>1 DEF TraverseStarts, request, memory
    <2>2. TheCall' = TheCall /\ Ahead(todo', 0, ADDRESSES)
      BY <2>1 DEF TheCall, Following
    <2>3. TheCall.address % (ENTRIES[0] * SIZE[0]) = TheCall.address
      <3>1. PICK z, a : z = ENTRIES[0] * SIZE[0] /\ a = TheCall.address
        OBVIOUS
      <3>2. z \in Nat \ {0}
        BY <3>1, EntriesAre, SizeIs, ProductPositive DEF Levels
      <3>3. a \in 0 .. (z - 1)
        BY <2>1, <3>1 DEF VAS
      <3>4. a % z = a
        BY <3>2, <3>3
      <3> QED BY <3>1, <3>4
    <2>4. /\ OnWalk(tables', level0_table', TheCall.address, 0)
          /\ Hop(tables', level0_table', TheCall.address, 0) = level0_table'
      BY HopNext, OnWalkNext
    <2> QED BY <2>1, <2>2, <2>3, <2>4, FollowingNext
  <1>2. CASE TraverseTable
    <2>1. /\ Traversing /\ Entry.bits = TABLE /\ pc' = pc
          /\ walk' = [table |-> Entry.page, level |-> walk.level + 1,
                      rest |-> walk.rest % SIZE[walk.level]]
          /\ tables' = tables /\ level0_table' = level0_table /\ todo' = todo
      BY <1>2 DEF TraverseTable, Enter, memory, request
    <2>2. pc' = "traverse"
      BY <2>1 DEF Traversing
    <2> QED BY <2>1, <2>2, FollowDown DEF Entry
  <1>3. CASE TraverseEmpty \/ SplitLinks
    <2>1. /\ Traversing /\ LinkNewTable /\ todo' = todo /\ level0_table' = level0_table
          /\ \/ Entry.bits = 0 /\ pc' = pc
             \/ Entry.bits = BLOCK /\ pc' = "split" /\ block' = Entry
      BY <1>3 DEF TraverseEmpty, SplitLinks, request
    <2>2. PICK new : new = NewPage.page
      OBVIOUS
    <2>3. /\ tables'[walk.table][Idx] = mmu_create_table_entry(new)
          /\ \A u \in DOMAIN tables : \A j \in Indices(lev[u]) :
               u # walk.table \/ j # Idx => tables'[u][j] = tables[u][j]
      BY <2>1, <2>2, NewTableIs
    <2>4. walk' = [table |-> new, level |-> walk.level + 1, rest |-> walk.rest % SIZE[walk.level]]
      BY <2>1, <2>2 DEF LinkNewTable, Enter
    <2>5. /\ tables'[walk.table][Idx].bits = TABLE /\ tables'[walk.table][Idx].page = new
      BY <2>3 DEF mmu_create_table_entry
    <2>6. walk.table \in DOMAIN tables /\ lev[walk.table] = walk.level /\ walk.level \in 0 .. 2
          /\ pc = "traverse"
      BY <2>1, TraversingIs
    <2>7. \A t \in DOMAIN tables : lev[t] < walk.level =>
            \A i \in Indices(lev[t]) : tables'[t][i] = tables[t][i]
      BY <2>3, <2>6
    <2>8. pc' = "traverse" \/
            /\ pc' = "split" /\ walk.level = 2 /\ block'.bits = BLOCK
            /\ tables'[walk.table][Idx] = mmu_create_table_entry(walk'.table)
      <3>1. Entry.bits = BLOCK => walk.level = 2
        BY <2>1, TraversingIs DEF Tree, Shaped, Entry
      <3> QED BY <2>1, <2>3, <2>4, <2>6, <3>1
    <2> QED BY <2>1, <2>4, <2>5, <2>7, <2>8, FollowDown
  <1> QED BY <1>1, <1>2, <1>3

LEMMA UnitsFollow ==
  ASSUME TypeOK, NEW lev \in [DOMAIN tables -> Levels], Tree(lev), Following,
         UnitsStart \/ UnitCreated \/ UnitOverridden \/ UnitIsTable,
         fault' = "none"
  PROVE  Following'
PROOF
  <1>1. UNCHANGED <<level0_table, todo, walk>> /\ InCall
    BY DEF UnitsStart, UnitCreated, UnitOverridden, UnitIsTable, NextUnit, InUnits, InCall,
           memory, request
  <1>2. pc' # "split" /\ (pc' = "pages" => unit' = Idx)
    <2>1. CASE UnitsStart \/ UnitCreated \/ UnitOverridden
      BY <2>1 DEF UnitsStart, UnitCreated, UnitOverridden, NextUnit, InUnits
    <2>2. CASE UnitIsTable
      <3>1. unit' = unit /\ pc' = "pages"
        BY <2>2 DEF UnitIsTable
      <3>2. ~(TableOfFirst.bits = TABLE /\ unit # Idx) /\ TableOfFirst.bits = TABLE
        BY <2>2 DEF UnitIsTable
      <3> QED BY <3>1, <3>2
    <2> QED BY <2>1, <2>2
  <1>3. walk.table \in DOMAIN tables /\ lev[walk.table] = walk.level /\ walk.level \in Levels
    BY <1>1, WalkIs
  <1>4. \A t \in DOMAIN tables : t # walk.table => tables'[t] = tables[t]
    BY DEF UnitsStart, UnitCreated, UnitOverridden, UnitIsTable, memory
  <1>5. \A t \in DOMAIN tables : lev[t] < walk.level =>
          \A i \in Indices(lev[t]) : tables'[t][i] = tables[t][i]
    <2>1. ~(walk.level < walk.level)
      BY <1>3 DEF Levels
    <2> QED BY <1>3, <1>4, <2>1
  <1> QED BY <1>1, <1>2, <1>5, FollowStays

LEMMA PagesFollow ==
  ASSUME TypeOK, NEW lev \in [DOMAIN tables -> Levels], Tree(lev), Following,
         PageCreated \/ PageOverridden
  PROVE  Following'
PROOF
  <1>1. UNCHANGED <<level0_table, todo, walk>> /\ InCall /\ pc = "pages"
    BY DEF PageCreated, PageOverridden, NextPage, InCall, request
  <1>2. pc' # "split" /\ (pc' = "pages" => unit' = Idx)
    BY <1>1 DEF PageCreated, PageOverridden, NextPage, Following
  <1>3. pages \in DOMAIN tables /\ lev[pages] = 3 /\ walk.level = 2
    BY <1>1, PagesType
  <1>4. \A t \in DOMAIN tables : t # pages => tables'[t] = tables[t]
    BY DEF PageCreated, PageOverridden
  <1>5. \A t \in DOMAIN tables : lev[t] < walk.level =>
          \A i \in Indices(lev[t]) : tables'[t][i] = tables[t][i]
    BY <1>3, <1>4
  <1> QED BY <1>1, <1>2, <1>5, FollowStays

LEMMA SplitFollows ==
  ASSUME TypeOK, NEW lev \in [DOMAIN tables -> Levels], Tree(lev), Following, SplitFills
  PROVE  Following'
PROOF
  <1>1. UNCHANGED <<level0_table, todo, walk>> /\ InCall /\ pc' = "traverse"
    BY DEF SplitFills, InCall, request
  <1>2. walk.table \in DOMAIN tables /\ lev[walk.table] = walk.level /\ walk.level \in Levels
    BY <1>1, WalkIs
  <1>3. \A t \in DOMAIN tables : t # walk.table => tables'[t] = tables[t]
    BY DEF SplitFills
  <1>4. \A t \in DOMAIN tables : lev[t] < walk.level =>
          \A i \in Indices(lev[t]) : tables'[t][i] = tables[t][i]
    <2>1. ~(walk.level < walk.level)
      BY <1>2 DEF Levels
    <2> QED BY <1>2, <1>3, <2>1
  <1> QED BY <1>1, <1>4, FollowStays

\* The steps outside of mmu_map_units.
LEMMA OutsideFollows ==
  ASSUME TypeOK, Following, ~InCall', Ahead(todo', 0, ADDRESSES)
  PROVE  Following'
PROOF
  <1>1. pc' # "split" /\ pc' # "pages"
    BY DEF InCall
  <1> QED BY <1>1, FollowingNext

-----------------------------------------------------------------------------
(***************************************************************************)
(* Steps that the address space does not show.                             *)
(***************************************************************************)
LEMMA CalmRefines ==
  ASSUME TypeOK, NEW lev \in [DOMAIN tables -> Levels], Tree(lev), Following,
         TraverseStarts \/ TraverseTable \/ UnitsStart \/ UnitIsTable \/ UnitsDone
  PROVE  UNCHANGED Abstract!vars
PROOF
  <1>1. /\ tables' = tables /\ level0_table' = level0_table /\ region' = region
        /\ pc \in {"insert", "traverse", "units"} /\ pc' \in {"insert", "traverse", "units", "pages"}
    BY DEF TraverseStarts, TraverseTable, UnitsStart, UnitIsTable, UnitsDone, Traversing, InUnits,
           memory, request
  <1>2. Mode' = Mode
    BY <1>1 DEF Mode
  <1>3. Space' = Space
    BY <1>1, <1>2, CalmSpace
  <1>4. Pending' = Pending
    <2>1. CASE UnitsDone
      BY <2>1, UnitsDoneAhead
    <2>2. CASE TraverseStarts \/ TraverseTable
      <3>1. todo' = todo /\ Gone' = Gone
        BY <2>2 DEF TraverseStarts, TraverseTable, Traversing, request, Gone
      <3> QED BY <3>1, PendingStays
    <2>3. CASE UnitsStart
      <3>1. pc = "traverse" /\ pc' = "units" /\ unit' = Idx /\ todo' = todo /\ walk' = walk
        BY <2>3 DEF UnitsStart, request
      <3>2. InCall /\ TheCall' = TheCall /\ Idx' = Idx
        BY <3>1, CursorStays DEF InCall
      <3>3. PICK a, i, w : a = TheCall.address /\ i = Idx /\ w = SIZE[walk.level]
        OBVIOUS
      <3>4. a \in Nat /\ i \in Nat /\ w \in Nat
        BY <3>2, <3>3, WalkIs, FollowingIs, SizeIs DEF Indices
      <3>5. Gone' = Run(a, (i - i) * w)
        BY <3>1, <3>2, <3>3 DEF Gone
      <3>6. Run(a, (i - i) * w) = {}
        <4>1. (i - i) * w = 0
          BY <3>4
        <4> QED BY <3>4, <4>1 DEF Run
      <3>7. Gone' = Gone
        BY <3>1, <3>5, <3>6 DEF Gone
      <3> QED BY <3>1, <3>7, PendingStays
    <2>4. CASE UnitIsTable
      <3>1. pc = "units" /\ pc' = "pages" /\ unit' = unit /\ l3_idx' = 0 /\ todo' = todo /\ walk' = walk
        BY <2>4 DEF UnitIsTable, InUnits, request
      <3>2. InCall /\ TheCall' = TheCall /\ Idx' = Idx
        BY <3>1, CursorStays DEF InCall
      <3>3. PICK d : d = (unit - Idx) * SIZE[walk.level]
        OBVIOUS
      <3>4. d \in Int
        <4>1. unit \in Nat /\ Idx \in Nat /\ SIZE[walk.level] \in Nat
          BY <3>1, RequestedIs, SizeIs DEF Levels
        <4> QED BY <3>3, <4>1
      <3>5. Gone = Run(TheCall.address, d) /\ Gone' = Run(TheCall.address, d + 0)
        BY <3>1, <3>2, <3>3 DEF Gone
      <3>6. d + 0 = d
        BY <3>4
      <3> QED BY <3>1, <3>5, <3>6, PendingStays
    <2> QED BY <2>1, <2>2, <2>3, <2>4
  <1> QED BY <1>1, <1>2, <1>3, <1>4 DEF Abstract!vars

\* A new table is empty, as the entry was that now leads to it.
LEMMA TraverseEmptyRefines ==
  ASSUME TypeOK, NEW lev \in [DOMAIN tables -> Levels], Tree(lev), Following, TraverseEmpty
  PROVE  UNCHANGED Abstract!vars
PROOF
  <1>1. /\ Traversing /\ Entry.bits = 0 /\ LinkNewTable /\ pc = "traverse" /\ pc' = "traverse"
        /\ level0_table' = level0_table /\ todo' = todo /\ region' = region
    BY DEF TraverseEmpty, Traversing, request
  <1>2. PICK r, T, n, L, new :
          r = level0_table /\ T = walk.table /\ n = Idx /\ L = walk.level /\ new = NewPage.page
    OBVIOUS
  <1>3. /\ r # NULL /\ L \in 0 .. 2 /\ L \in Levels /\ L + 1 \in Levels
        /\ T \in DOMAIN tables /\ lev[T] = L /\ n \in Indices(L) /\ table_stack = <<>> /\ pc # "entry"
    BY <1>1, <1>2, TraversingIs DEF Levels
  <1>4. /\ tables'[new] = Zeroed(L + 1)
        /\ tables'[T][n] = mmu_create_table_entry(new)
        /\ \A u \in DOMAIN tables : \A j \in Indices(lev[u]) :
             u # T \/ j # n => tables'[u][j] = tables[u][j]
    BY <1>1, <1>2, NewTableIs
  <1>5. Context_tables = tables /\ Context_tables' = tables'
    BY <1>1 DEF Context_tables
  <1>6. ASSUME NEW va \in VAS
        PROVE  Translate(Context_tables, va)' = Translate(Context_tables, va)
    <2> DEFINE There(k) == Hop(tables, r, va, k) = T /\ Index(k, va) = n
    <2>1. va \in Nat
      BY VasIs
    <2>2. ASSUME NEW k \in Levels, OnWalk(tables, r, va, k), ~(k = L /\ There(k))
          PROVE  tables'[Hop(tables, r, va, k)][Index(k, va)] = Read(tables, r, va, k)
      <3>1. Hop(tables, r, va, k) \in DOMAIN tables /\ lev[Hop(tables, r, va, k)] = k
            /\ Index(k, va) \in Indices(k)
        BY <1>2, <1>3, <2>1, <2>2, HopsAre, IndexType
      <3>2. Hop(tables, r, va, k) # T \/ Index(k, va) # n
        BY <1>3, <2>2, <3>1
      <3> QED BY <1>4, <3>1, <3>2 DEF Read
    <2>3. CASE OnWalk(tables, r, va, L) /\ There(L)
      <3>1. Read(tables, r, va, L) = Entry
        BY <1>2, <2>3 DEF Read, Entry
      <3>2. EndsAt(tables, r, va, L)
        BY <1>1, <2>3, <3>1 DEF EndsAt, TABLE
      <3>3. Translate(tables, va) = UNMAPPED
        BY <1>1, <1>2, <1>3, <3>1, <3>2, TranslateFinds DEF Reading
      <3>4. OnWalk(tables', r, va, L) /\ Hop(tables', r, va, L) = T
        <4>1. L <= L /\ \A k \in Levels : k < L => k # L
          BY <1>3
        <4>2. \A k \in Levels : k < L /\ OnWalk(tables, r, va, k) =>
                tables'[Hop(tables, r, va, k)][Index(k, va)] = Read(tables, r, va, k)
          BY <2>2, <4>1
        <4> QED BY <1>3, <2>3, <4>1, <4>2, SameUpTo
      <3>5. Read(tables', r, va, L) = mmu_create_table_entry(new)
        BY <1>4, <2>3, <3>4 DEF Read
      <3>6. OnWalk(tables', r, va, L + 1) /\ Hop(tables', r, va, L + 1) = new
        BY <1>3, <3>4, <3>5, HopNext, OnWalkNext DEF mmu_create_table_entry
      <3>7. Read(tables', r, va, L + 1) = EMPTY_ENTRY
        <4>1. Index(L + 1, va) \in Indices(L + 1)
          BY <1>3, <2>1, IndexType
        <4> QED BY <1>4, <3>6, <4>1 DEF Read, Zeroed
      <3>8. EndsAt(tables', r, va, L + 1)
        BY <3>6, <3>7 DEF EndsAt, EMPTY_ENTRY, TABLE
      <3>9. Translate(Context_tables, va)' = Reading(EMPTY_ENTRY, va, L + 1)
        <4>1. EndsAt(Context_tables', level0_table', va, L + 1)
          BY <1>1, <1>2, <1>5, <3>8
        <4>2. Translate(Context_tables, va)' = Reading(Read(Context_tables', level0_table', va, L + 1), va, L + 1)
          BY <1>3, <4>1, TranslateFindsNext
        <4>3. Read(Context_tables', level0_table', va, L + 1) = EMPTY_ENTRY
          BY <1>1, <1>2, <1>5, <3>7
        <4> QED BY <4>2, <4>3
      <3> QED BY <1>5, <3>3, <3>9 DEF Reading, EMPTY_ENTRY
    <2>4. CASE ~(OnWalk(tables, r, va, L) /\ There(L))
      <3>1. \A k \in Levels : OnWalk(tables, r, va, k) =>
              tables'[Hop(tables, r, va, k)][Index(k, va)] = Read(tables, r, va, k)
        BY <2>2, <2>4
      <3>2. \A k \in Levels : OnWalk(Context_tables, level0_table, va, k) =>
              Context_tables'[Hop(Context_tables, level0_table, va, k)][Index(k, va)]
                = Read(Context_tables, level0_table, va, k)
        BY <1>2, <1>5, <3>1
      <3> QED BY <1>1, <3>2, Undisturbed
    <2> QED BY <2>3, <2>4
  <1>7. Mode' = Mode
    BY <1>1 DEF Mode
  <1>8. Space' = Space
    BY <1>6, <1>7, SameSpace
  <1>9. Pending' = Pending
    <2>1. Gone' = Gone
      BY <1>1 DEF Gone
    <2> QED BY <1>1, <2>1, PendingStays
  <1> QED BY <1>1, <1>7, <1>8, <1>9 DEF Abstract!vars

\* While a split is linked, the block still counts.
LEMMA SplitLinksRefines ==
  ASSUME TypeOK, NEW lev \in [DOMAIN tables -> Levels], Tree(lev), Data, Following,
         SplitLinks, fault' = "none"
  PROVE  UNCHANGED Abstract!vars
PROOF
  <1>1. /\ Traversing /\ LinkNewTable /\ NewPage.page # NULL /\ pc = "traverse" /\ pc' = "split"
        /\ level0_table' = level0_table /\ todo' = todo /\ region' = region /\ block' = Entry
    BY DEF SplitLinks, Traversing, LinkNewTable, Claimed, request
  <1>2. PICK r, T, n, new : r = level0_table /\ T = walk.table /\ n = Idx /\ new = NewPage.page
    OBVIOUS
  <1>3. /\ r # NULL /\ T \in DOMAIN tables /\ n \in Indices(lev[T])
        /\ table_stack = <<>> /\ pc # "entry"
    BY <1>1, <1>2, TraversingIs
  <1>4. /\ new \notin DOMAIN tables /\ DOMAIN tables' = DOMAIN tables \cup {new}
        /\ tables'[T][n] = mmu_create_table_entry(new)
        /\ \A u \in DOMAIN tables : \A j \in Indices(lev[u]) :
             u # T \/ j # n => tables'[u][j] = tables[u][j]
    BY <1>1, <1>2, NewTableIs
  <1>5. /\ new \in Nat /\ new \notin bitmap /\ walk'.table = new
    BY <1>1, <1>2, NewPageIs, PageCountType DEF LinkNewTable, Enter, TypeOK, Pages
  <1>6. \A u \in DOMAIN tables : DOMAIN tables'[u] = Indices(lev[u]) /\ DOMAIN tables[u] = Indices(lev[u])
    <2>1. With(lev, new, walk.level + 1) \in [DOMAIN tables' -> Levels]
          /\ \A u \in DOMAIN tables' : tables'[u] \in [Indices(With(lev, new, walk.level + 1)[u]) -> EntryType]
      BY <1>1, <1>2, NewTableIs
    <2>2. \A u \in DOMAIN tables : u \in DOMAIN tables' /\ With(lev, new, walk.level + 1)[u] = lev[u]
      BY <1>4 DEF With
    <2> QED BY <2>1, <2>2 DEF Tree, Shaped
  <1>7. ASSUME NEW u \in DOMAIN tables, NEW j \in Indices(lev[u])
        PROVE  tables[u][j] # mmu_create_table_entry(new)
    <2> SUFFICES ASSUME tables[u][j] = mmu_create_table_entry(new) PROVE FALSE
      OBVIOUS
    <2>1. tables[u][j] \in EntryType /\ tables[u][j].bits = TABLE /\ tables[u][j].page = new
      BY DEF mmu_create_table_entry, Tree, Shaped
    <2>2. new \in Extent(tables[u][j])
      BY <2>1, ExtentIs DEF TABLE, BLOCK
    <2>3. Owns(u, j, new)
      BY <1>3, <1>6, <2>1, <2>2 DEF Owns, Uses, Live, TABLE
    <2> QED BY <1>5, <2>3 DEF Data, OneOwner
  <1>8. Context_tables = tables
    BY <1>1 DEF Context_tables
  <1>9. ASSUME NEW u \in DOMAIN tables, NEW j \in Indices(lev[u])
        PROVE  Context_tables'[u][j] = tables[u][j]
    <2>1. Context_tables' = [t \in DOMAIN tables' \ {new} |->
             [i \in DOMAIN tables'[t] |->
               IF tables'[t][i] = mmu_create_table_entry(new) THEN block' ELSE tables'[t][i]]]
      BY <1>1, <1>5 DEF Context_tables, mmu_create_table_entry
    <2>2. u \in DOMAIN tables' \ {new} /\ j \in DOMAIN tables'[u]
      BY <1>4, <1>6
    <2>3. Context_tables'[u][j] = IF tables'[u][j] = mmu_create_table_entry(new) THEN block' ELSE tables'[u][j]
      BY <2>1, <2>2
    <2>4. CASE u = T /\ j = n
      BY <1>1, <1>2, <1>4, <2>3, <2>4 DEF Entry
    <2>5. CASE u # T \/ j # n
      BY <1>4, <1>7, <2>3, <2>5
    <2> QED BY <2>4, <2>5
  <1>10. ASSUME NEW va \in VAS
         PROVE  Translate(Context_tables, va)' = Translate(Context_tables, va)
    <2>1. va \in Nat
      BY VasIs
    <2>2. ASSUME NEW k \in Levels, OnWalk(tables, level0_table, va, k)
          PROVE  Context_tables'[Hop(tables, level0_table, va, k)][Index(k, va)]
                   = Read(tables, level0_table, va, k)
      <3>1. Hop(tables, level0_table, va, k) \in DOMAIN tables /\ lev[Hop(tables, level0_table, va, k)] = k
            /\ Index(k, va) \in Indices(k)
        BY <1>2, <1>3, <2>1, <2>2, HopsAre, IndexType
      <3> QED BY <1>9, <3>1 DEF Read
    <2> QED BY <1>1, <1>8, <2>2, Undisturbed
  <1>11. Mode' = Mode
    BY <1>1 DEF Mode
  <1>12. Space' = Space
    BY <1>10, <1>11, SameSpace
  <1>13. Pending' = Pending
    <2>1. Gone' = Gone
      BY <1>1 DEF Gone
    <2> QED BY <1>1, <2>1, PendingStays
  <1> QED BY <1>1, <1>11, <1>12, <1>13 DEF Abstract!vars

-----------------------------------------------------------------------------
(***************************************************************************)
(* The fill of a split: the pages of the new table are those of the block. *)
(***************************************************************************)
\* Only one entry leads to the table that is being filled.
LEMMA SplitContext ==
  ASSUME TypeOK, NEW lev \in [DOMAIN tables -> Levels], Tree(lev), Data, pc = "split",
         NEW T \in DOMAIN tables, NEW n \in Indices(lev[T]),
         tables[T][n] = mmu_create_table_entry(walk.table)
  PROVE  \A u \in DOMAIN tables \ {walk.table} : \A j \in Indices(lev[u]) :
           Context_tables[u][j] = IF u = T /\ j = n THEN block ELSE tables[u][j]
PROOF
  <1>1. table_stack = <<>> /\ walk.table \in DOMAIN tables
    BY DEF Tree, Destruction, Walking, InCall
  <1>2. \A u \in DOMAIN tables : DOMAIN tables[u] = Indices(lev[u])
    BY DEF Tree, Shaped
  <1>3. walk.table \in Nat
    BY <1>1, PageCountType DEF Tree, Shaped, Pages
  <1>4. ASSUME NEW u \in DOMAIN tables, NEW j \in Indices(lev[u]),
               tables[u][j] = mmu_create_table_entry(walk.table)
        PROVE  Owns(u, j, walk.table)
    <2>1. tables[u][j] \in EntryType /\ tables[u][j].bits = TABLE /\ tables[u][j].page = walk.table
      BY <1>4 DEF mmu_create_table_entry, Tree, Shaped
    <2>2. walk.table \in Extent(tables[u][j])
      BY <2>1, ExtentIs DEF TABLE, BLOCK
    <2> QED BY <1>1, <1>2, <1>4, <2>1, <2>2 DEF Owns, Uses, Live, TABLE
  <1>5. ASSUME NEW u \in DOMAIN tables, NEW j \in Indices(lev[u]),
               tables[u][j] = mmu_create_table_entry(walk.table)
        PROVE  u = T /\ j = n
    BY <1>3, <1>4, <1>5 DEF Data, OneOwner
  <1>6. ASSUME NEW u \in DOMAIN tables \ {walk.table}, NEW j \in Indices(lev[u])
        PROVE  Context_tables[u][j] =
                 IF tables[u][j] = mmu_create_table_entry(walk.table) THEN block ELSE tables[u][j]
    BY <1>2, <1>6 DEF Context_tables, mmu_create_table_entry
  <1> QED BY <1>5, <1>6

\* A page of a block, and the entry of the page it becomes.
LEMMA PieceFound ==
  ASSUME NEW va \in Nat, NEW b \in EntryType, b.bits = BLOCK
  PROVE  LET e == Piece(3, b.page + Index(3, va) * SIZE[3], b.type)
         IN  Reading(e, va, 3) = Reading(b, va, 2)
PROOF
  <1>1. SIZE[3] = 1 /\ SIZE[2] = ENTRIES[3] /\ ENTRIES[3] \in Nat \ {0}
    BY SizeIs, EntriesAre DEF Levels
  <1>2. va \div 1 = va /\ va % 1 = 0 /\ va % ENTRIES[3] \in Nat /\ b.page \in Nat
    BY <1>1 DEF EntryType
  <1>3. Index(3, va) = va % SIZE[2]
    BY <1>1, <1>2 DEF Index
  <1>4. b.page + Index(3, va) * SIZE[3] = b.page + (va % SIZE[2])
    BY <1>1, <1>2, <1>3
  <1>5. Reading(b, va, 2) = [page |-> b.page + (va % SIZE[2]), type |-> b.type]
    BY DEF Reading, BLOCK
  <1>6. Reading(Piece(3, b.page + (va % SIZE[2]), b.type), va, 3)
          = [page |-> (b.page + (va % SIZE[2])) + (va % SIZE[3]), type |-> b.type]
    BY DEF Reading, Piece, mmu_create_page_entry, TABLE
  <1>7. (b.page + (va % SIZE[2])) + (va % SIZE[3]) = b.page + (va % SIZE[2])
    BY <1>1, <1>2
  <1> QED BY <1>4, <1>5, <1>6, <1>7

LEMMA SplitFillsRefines ==
  ASSUME TypeOK, NEW lev \in [DOMAIN tables -> Levels], Tree(lev), Data, Following,
         SplitFills, fault' = "none"
  PROVE  UNCHANGED Abstract!vars
PROOF
  <1>1. /\ pc = "split" /\ pc' = "traverse" /\ InCall /\ ~Destroying /\ table_stack = <<>>
        /\ level0_table' = level0_table /\ todo' = todo /\ region' = region
    BY DEF SplitFills, request, InCall, Destroying, Tree, Destruction
  <1>2. PICK r, T, n, new, a : /\ r = level0_table /\ T = Hop(tables, r, a, 2) /\ n = Index(2, a)
                               /\ new = walk.table /\ a = TheCall.address
    OBVIOUS
  <1>3. /\ new \in DOMAIN tables /\ walk.level = 3 /\ lev[new] = 3 /\ a \in Nat /\ a \in VAS
        /\ OnWalk(tables, r, a, 2) /\ tables[T][n] = mmu_create_table_entry(new)
        /\ block \in EntryType /\ block.bits = BLOCK /\ r # NULL
    <2>1. walk.level = 3 /\ new \in DOMAIN tables /\ lev[new] = 3
      BY <1>1, <1>2 DEF Tree, Walking
    <2>2. a \in Nat /\ a \in VAS /\ OnWalk(tables, r, a, 3)
      BY <1>1, <1>2, <2>1, FollowingIs
    <2>3. OnWalk(tables, r, a, 2)
      <3>1. 2 \in Levels /\ 3 \in Levels /\ 2 <= 3
        BY DEF Levels
      <3> QED BY <2>2, <3>1, OnWalkNext
    <2>4. Read(tables, r, a, 2) = mmu_create_table_entry(new) /\ block.bits = BLOCK
      BY <1>1, <1>2 DEF Following
    <2>5. r # NULL
      BY <1>1, <1>2 DEF Tree, Rooted
    <2> QED BY <1>2, <2>1, <2>2, <2>3, <2>4, <2>5 DEF Read, TypeOK
  <1>4. T \in DOMAIN tables /\ lev[T] = 2 /\ n \in Indices(2) /\ Link(lev, T, n)
        /\ tables[T][n].bits = TABLE /\ tables[T][n].page = new
    <2>1. 2 \in Levels /\ 2 < 3
      BY DEF Levels
    <2>2. n \in Indices(2)
      BY <1>2, <1>3, <2>1, IndexType
    <2>3. tables[T][n].bits = TABLE /\ tables[T][n].page = new
      BY <1>3 DEF mmu_create_table_entry
    <2>4. pc # "entry" /\ Read(tables, r, a, 2) = tables[T][n]
      BY <1>1, <1>2 DEF Read
    <2> QED BY <1>1, <1>2, <1>3, <2>1, <2>2, <2>3, <2>4, HopsAre
  <1>5. \A u \in DOMAIN tables \ {new} : \A j \in Indices(lev[u]) :
          Context_tables[u][j] = IF u = T /\ j = n THEN block ELSE tables[u][j]
    BY <1>1, <1>2, <1>3, <1>4, SplitContext
  <1>6. Context_tables' = tables'
    BY <1>1 DEF Context_tables
  <1>7. /\ \A u \in DOMAIN tables \ {new} : tables'[u] = tables[u]
        /\ \A i \in Indices(3) : tables'[new][i] = Piece(3, block.page + i * SIZE[3], block.type)
    <2>1. new_table_base = block.page
      BY DEF SplitFills
    <2> QED BY <1>2, <1>3, <2>1 DEF SplitFills
  <1>8. T # new
    BY <1>3, <1>4
  <1>9. ASSUME NEW va \in VAS
        PROVE  Translate(Context_tables, va)' = Translate(Context_tables, va)
    <2> DEFINE There(k) == k = 2 /\ Hop(tables, r, va, k) = T /\ Index(k, va) = n
               Passes == OnWalk(tables, r, va, 2) /\ There(2)
    <2>1. va \in Nat
      BY VasIs
    <2>2. ASSUME NEW k \in Levels, OnWalk(tables, r, va, k)
          PROVE  /\ Hop(tables, r, va, k) \in DOMAIN tables /\ lev[Hop(tables, r, va, k)] = k
                 /\ Index(k, va) \in Indices(k)
      BY <1>1, <1>2, <1>3, <2>1, <2>2, HopsAre, IndexType
    <2>3. ASSUME NEW k \in Levels, OnWalk(tables, r, va, k), ~There(k), Hop(tables, r, va, k) # new
          PROVE  /\ tables'[Hop(tables, r, va, k)][Index(k, va)] = Read(tables, r, va, k)
                 /\ Context_tables[Hop(tables, r, va, k)][Index(k, va)] = Read(tables, r, va, k)
      <3>1. /\ Hop(tables, r, va, k) \in DOMAIN tables \ {new}
            /\ Index(k, va) \in Indices(lev[Hop(tables, r, va, k)])
        BY <2>2, <2>3
      <3>2. ~(Hop(tables, r, va, k) = T /\ Index(k, va) = n)
        BY <1>4, <2>2, <2>3
      <3> QED BY <1>5, <1>7, <3>1, <3>2 DEF Read
    <2>4. \A k \in Levels : k < 3 /\ OnWalk(tables, r, va, k) => Hop(tables, r, va, k) # new
      BY <1>3, <2>2
    <2>5. CASE Passes
      <3>1. 2 \in Levels /\ 3 \in Levels /\ 2 <= 2 /\ \A k \in Levels : k < 2 => k < 3 /\ k # 2
        BY DEF Levels
      <3>2. \A k \in Levels : k < 2 /\ OnWalk(tables, r, va, k) =>
              /\ tables'[Hop(tables, r, va, k)][Index(k, va)] = Read(tables, r, va, k)
              /\ Context_tables[Hop(tables, r, va, k)][Index(k, va)] = Read(tables, r, va, k)
        BY <2>3, <2>4, <3>1
      <3>3. OnWalk(tables', r, va, 2) /\ Hop(tables', r, va, 2) = T
        BY <2>5, <3>1, <3>2, SameUpTo
      <3>4. OnWalk(Context_tables, r, va, 2) /\ Hop(Context_tables, r, va, 2) = T
        BY <2>5, <3>1, <3>2, SameUpTo
      <3>5. Read(Context_tables, r, va, 2) = block
        BY <1>4, <1>5, <1>8, <2>5, <3>4 DEF Read
      <3>6. Translate(Context_tables, va) = Reading(block, va, 2)
        <4>1. EndsAt(Context_tables, level0_table, va, 2)
          BY <1>2, <1>3, <3>4, <3>5 DEF EndsAt, TABLE, BLOCK
        <4> QED BY <1>2, <3>1, <3>5, <4>1, TranslateFinds
      <3>7. OnWalk(tables', r, va, 3) /\ Hop(tables', r, va, 3) = new
        <4>1. Read(tables', r, va, 2) = tables[T][n]
          BY <1>4, <1>7, <1>8, <2>5, <3>3 DEF Read
        <4>2. 2 \in 0 .. 2
          OBVIOUS
        <4>3. OnWalk(tables', r, va, 2 + 1) /\ Hop(tables', r, va, 2 + 1) = new
          BY <1>4, <3>3, <4>1, <4>2, HopNext, OnWalkNext
        <4> QED BY <4>3
      <3>8. Read(tables', r, va, 3) = Piece(3, block.page + Index(3, va) * SIZE[3], block.type)
        <4>1. Index(3, va) \in Indices(3)
          BY <2>1, <3>1, IndexType
        <4> QED BY <1>7, <3>7, <4>1 DEF Read
      <3>9. Translate(Context_tables, va)' = Reading(Read(tables', r, va, 3), va, 3)
        <4>1. EndsAt(Context_tables', level0_table', va, 3)
          BY <1>1, <1>2, <1>6, <3>7 DEF EndsAt
        <4>2. Translate(Context_tables, va)' = Reading(Read(Context_tables', level0_table', va, 3), va, 3)
          BY <3>1, <4>1, TranslateFindsNext
        <4> QED BY <1>1, <1>2, <1>6, <4>2
      <3> QED BY <1>3, <2>1, <3>6, <3>8, <3>9, PieceFound
    <2>6. CASE ~Passes
      <3>1. ASSUME NEW k \in Levels, OnWalk(tables, r, va, k) PROVE Hop(tables, r, va, k) # new
        <4>1. CASE k < 3
          BY <2>4, <3>1, <4>1
        <4>2. CASE k = 3
          <5> SUFFICES ASSUME Hop(tables, r, va, 3) = new PROVE FALSE
            BY <4>2
          <5>1. 2 \in 0 .. 2 /\ 2 \in Levels /\ 2 < 3
            BY DEF Levels
          <5>2. OnWalk(tables, r, va, 2 + 1) /\ Hop(tables, r, va, 2 + 1) = new
            BY <3>1, <4>2
          <5>3. OnWalk(tables, r, va, 2) /\ Read(tables, r, va, 2).bits = TABLE
                /\ Read(tables, r, va, 2).page = new
            BY <5>1, <5>2, OnWalkNext, HopNext
          <5>4. Link(lev, Hop(tables, r, va, 2), Index(2, va)) /\ Index(2, va) \in Indices(2)
                /\ Hop(tables, r, va, 2) \in DOMAIN tables /\ lev[Hop(tables, r, va, 2)] = 2
            BY <1>1, <1>2, <1>3, <2>1, <2>2, <5>1, <5>3, HopsAre
          <5>5. Hop(tables, r, va, 2) = T /\ Index(2, va) = n
            BY <1>4, <5>3, <5>4 DEF Tree, Linked, Read
          <5> QED BY <2>6, <5>3, <5>5
        <4> QED BY <4>1, <4>2 DEF Levels
      <3>2. \A k \in Levels : OnWalk(tables, r, va, k) =>
              /\ tables'[Hop(tables, r, va, k)][Index(k, va)] = Read(tables, r, va, k)
              /\ Context_tables[Hop(tables, r, va, k)][Index(k, va)] = Read(tables, r, va, k)
        BY <2>3, <2>6, <3>1
      <3>3. PICK level \in Levels : EndsAt(tables, r, va, level)
        BY EndsSomewhere
      <3>4. EndsAt(tables', r, va, level) /\ Read(tables', r, va, level) = Read(tables, r, va, level)
        BY <3>2, <3>3, SameEnds
      <3>5. EndsAt(Context_tables, r, va, level)
            /\ Read(Context_tables, r, va, level) = Read(tables, r, va, level)
        BY <3>2, <3>3, SameEnds
      <3>6. Translate(Context_tables, va) = Reading(Read(tables, r, va, level), va, level)
        BY <1>2, <3>5, TranslateFinds
      <3>7. Translate(Context_tables, va)' = Reading(Read(tables, r, va, level), va, level)
        <4>1. EndsAt(Context_tables', level0_table', va, level)
          BY <1>1, <1>2, <1>6, <3>4
        <4>2. Translate(Context_tables, va)' = Reading(Read(Context_tables', level0_table', va, level), va, level)
          BY <4>1, TranslateFindsNext
        <4> QED BY <1>1, <1>2, <1>6, <3>4, <4>2
      <3> QED BY <3>6, <3>7
    <2> QED BY <2>5, <2>6
  <1>10. Mode' = Mode
    BY <1>1, <1>2, <1>3 DEF Mode
  <1>11. Space' = Space
    BY <1>9, <1>10, SameSpace
  <1>12. Pending' = Pending
    <2>1. Gone' = Gone
      BY <1>1 DEF Gone
    <2> QED BY <1>1, <2>1, PendingStays
  <1> QED BY <1>1, <1>10, <1>11, <1>12 DEF Abstract!vars

-----------------------------------------------------------------------------
(***************************************************************************)
(* Creation, the two ends of a mapping, and destruction.                   *)
(***************************************************************************)
\* A context that is being destroyed is gone already.
LEMMA DestroyCalm ==
  ASSUME SlotEmpty \/ SlotTaken \/ DestroyReturns \/ mmu_destroy_entry
  PROVE  UNCHANGED Abstract!vars /\ todo' = todo /\ ~InCall'
PROOF
  <1>1. /\ pc \in {"destroy", "entry"} /\ todo' = todo /\ region' = region
        /\ pc' \in {"destroy", "entry"} \/ (pc' = "idle" /\ level0_table' = NULL)
    BY DEF SlotEmpty, SlotTaken, DestroyReturns, mmu_destroy_entry, EntrySkipped, EntryIsTable,
           EntryIsPage, EntryIsBlock, EntryDone, AtEntry, request
  <1>2. Mode = "none" /\ Mode' = "none"
    BY <1>1 DEF Mode
  <1>3. Space' = Space
    BY <1>2, SameSpace
  <1>4. Pending' = Pending
    <2>1. Gone' = Gone
      BY <1>1 DEF Gone
    <2> QED BY <1>1, <2>1, PendingStays
  <1>5. ~InCall'
    BY <1>1 DEF InCall
  <1> QED BY <1>1, <1>2, <1>3, <1>4, <1>5 DEF Abstract!vars

\* A new context maps nothing.
LEMMA CreateRefines ==
  ASSUME memory_create_context, fault' = "none"
  PROVE  Abstract!Create /\ todo' = todo /\ ~InCall'
PROOF
  <1>1. /\ pc = "idle" /\ pc' = "idle" /\ level0_table = NULL /\ level0_table' = NewPage.page
        /\ NewPage.page # NULL /\ tables' = WithTable(NewPage.page, Zeroed(0))
        /\ todo' = todo /\ region' = region
    BY DEF memory_create_context, Claimed, request
  <1>2. Mode = "none" /\ Mode' = "idle"
    BY <1>1 DEF Mode
  <1>3. Context_tables' = tables' /\ tables'[level0_table'] = Zeroed(0)
    BY <1>1 DEF Context_tables, WithTable
  <1>4. ASSUME NEW va \in VAS PROVE Translate(Context_tables, va)' = UNMAPPED
    <2>1. 0 \in Levels /\ va \in Nat
      BY VasIs DEF Levels
    <2>2. Index(0, va) \in Indices(0)
      BY <2>1, IndexType
    <2>3. Read(Context_tables', level0_table', va, 0) = EMPTY_ENTRY
      BY <1>3, <2>2, HopNext DEF Read, Zeroed
    <2>4. EndsAt(Context_tables', level0_table', va, 0)
      BY <2>3, OnWalkNext DEF EndsAt, EMPTY_ENTRY, TABLE
    <2> QED BY <2>1, <2>3, <2>4, TranslateFindsNext DEF Reading, EMPTY_ENTRY
  <1>5. Space' = Space
    BY <1>2, <1>4 DEF Space
  <1>6. Pending' = Pending
    <2>1. Gone' = Gone
      BY <1>1 DEF Gone
    <2> QED BY <1>1, <2>1, PendingStays
  <1>7. ~InCall'
    BY <1>1 DEF InCall
  <1> QED BY <1>1, <1>2, <1>5, <1>6, <1>7 DEF Abstract!Create

\* The calls that memory_mmu_insert makes cover the region.
LEMMA MapRefines ==
  ASSUME NEW r \in REGIONS, RegionFits(r), memory_map_region(r)
  PROVE  Abstract!Map(r) /\ Ahead(todo', 0, ADDRESSES) /\ ~InCall'
PROOF
  <1>1. /\ pc = "idle" /\ pc' = "insert" /\ level0_table # NULL /\ level0_table' = level0_table
        /\ tables' = tables /\ region' = r /\ todo' = memory_mmu_insert(r.va, r.size)
    BY DEF memory_map_region, memory
  <1>2. r.va \in Nat /\ r.size \in 0 .. (ADDRESSES - 1) /\ r.size \in Nat /\ ADDRESSES \in Nat
    BY MmuAssumption
  <1>3. RegionFits([va |-> r.va, size |-> r.size]) /\ r.va + r.size <= ADDRESSES
    BY DEF RegionFits
  <1>4. Covers(todo', r.va, r.va + r.size)
    BY <1>1, <1>2, <1>3, InsertCovers
  <1>5. Ahead(todo', 0, ADDRESSES)
    <2>1. /\ \A i \in DOMAIN todo' :
               /\ todo'[i].count > 0 /\ todo'[i].address \in Nat /\ Last(todo'[i]) \in Nat
               /\ r.va <= todo'[i].address /\ Last(todo'[i]) <= r.va + r.size
               /\ todo'[i].level = 2 => todo'[i].address % SIZE[2] = 0
          /\ \A i, j \in DOMAIN todo' : i < j => Last(todo'[i]) <= todo'[j].address
      <3>1. \A i \in DOMAIN todo' : todo'[i] \in Calls
        BY <1>4, ElementOfSeq DEF Covers
      <3> QED BY <1>4, <3>1, CallsAre DEF Covers, Ahead
    <2>2. \A x, y \in Nat : r.va <= x /\ y <= r.va + r.size => 0 <= x /\ y <= ADDRESSES
      BY <1>2, <1>3
    <2> QED BY <2>1, <2>2 DEF Ahead
  <1>6. Mode = "idle" /\ Mode' = "mapping"
    BY <1>1 DEF Mode
  <1>7. Space' = Space
    BY <1>1, <1>6, CalmSpace
  <1>8. Pending' = r.va .. (r.va + r.size - 1)
    <2>1. Gone' = {}
      BY <1>1 DEF Gone
    <2>2. Pending' = Covered(todo') \ Gone'
      BY DEF Pending, Covered, CallPages
    <2>3. Covered(todo') = r.va .. ((r.va + r.size) - 1)
      BY <1>4 DEF Covers
    <2> QED BY <1>2, <2>1, <2>2, <2>3
  <1>9. ~InCall'
    BY <1>1 DEF InCall
  <1> QED BY <1>1, <1>5, <1>6, <1>7, <1>8, <1>9 DEF Abstract!Map

LEMMA ReturnRefines ==
  ASSUME NEW lev \in [DOMAIN tables -> Levels], Tree(lev), InsertReturns
  PROVE  Abstract!Return /\ todo' = todo /\ ~InCall'
PROOF
  <1>1. /\ pc = "insert" /\ pc' = "idle" /\ todo = <<>> /\ todo' = todo /\ region' = NO_REGION
        /\ tables' = tables /\ level0_table' = level0_table
    BY DEF InsertReturns, memory
  <1>2. level0_table # NULL
    BY <1>1 DEF Tree, Rooted
  <1>3. Mode = "mapping" /\ Mode' = "idle"
    BY <1>1, <1>2 DEF Mode
  <1>4. Space' = Space
    BY <1>1, <1>3, CalmSpace
  <1>5. Pending = {} /\ Pending' = Pending
    <2>1. Gone' = Gone
      BY <1>1 DEF Gone
    <2>2. DOMAIN todo = {}
      BY <1>1
    <2> QED BY <1>1, <2>1, <2>2, PendingStays DEF Pending
  <1>6. ~InCall'
    BY <1>1 DEF InCall
  <1> QED BY <1>1, <1>3, <1>4, <1>5, <1>6 DEF Abstract!Return, NO_REGION

LEMMA DestroyRefines ==
  ASSUME memory_destroy_context
  PROVE  Abstract!Destroy /\ todo' = todo /\ ~InCall'
PROOF
  <1>1. /\ pc = "idle" /\ pc' = "destroy" /\ level0_table # NULL
        /\ todo' = todo /\ region' = region
    BY DEF memory_destroy_context, request
  <1>2. Mode = "idle" /\ Mode' = "none"
    BY <1>1 DEF Mode
  <1>3. Space' = [va \in VAS |-> Abstract!UNMAPPED]
    BY <1>2 DEF Space, UNMAPPED, Abstract!UNMAPPED, NULL
  <1>4. Pending' = Pending
    <2>1. Gone' = Gone
      BY <1>1 DEF Gone
    <2> QED BY <1>1, <2>1, PendingStays
  <1>5. ~InCall'
    BY <1>1 DEF InCall
  <1> QED BY <1>1, <1>2, <1>3, <1>4, <1>5 DEF Abstract!Destroy

-----------------------------------------------------------------------------
(***************************************************************************)
(* Mmu implements AddressSpace.                                            *)
(***************************************************************************)
FInv == DInv /\ (fault = "none" => Following)

\* A step of the kernel.
LEMMA StepIs ==
  ASSUME Step
  PROVE  /\ fault = "none"
         /\ \/ memory_create_context
            \/ \E r \in REGIONS : memory_map_region(r)
            \/ memory_destroy_context
            \/ InsertReturns
            \/ TraverseStarts \/ TraverseEmpty \/ TraverseTable \/ SplitLinks \/ SplitFills
            \/ UnitsStart \/ UnitCreated \/ UnitOverridden \/ UnitIsTable
            \/ PageCreated \/ PageOverridden \/ UnitsDone
            \/ SlotEmpty \/ SlotTaken \/ DestroyReturns \/ mmu_destroy_entry
  BY DEF Step, Start, Continue, mmu_traverse_and_alloc_tables, mmu_map_units, memory_mmu_destroy_table

LEMMA InitFollows ==
  ASSUME Init
  PROVE  Following
PROOF
  <1>1. pc = "idle" /\ todo = <<>> /\ ~InCall
    BY DEF Init, InCall
  <1>2. DOMAIN todo = {}
    BY <1>1
  <1>3. Ahead(todo, 0, ADDRESSES)
    BY <1>2 DEF Ahead
  <1> QED BY <1>1, <1>3 DEF Following

\* What Following says is kept.
LEMMA NextFollows ==
  ASSUME \A r \in REGIONS : RegionFits(r), FInv, Step, fault' = "none"
  PROVE  Following'
PROOF
  <1>1. fault = "none" /\ TypeOK /\ Data /\ Following
    BY StepIs DEF FInv, DInv, IInv
  <1>2. PICK lev \in [DOMAIN tables -> Levels] : Tree(lev)
    BY <1>1 DEF FInv, DInv, IInv
  <1>3. Ahead(todo, 0, ADDRESSES)
    BY <1>1 DEF Following
  <1>4. CASE memory_create_context
    <2>1. todo' = todo /\ ~InCall'
      BY <1>4, CreateRefines
    <2> QED BY <1>1, <1>3, <2>1, OutsideFollows DEF Ahead, Last
  <1>5. CASE \E r \in REGIONS : memory_map_region(r)
    <2>1. Ahead(todo', 0, ADDRESSES) /\ ~InCall'
      BY <1>5, MapRefines
    <2> QED BY <1>1, <2>1, OutsideFollows
  <1>6. CASE memory_destroy_context
    <2>1. todo' = todo /\ ~InCall'
      BY <1>6, DestroyRefines
    <2> QED BY <1>1, <1>3, <2>1, OutsideFollows DEF Ahead, Last
  <1>7. CASE InsertReturns
    <2>1. todo' = todo /\ ~InCall'
      BY <1>2, <1>7, ReturnRefines
    <2> QED BY <1>1, <1>3, <2>1, OutsideFollows DEF Ahead, Last
  <1>8. CASE TraverseStarts \/ TraverseEmpty \/ TraverseTable \/ SplitLinks
    BY <1>1, <1>2, <1>8, TraverseFollows
  <1>9. CASE SplitFills
    BY <1>1, <1>2, <1>9, SplitFollows
  <1>10. CASE UnitsStart \/ UnitCreated \/ UnitOverridden \/ UnitIsTable
    BY <1>1, <1>2, <1>10, UnitsFollow
  <1>11. CASE PageCreated \/ PageOverridden
    BY <1>1, <1>2, <1>11, PagesFollow
  <1>12. CASE UnitsDone
    <2>1. Ahead(todo', 0, ADDRESSES)
      BY <1>1, <1>2, <1>12, UnitsDoneAhead
    <2>2. ~InCall'
      BY <1>12 DEF UnitsDone, InCall
    <2> QED BY <1>1, <2>1, <2>2, OutsideFollows
  <1>13. CASE SlotEmpty \/ SlotTaken \/ DestroyReturns \/ mmu_destroy_entry
    <2>1. todo' = todo /\ ~InCall'
      BY <1>13, DestroyCalm
    <2> QED BY <1>1, <1>3, <2>1, OutsideFollows DEF Ahead, Last
  <1> QED BY <1>4, <1>5, <1>6, <1>7, <1>8, <1>9, <1>10, <1>11, <1>12, <1>13, StepIs

\* Each step is one of the address space, or does not show there.
LEMMA NextRefines ==
  ASSUME MAP_TYPE = "ALLOC", \A r \in REGIONS : RegionFits(r),
         FInv, Step, fault' = "none"
  PROVE  Abstract!Next \/ UNCHANGED Abstract!vars
PROOF
  <1>1. fault = "none" /\ TypeOK /\ Data /\ Following
    BY StepIs DEF FInv, DInv, IInv
  <1>2. PICK lev \in [DOMAIN tables -> Levels] : Tree(lev)
    BY <1>1 DEF FInv, DInv, IInv
  <1>3. CASE memory_create_context
    BY <1>3, CreateRefines DEF Abstract!Next
  <1>4. CASE \E r \in REGIONS : memory_map_region(r)
    <2>1. \E r \in REGIONS : Abstract!Map(r)
      BY <1>4, MapRefines
    <2> QED BY <2>1 DEF Abstract!Next
  <1>5. CASE memory_destroy_context
    BY <1>5, DestroyRefines DEF Abstract!Next
  <1>6. CASE InsertReturns
    BY <1>2, <1>6, ReturnRefines DEF Abstract!Next
  <1>7. CASE TraverseStarts \/ TraverseTable \/ UnitsStart \/ UnitIsTable \/ UnitsDone
    BY <1>1, <1>2, <1>7, CalmRefines
  <1>8. CASE TraverseEmpty
    BY <1>1, <1>2, <1>8, TraverseEmptyRefines
  <1>9. CASE SplitLinks
    BY <1>1, <1>2, <1>9, SplitLinksRefines
  <1>10. CASE SplitFills
    BY <1>1, <1>2, <1>10, SplitFillsRefines
  <1>11. CASE UnitCreated \/ UnitOverridden \/ PageCreated \/ PageOverridden
    <2>1. \E some \in SUBSET Pending : Abstract!MapSome(some)
      BY <1>1, <1>2, <1>11, UnitCreatedRefines, UnitOverriddenRefines, PageCreatedRefines,
         PageOverriddenRefines
    <2> QED BY <2>1 DEF Abstract!Next
  <1>12. CASE SlotEmpty \/ SlotTaken \/ DestroyReturns \/ mmu_destroy_entry
    BY <1>12, DestroyCalm
  <1> QED BY <1>3, <1>4, <1>5, <1>6, <1>7, <1>8, <1>9, <1>10, <1>11, <1>12, StepIs

\* What pc, tables and calls stand for does not change if nothing does.
LEMMA StutterRefines ==
  ASSUME UNCHANGED vars
  PROVE  UNCHANGED Abstract!vars /\ (Following => Following')
PROOF
  <1>1. UNCHANGED <<tables, level0_table, pc, region, todo, walk, unit, l3_idx, block>>
    BY DEF vars, memory, request, cursor
  <1>2. Mode' = Mode /\ Context_tables' = Context_tables
    BY <1>1 DEF Mode, Context_tables
  <1>3. ASSUME NEW va \in VAS PROVE Translate(Context_tables, va)' = Translate(Context_tables, va)
    BY <1>1, <1>2, Undisturbed DEF Read
  <1>4. Space' = Space
    BY <1>2, <1>3, SameSpace
  <1>5. Pending' = Pending
    <2>1. Gone' = Gone
      BY <1>1 DEF Gone, TheCall, Idx
    <2> QED BY <1>1, <2>1, PendingStays
  <1>6. Following => Following'
    BY <1>1, Zenon DEF Following, Ahead, Last, InCall, TheCall, Idx, OnWalk, Read, Hop
  <1> QED BY <1>1, <1>2, <1>4, <1>5, <1>6 DEF Abstract!vars

\* For tables of any size, memory of any size, a search that overlooks any part
\* of it and every region that memory_mmu_insert cuts as it says: up to the first
\* fault, what mmu.c does to its tables is what AddressSpace says of the context.
\* That a step makes no mistake is not assumed but part of it: a step either is
\* one of the address space or is named by `fault`.
THEOREM MmuImplementsAddressSpace ==
  ASSUME MAP_TYPE = "ALLOC", BlocksAlign, \A r \in REGIONS : RegionFits(r)
  PROVE  Spec => RefinesAddressSpace
PROOF
  <1>1. Init => Abstract!Init
    <2> SUFFICES ASSUME Init PROVE Abstract!Init
      OBVIOUS
    <2>1. /\ level0_table = NULL /\ pc = "idle" /\ todo = <<>> /\ region.type = 0
      BY DEF Init, NO_REGION
    <2>2. Mode = "none"
      BY <2>1 DEF Mode
    <2>3. Space = [va \in VAS |-> Abstract!UNMAPPED]
      BY <2>2 DEF Space, UNMAPPED, Abstract!UNMAPPED, NULL
    <2>4. Pending = {}
      <3>1. DOMAIN todo = {}
        BY <2>1
      <3> QED BY <3>1 DEF Pending
    <2> QED BY <2>1, <2>2, <2>3, <2>4 DEF Abstract!Init
  <1>2. Init => FInv
    BY InitFollows, InitIInv, InitData DEF FInv, DInv
  <1>3. FInv /\ [Next]_vars => FInv'
    <2> SUFFICES ASSUME FInv, [Next]_vars PROVE FInv'
      OBVIOUS
    <2>1. DInv'
      BY NextData DEF FInv
    <2>2. CASE Step
      BY <2>1, <2>2, NextFollows DEF FInv
    <2>3. CASE UNCHANGED vars
      <3>1. fault' = fault
        BY <2>3 DEF vars
      <3> QED BY <2>1, <2>3, <3>1, StutterRefines DEF FInv
    <2> QED BY <2>2, <2>3 DEF Next, AfterFault, Step
  <1>4. FInv /\ [Next]_vars => [fault' = "none" => Abstract!Next]_(Abstract!vars)
    <2> SUFFICES ASSUME FInv, [Next]_vars, fault' = "none"
                 PROVE  Abstract!Next \/ UNCHANGED Abstract!vars
      OBVIOUS
    <2>1. CASE Step
      BY <2>1, NextRefines
    <2>2. CASE UNCHANGED vars
      BY <2>2, StutterRefines
    <2> QED BY <2>1, <2>2 DEF Next, AfterFault, Step
  <1> QED BY <1>1, <1>2, <1>3, <1>4, PTL DEF Spec, RefinesAddressSpace
=============================================================================
