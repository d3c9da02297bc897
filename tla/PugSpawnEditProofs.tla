------------------------- MODULE PugSpawnEditProofs -------------------------
(***************************************************************************)
(* The editor of the spawns: a mark stays on the spawn that was selected,  *)
(* and what was saved is what the deathmatch plays with, for any number of *)
(* admins, spawns and loads.  The index of a new spawn and the order that  *)
(* the spawns are saved in are choices, and exist because the indexes are  *)
(* a finite set of numbers.                                                *)
(***************************************************************************)
EXTENDS PugSpawnEdit, FiniteSetTheorems, WellFoundedInduction, TLAPS

\* A set of numbers that is not empty has a least one.
LEMMA LeastNumber ==
    ASSUME NEW T, T \subseteq Nat, T # {}
    PROVE  \E x \in T : \A y \in T : x <= y
<1>1. PICK x \in T : \A y \in T : ~(<<y, x>> \in OpToRel(<, Nat))
  BY NatLessThanWellFounded, WFMin
<1>2. ASSUME NEW y \in T PROVE x <= y
  <2>1. <<y, x>> \in Nat \X Nat /\ <<y, x>>[1] = y /\ <<y, x>>[2] = x
    OBVIOUS
  <2>2. ~(y < x)
    BY <1>1, <2>1 DEF OpToRel
  <2> QED BY <2>2
<1> QED BY <1>2

\* Indexes grow with the spawns that were ever added: there is one for the next.
IndexBound == \A i \in DOMAIN m_Spawns : i < MaxList + added

\* The index of a new spawn is free, and one more than the last.
LEMMA NewIndexIsNext ==
    ASSUME EditTypeOK, IndexBound
    PROVE  /\ NewIndex \in Index /\ NewIndex <= MaxList + added
           /\ \A j \in DOMAIN m_Spawns : j < NewIndex
<1> DEFINE above == {i \in Nat : \A j \in DOMAIN m_Spawns : j < i}
<1>0. MaxList + added \in above /\ DOMAIN m_Spawns \subseteq Nat
  BY SpawnEditAssumption DEF EditTypeOK, IndexBound, Index
<1>1. PICK i \in above : \A k \in above : i <= k
  BY <1>0, LeastNumber
<1>2. i = 0 \/ i - 1 \in DOMAIN m_Spawns
  <2> SUFFICES ASSUME i # 0, i - 1 \notin DOMAIN m_Spawns PROVE FALSE
    OBVIOUS
  <2>1. i - 1 \in Nat /\ i - 1 \notin above
    BY <1>1
  <2>2. PICK j \in DOMAIN m_Spawns : ~(j < i - 1)
    BY <2>1
  <2> QED BY <1>0, <1>1, <2>1, <2>2
<1>3. i \in Index /\ i <= MaxList + added
  BY <1>0, <1>1, SpawnEditAssumption DEF Index, EditTypeOK
<1>4. /\ NewIndex \in Index /\ \A j \in DOMAIN m_Spawns : j < NewIndex
      /\ NewIndex = 0 \/ NewIndex - 1 \in DOMAIN m_Spawns
  BY <1>1, <1>2, <1>3 DEF NewIndex
<1> QED BY <1>4, SpawnEditAssumption DEF EditTypeOK, IndexBound, Index

\* As many numbers as a finite set has, one for each: how many others come before.
LEMMA RankIsBijection ==
    ASSUME NEW D, D \subseteq Nat, IsFiniteSet(D)
    PROVE  /\ Cardinality(D) \in Nat
           /\ \A i \in D : Cardinality({j \in D : j < i}) \in 0 .. Cardinality(D) - 1
           /\ \A i, k \in D :
                 Cardinality({j \in D : j < i}) = Cardinality({j \in D : j < k}) => i = k
           /\ \A n \in 0 .. Cardinality(D) - 1 :
                 \E i \in D : Cardinality({j \in D : j < i}) = n
<1> DEFINE rank == [i \in D |-> Cardinality({j \in D : j < i})]
           ranks == 0 .. Cardinality(D) - 1
<1>0. Cardinality(D) \in Nat
  BY FS_CardinalityType
<1>1. ASSUME NEW i \in D
      PROVE  /\ IsFiniteSet({j \in D : j < i}) /\ rank[i] \in Nat
             /\ rank[i] < Cardinality(D)
  <2>1. {j \in D : j < i} \in SUBSET D /\ {j \in D : j < i} # D
    BY <1>1
  <2> HIDE DEF ranks
  <2> QED BY <1>0, <2>1, FS_Subset, FS_CardinalityType
<1>2. ASSUME NEW i \in D, NEW k \in D, i < k PROVE rank[i] < rank[k]
  <2>0. i \in {j \in D : j < k} /\ i \notin {j \in D : j < i}
    BY <1>2
  <2>1. {j \in D : j < i} \in SUBSET {j \in D : j < k}
        /\ {j \in D : j < i} # {j \in D : j < k}
    <3>1. \A j \in D : j \in Nat
      OBVIOUS
    <3>2. \A j \in D : j < i => j < k
      BY <1>2, <3>1
    <3> HIDE DEF rank, ranks
    <3> QED BY <2>0, <3>2
  <2> QED BY <1>1, <2>1, FS_Subset
<1>3. rank \in Injection(D, ranks)
  <2>1. rank \in [D -> ranks]
    BY <1>0, <1>1
  <2>2. \A i, k \in D : rank[i] = rank[k] => i = k
    <3> SUFFICES ASSUME NEW i \in D, NEW k \in D, rank[i] = rank[k], i # k PROVE FALSE
      OBVIOUS
    <3>1. i < k \/ k < i
      OBVIOUS
    <3>2. rank[i] < rank[k] \/ rank[k] < rank[i]
      BY <1>2, <3>1
    <3>3. rank[i] \in Nat /\ rank[k] \in Nat
      BY <1>1
    <3> HIDE DEF rank
    <3> QED BY <3>2, <3>3
  <2> QED BY <2>1, <2>2 DEF Injection, IsInjective
<1>4. IsFiniteSet(ranks) /\ Cardinality(ranks) = Cardinality(D)
  <2>1. \A c \in Nat : IsFiniteSet(0 .. c - 1) /\ Cardinality(0 .. c - 1) = c
    BY FS_Interval
  <2> QED BY <1>0, <2>1
<1>5. rank \in Surjection(D, ranks)
  BY <1>3, <1>4, FS_Injection
<1>6. \A i \in D : rank[i] = Cardinality({j \in D : j < i})
  OBVIOUS
<1> HIDE DEF rank, ranks
<1>7. /\ \A i \in D : rank[i] \in ranks
      /\ \A i, k \in D : rank[i] = rank[k] => i = k
      /\ \A n \in ranks : \E i \in D : rank[i] = n
  BY <1>3, <1>5 DEF Injection, IsInjective, Surjection
<1> QED BY <1>0, <1>6, <1>7 DEF ranks

\* Ordered by their indexes, the values of a function are a sequence of them all.
LEMMA InOrderHasAll ==
    ASSUME NEW S, NEW f, IsFiniteSet(DOMAIN f), DOMAIN f \subseteq Nat, f \in [DOMAIN f -> S]
    PROVE  InOrder(f) \in Seq(S) /\ ToSet(InOrder(f)) = {f[i] : i \in DOMAIN f}
<1> DEFINE D == DOMAIN f
           rank(i) == Cardinality(Before(f, i))
<1>1. /\ Cardinality(D) \in Nat
      /\ \A i \in D : rank(i) \in 0 .. Cardinality(D) - 1
      /\ \A i, k \in D : rank(i) = rank(k) => i = k
      /\ \A n \in 0 .. Cardinality(D) - 1 : \E i \in D : rank(i) = n
  BY RankIsBijection DEF Before
<1>2. \A n \in 0 .. Cardinality(D) - 1 :
         IndexAfter(f, n) \in D /\ rank(IndexAfter(f, n)) = n
  BY <1>1 DEF IndexAfter
<1>3. \A i \in D : IndexAfter(f, rank(i)) = i
  BY <1>1, <1>2
<1> HIDE DEF rank
<1>4. InOrder(f) = [n \in 1..Cardinality(D) |-> f[IndexAfter(f, n - 1)]]
  BY DEF InOrder
<1>5. \A n \in 1..Cardinality(D) : n - 1 \in 0 .. Cardinality(D) - 1
  BY <1>1
<1>6. \A n \in 1..Cardinality(D) : IndexAfter(f, n - 1) \in D
  BY <1>2, <1>5
<1>7. InOrder(f) \in Seq(S)
  <2>1. \A n \in 1..Cardinality(D) : f[IndexAfter(f, n - 1)] \in S
    BY <1>6
  <2> QED BY <1>1, <1>4, <2>1
<1>8. ASSUME NEW i \in D PROVE f[i] \in ToSet(InOrder(f))
  <2> DEFINE n == rank(i) + 1
  <2>1. n \in 1..Cardinality(D) /\ n - 1 = rank(i)
    BY <1>1
  <2>2. IndexAfter(f, n - 1) = i
    BY <1>3, <2>1
  <2> HIDE DEF n
  <2>3. n \in DOMAIN InOrder(f) /\ InOrder(f)[n] = f[i]
    BY <1>4, <2>1, <2>2
  <2> QED BY <2>3 DEF ToSet
<1>9. ASSUME NEW x \in ToSet(InOrder(f)) PROVE x \in {f[i] : i \in D}
  <2>1. PICK n \in 1..Cardinality(D) : x = f[IndexAfter(f, n - 1)]
    BY <1>4 DEF ToSet
  <2> QED BY <1>6, <2>1
<1> QED BY <1>7, <1>8, <1>9

LEMMA SpawnsAreFinite ==
    ASSUME EditTypeOK
    PROVE  IsFiniteSet(DOMAIN m_Spawns) /\ DOMAIN m_Spawns \subseteq Nat
<1>1. IsFiniteSet(Index)
  BY FS_Interval, SpawnEditAssumption DEF Index
<1>2. DOMAIN m_Spawns \in SUBSET Index /\ Index \subseteq Nat
  BY DEF EditTypeOK, Index
<1> QED BY <1>1, <1>2, FS_Subset

\* What is written to the file: a line for every spawn, those at the origin as 0.
LEMMA LinesAreSaved ==
    ASSUME EditTypeOK
    PROVE  /\ InOrder(Lines) \in Seq(Spawn \cup {0})
           /\ ToSet(InOrder(Lines)) \ {0} = {m_Spawns[i] : i \in DOMAIN m_Spawns \ atOrigin}
<1>1. DOMAIN Lines = DOMAIN m_Spawns /\ Lines \in [DOMAIN Lines -> Spawn \cup {0}]
  BY DEF Lines, EditTypeOK
<1>2. /\ InOrder(Lines) \in Seq(Spawn \cup {0})
      /\ ToSet(InOrder(Lines)) = {Lines[i] : i \in DOMAIN m_Spawns}
  BY <1>1, SpawnsAreFinite, InOrderHasAll
<1>3. \A i \in DOMAIN m_Spawns :
         /\ i \in atOrigin => Lines[i] = 0
         /\ i \notin atOrigin => Lines[i] = m_Spawns[i]
         /\ m_Spawns[i] # 0
  BY DEF Lines, EditTypeOK, Spawn
<1>4. ASSUME NEW x \in ToSet(InOrder(Lines)) \ {0}
      PROVE  x \in {m_Spawns[i] : i \in DOMAIN m_Spawns \ atOrigin}
  <2>1. PICK i \in DOMAIN m_Spawns : x = Lines[i]
    BY <1>2
  <2>2. Lines[i] # 0
    BY <1>4, <2>1
  <2>3. i \notin atOrigin /\ Lines[i] = m_Spawns[i]
    BY <1>3, <2>2
  <2> QED BY <2>1, <2>3
<1>5. ASSUME NEW i \in DOMAIN m_Spawns \ atOrigin
      PROVE  m_Spawns[i] \in ToSet(InOrder(Lines)) \ {0}
  <2>1. m_Spawns[i] = Lines[i] /\ m_Spawns[i] # 0
    BY <1>3
  <2> QED BY <1>2, <2>1
<1> QED BY <1>2, <1>4, <1>5

\* What the engine takes from the file: every line but 0 0 0.
LEMMA TakesLines ==
    ASSUME NEW lines \in Seq(Spawn \cup {0})
    PROVE  SetSpawn(lines) \in Seq(Spawn) /\ ToSet(SetSpawn(lines)) = ToSet(lines) \ {0}
<1> DEFINE D == {k \in DOMAIN lines : lines[k] # 0}
           f == [n \in D |-> lines[n]]
<1>1. IsFiniteSet(DOMAIN lines) /\ DOMAIN lines \subseteq Nat
  BY FS_Interval
<1>2. DOMAIN f = D /\ IsFiniteSet(DOMAIN f) /\ DOMAIN f \subseteq Nat
  <2>1. D \in SUBSET DOMAIN lines
    OBVIOUS
  <2> QED BY <1>1, <2>1, FS_Subset
<1>3. f \in [DOMAIN f -> Spawn]
  OBVIOUS
<1>4. SetSpawn(lines) = InOrder(f)
  BY DEF SetSpawn
<1>5. {f[n] : n \in D} = ToSet(lines) \ {0}
  BY DEF ToSet
<1> HIDE DEF f
<1>6. InOrder(f) \in Seq(Spawn) /\ ToSet(InOrder(f)) = {f[n] : n \in DOMAIN f}
  BY <1>2, <1>3, InOrderHasAll
<1> QED BY <1>2, <1>4, <1>5, <1>6
-----------------------------------------------------------------------------
\* The list of the deathmatch is bounded by what the engine has loaded, the file has what
\* was saved, and the list holds nothing else.
ListBound == Len(m_Spawn) <= MaxList
FileIsSaved == ToSet(file) \ {0} = saved
ListIsSaved == ToSet(m_Spawn) \subseteq saved

EditInv == EditTypeOK /\ IndexBound /\ ListBound /\ MarkIsTheSame

\* A step that leaves the spawns, the marks and the deathmatch alone.
LEMMA LooksOnly ==
    ASSUME EditInv, UNCHANGED <<editorVars, dmVars, added>>
    PROVE  EditInv'
BY DEF EditInv, EditTypeOK, IndexBound, ListBound, MarkIsTheSame, editorVars, dmVars

\* The deathmatch begins to load, from this file or from another.
LEMMA LoadKeeps ==
    ASSUME EditInv, Load, file' \in Seq(Spawn \cup {0}), saved' \subseteq Spawn,
           UNCHANGED <<editorVars, added>>
    PROVE  EditInv'
<1>1. m_Spawn' = <<>> /\ exec' \in 0..MaxExec
  BY SpawnEditAssumption DEF Load, Loaded, EditInv, EditTypeOK
<1>2. m_Spawn' \in Seq(Spawn) /\ Len(m_Spawn') <= MaxList
  BY <1>1, SpawnEditAssumption
<1> QED BY <1>1, <1>2
        DEF EditInv, EditTypeOK, IndexBound, ListBound, MarkIsTheSame, editorVars

\* The spawns and their entities are gone, and so are the marks.
LEMMA DiscardKeeps ==
    ASSUME EditInv, Discarded, UNCHANGED <<dmVars, added>>
    PROVE  EditInv'
<1>1. DOMAIN m_Spawns' = {} /\ m_Spawns' \in [DOMAIN m_Spawns' -> Spawn]
  BY DEF Discarded, NoSpawns
<1> QED BY <1>1
        DEF EditInv, EditTypeOK, IndexBound, ListBound, MarkIsTheSame, Discarded, dmVars

\* A refresh marks a spawn that is there, for one admin.
LEMMA RefreshMarks ==
    ASSUME NEW p \in Admin, Refresh(p),
           m_Marked \in [Admin -> Index \cup {-1}], picked \in [Admin -> Spawn \cup {0}],
           DOMAIN m_Spawns' \subseteq Index, m_Spawns' \in [DOMAIN m_Spawns' -> Spawn],
           \A q \in Admin : m_Marked[q] >= 0 =>
               m_Marked[q] \in DOMAIN m_Spawns' /\ m_Spawns'[m_Marked[q]] = picked[q]
    PROVE  /\ m_Marked' \in [Admin -> Index \cup {-1}]
           /\ picked' \in [Admin -> Spawn \cup {0}]
           /\ MarkIsTheSame'
BY DEF Refresh, MarkIsTheSame

LEMMA StepEditInv ==
    ASSUME EditInv, [Next]_editVars
    PROVE  EditInv'
<1>0. /\ EditTypeOK /\ IndexBound /\ ListBound /\ MarkIsTheSame
      /\ m_Spawns \in [DOMAIN m_Spawns -> Spawn]
      /\ Index \subseteq Nat
  BY DEF EditInv, EditTypeOK, Index
<1>1. ASSUME NEW p \in Admin, EditSpawns(p) PROVE EditInv'
  <2>1. DOMAIN GetSpawns \subseteq Index /\ GetSpawns \in [DOMAIN GetSpawns -> Spawn]
        /\ \A i \in DOMAIN GetSpawns : i < MaxList + added
    BY <1>0, SpawnEditAssumption DEF GetSpawns, ListBound, EditTypeOK, Index
  <2>2. DOMAIN NoSpawns = {}
    BY DEF NoSpawns
  <2>3. CASE m_Spawns = NoSpawns
    <3>1. \A q \in Admin : ~(m_Marked[q] >= 0)
      BY <1>0, <2>2, <2>3 DEF MarkIsTheSame
    <3>2. /\ m_Spawns' = GetSpawns /\ m_Entities' \subseteq DOMAIN m_Spawns'
          /\ atOrigin' \subseteq DOMAIN m_Spawns'
      BY <1>0, <1>1, <2>2, <2>3 DEF EditSpawns, MakeEntity, EditTypeOK
    <3> QED BY <1>0, <1>1, <2>1, <3>1, <3>2
            DEF EditSpawns, EditInv, EditTypeOK, IndexBound, ListBound, MarkIsTheSame, dmVars
  <2>4. CASE m_Spawns # NoSpawns
    <3>1. m_Spawns' = m_Spawns /\ m_Entities' \subseteq DOMAIN m_Spawns'
      BY <1>0, <1>1, <2>4 DEF EditSpawns, MakeEntity, EditTypeOK
    <3> QED BY <1>0, <1>1, <3>1
            DEF EditSpawns, EditInv, EditTypeOK, IndexBound, ListBound, MarkIsTheSame, dmVars
  <2> QED BY <2>3, <2>4
<1>2. ASSUME NEW p \in Admin, AddSpawn(p) PROVE EditInv'
  <2>1. /\ NewIndex \in Index /\ NewIndex <= MaxList + added
        /\ NewIndex \notin DOMAIN m_Spawns /\ added' \in Spawn /\ added' = added + 1
    BY <1>0, <1>2, NewIndexIsNext, SpawnEditAssumption
       DEF AddSpawn, EditTypeOK, Spawn
  <2> DEFINE new == NewIndex
  <2>2. /\ m_Spawns' = [j \in DOMAIN m_Spawns \cup {new} |->
                           IF j = new THEN added' ELSE m_Spawns[j]]
        /\ DOMAIN m_Spawns' = DOMAIN m_Spawns \cup {new}
        /\ UNCHANGED dmVars
    BY <1>2 DEF AddSpawn, Put
  <2>3. /\ DOMAIN m_Spawns' \subseteq Index /\ m_Spawns' \in [DOMAIN m_Spawns' -> Spawn]
        /\ \A j \in DOMAIN m_Spawns : m_Spawns'[j] = m_Spawns[j]
    BY <1>0, <2>1, <2>2 DEF EditTypeOK
  <2>4. m_Entities' \subseteq DOMAIN m_Spawns' /\ atOrigin' \subseteq DOMAIN m_Spawns'
    BY <1>0, <1>2, <2>2 DEF AddSpawn, MakeEntity, SetsPosition, EditTypeOK
  <2>5. IndexBound'
    BY <1>0, <2>1, <2>2, SpawnEditAssumption DEF IndexBound, EditTypeOK
  <2>6. \A q \in Admin : m_Marked[q] >= 0 =>
           m_Marked[q] \in DOMAIN m_Spawns' /\ m_Spawns'[m_Marked[q]] = picked[q]
    BY <1>0, <2>2, <2>3 DEF MarkIsTheSame
  <2>7. /\ m_Marked' \in [Admin -> Index \cup {-1}] /\ picked' \in [Admin -> Spawn \cup {0}]
        /\ MarkIsTheSame'
    <3>1. CASE Refresh(p)
      BY <1>0, <2>3, <2>6, <3>1, RefreshMarks DEF EditTypeOK
    <3>2. CASE UNCHANGED <<m_Marked, picked>>
      BY <1>0, <2>6, <3>2 DEF EditTypeOK, MarkIsTheSame
    <3> QED BY <1>2, <3>1, <3>2 DEF AddSpawn
  <2>8. added' \in 0..MaxSpawn
    BY <2>1 DEF Spawn
  <2> QED BY <1>0, <2>2, <2>3, <2>4, <2>5, <2>7, <2>8
          DEF EditInv, EditTypeOK, ListBound, dmVars
<1>3. ASSUME NEW p \in Admin, EditSpawn(p) PROVE EditInv'
  <2>1. m_Entities' \subseteq DOMAIN m_Spawns /\ atOrigin' \subseteq DOMAIN m_Spawns
    BY <1>0, <1>3 DEF EditSpawn, MakeEntity, SetsPosition, EditTypeOK
  <2> QED BY <1>0, <1>3, <2>1
          DEF EditSpawn, EditInv, EditTypeOK, IndexBound, ListBound, MarkIsTheSame, dmVars
\* Nobody has the deleted index marked any more, and the other spawns stay.
<1>4. ASSUME NEW p \in Admin, DeleteSpawn(p) PROVE EditInv'
  <2>1. CASE m_Marked[p] >= 0
    <3> DEFINE i == m_Marked[p]
    <3>1. RemoveEntity(p, i) /\ UNCHANGED <<dmVars, added>>
      BY <1>4, <2>1 DEF DeleteSpawn
    <3>2. /\ DOMAIN m_Spawns' = DOMAIN m_Spawns \ {i}
          /\ \A j \in DOMAIN m_Spawns' : m_Spawns'[j] = m_Spawns[j]
          /\ m_Spawns' \in [DOMAIN m_Spawns' -> Spawn]
      BY <1>0, <3>1 DEF RemoveEntity, Without
    <3>3. /\ m_Marked' \in [Admin -> Index \cup {-1}]
          /\ \A q \in Admin : m_Marked'[q] >= 0 => m_Marked'[q] = m_Marked[q]
                                                  /\ m_Marked[q] # i
      BY <1>0, <3>1 DEF RemoveEntity, Unmark, EditTypeOK
    <3>4. /\ picked' \in [Admin -> Spawn \cup {0}]
          /\ \A q \in Admin : m_Marked'[q] >= 0 => picked'[q] = picked[q]
      <4>1. picked' = [q \in Admin |-> IF m_Marked'[q] < 0 THEN 0 ELSE picked[q]]
        BY <3>1 DEF RemoveEntity
      <4>2. \A q \in Admin : m_Marked'[q] \in Int
        BY <1>0, <3>3
      <4>3. picked \in [Admin -> Spawn \cup {0}]
        BY <1>0 DEF EditTypeOK
      <4> QED BY <4>1, <4>2, <4>3
    <3>5. MarkIsTheSame'
      BY <1>0, <3>2, <3>3, <3>4 DEF MarkIsTheSame
    <3>6. m_Entities' \subseteq DOMAIN m_Spawns' /\ atOrigin' \subseteq DOMAIN m_Spawns'
      BY <1>0, <3>1, <3>2 DEF RemoveEntity, EditTypeOK
    <3> QED BY <1>0, <3>1, <3>2, <3>3, <3>4, <3>5, <3>6
            DEF EditInv, EditTypeOK, IndexBound, ListBound, dmVars
  <2>2. CASE ~(m_Marked[p] >= 0)
    BY <1>4, <2>2, LooksOnly DEF DeleteSpawn
  <2> QED BY <2>1, <2>2
<1>5. ASSUME NEW p \in Admin, SelectNearest(p) PROVE EditInv'
  <2>1. /\ m_Spawns' = m_Spawns /\ Refresh(p)
        /\ UNCHANGED <<atOrigin, m_Entities, dmVars, added>>
    BY <1>5 DEF SelectNearest
  <2>2. /\ m_Marked' \in [Admin -> Index \cup {-1}] /\ picked' \in [Admin -> Spawn \cup {0}]
        /\ MarkIsTheSame'
    BY <1>0, <2>1, RefreshMarks DEF EditTypeOK, MarkIsTheSame
  <2> QED BY <1>0, <2>1, <2>2 DEF EditInv, EditTypeOK, IndexBound, ListBound, dmVars
<1>6. ASSUME NEW p \in Admin,
             AddSpawnMenu(p) \/ AddSpawnCancelled(p) \/ ShowStuckedSpawns(p)
             \/ DiscardChanges(p) \/ DiscardCancelled(p) \/ PutInServer(p)
      PROVE EditInv'
  BY <1>6, LooksOnly DEF AddSpawnMenu, AddSpawnCancelled, ShowStuckedSpawns,
     DiscardChanges, DiscardCancelled, PutInServer
<1>7. ASSUME NEW p \in Admin, DiscardChangesHandle(p) PROVE EditInv'
  BY <1>7, DiscardKeeps DEF DiscardChangesHandle
<1>8. ASSUME NEW p \in Admin, Save(p) PROVE EditInv'
  <2>1. CASE UNCHANGED dmVars
    BY <1>8, <2>1, LooksOnly DEF Save
  <2>2. CASE file' = InOrder(Lines) /\ Load
             /\ saved' = {m_Spawns[i] : i \in DOMAIN m_Spawns \ atOrigin}
    <3>1. saved' \subseteq Spawn
      BY <1>0, <2>2 DEF EditTypeOK
    <3> QED BY <1>0, <1>8, <2>2, <3>1, LinesAreSaved, LoadKeeps DEF Save
  <2> QED BY <1>8, <2>1, <2>2 DEF Save
<1>9. CASE ExecRuns
  <2>1. m_Spawn' \in Seq(Spawn) /\ Len(m_Spawn') <= MaxList
    <3>1. SetSpawn(file) \in Seq(Spawn)
      BY <1>0, TakesLines DEF EditTypeOK
    <3> QED BY <1>0, <1>9, <3>1 DEF ExecRuns, EditTypeOK
  <2>2. exec' \in 0..MaxExec
    BY <1>0, <1>9, SpawnEditAssumption DEF ExecRuns, EditTypeOK
  <2> QED BY <1>0, <1>9, <2>1, <2>2
          DEF ExecRuns, EditInv, EditTypeOK, IndexBound, ListBound, MarkIsTheSame, editorVars
<1>10. CASE LevelChanges
  <2>1. DOMAIN m_Spawns' = {} /\ m_Spawns' \in [DOMAIN m_Spawns' -> Spawn]
    BY <1>10 DEF LevelChanges, Discarded, NoSpawns
  <2>2. m_Spawn' \in Seq(Spawn) /\ Len(m_Spawn') <= MaxList
    BY <1>10, SpawnEditAssumption DEF LevelChanges, Load, Loaded
  <2>3. exec' \in 0..MaxExec
    BY <1>0, <1>10, SpawnEditAssumption DEF LevelChanges, Load, EditTypeOK
  <2> QED BY <1>0, <1>10, <2>1, <2>2, <2>3
          DEF LevelChanges, Discarded, EditInv, EditTypeOK, IndexBound, ListBound,
              MarkIsTheSame
<1>11. CASE UNCHANGED editVars
  BY <1>11, LooksOnly DEF editVars
<1> QED BY <1>1, <1>2, <1>3, <1>4, <1>5, <1>6, <1>7, <1>8, <1>9, <1>10, <1>11 DEF Next

LEMMA InitEditInv == Init => EditInv
<1> SUFFICES ASSUME Init PROVE EditInv
  OBVIOUS
<1>1. DOMAIN m_Spawns = {} /\ m_Spawns \in [DOMAIN m_Spawns -> Spawn]
  BY DEF Init, NoSpawns
<1>2. file \in Seq(Spawn \cup {0}) /\ saved \subseteq Spawn
  BY SpawnEditAssumption DEF Init, Spawn
<1>3. m_Spawn \in Seq(Spawn) /\ Len(m_Spawn) <= MaxList
  BY SpawnEditAssumption DEF Init, Spawn
<1> QED BY <1>1, <1>2, <1>3, SpawnEditAssumption
        DEF Init, EditInv, EditTypeOK, IndexBound, ListBound, MarkIsTheSame

LEMMA EditInvariant == Spec => []EditInv
BY InitEditInv, StepEditInv, PTL DEF Spec

\* No entity is left without its spawn, and the index of a new spawn is a number that
\* the indexes reach, however often spawns are deleted and loaded again.
THEOREM EditTypeCorrect == Spec => []EditTypeOK
<1>1. EditInv => EditTypeOK
  BY DEF EditInv
<1> QED BY <1>1, EditInvariant, PTL

\* The mark of an admin stays on the spawn that he selected, whatever the others
\* delete and add: an index that is free again is nobody's mark.
THEOREM MarkStays == Spec => []MarkIsTheSame
<1>1. EditInv => MarkIsTheSame
  BY DEF EditInv
<1> QED BY <1>1, EditInvariant, PTL

\* A list and a file after it hold what either holds.
LEMMA ToSetOfTwo ==
    ASSUME NEW s \in Seq(Spawn), NEW t \in Seq(Spawn)
    PROVE  ToSet(s \o t) = ToSet(s) \cup ToSet(t)
<1>1. DOMAIN (s \o t) = 1..(Len(s) + Len(t))
  OBVIOUS
<1>2. \A n \in 1..(Len(s) + Len(t)) :
        (s \o t)[n] = IF n <= Len(s) THEN s[n] ELSE t[n - Len(s)]
  OBVIOUS
<1>3. ASSUME NEW x \in ToSet(s \o t) PROVE x \in ToSet(s) \cup ToSet(t)
  BY <1>1, <1>2 DEF ToSet
<1>4. ASSUME NEW x \in ToSet(s) PROVE x \in ToSet(s \o t)
  <2>1. PICK n \in DOMAIN s : x = s[n]
    BY DEF ToSet
  <2>2. n \in DOMAIN (s \o t) /\ (s \o t)[n] = x
    BY <1>1, <1>2, <2>1
  <2> QED BY <2>2 DEF ToSet
<1>5. ASSUME NEW x \in ToSet(t) PROVE x \in ToSet(s \o t)
  <2>1. PICK n \in DOMAIN t : x = t[n]
    BY DEF ToSet
  <2>2. n + Len(s) \in DOMAIN (s \o t) /\ (s \o t)[n + Len(s)] = x
    BY <1>1, <1>2, <2>1
  <2> QED BY <2>2 DEF ToSet
<1> QED BY <1>3, <1>4, <1>5

LEMMA StepSaved ==
    ASSUME EditInv, FileIsSaved, ListIsSaved, SavedSpawnsArePlayed, [Next]_editVars
    PROVE  FileIsSaved' /\ ListIsSaved' /\ SavedSpawnsArePlayed'
\* A load empties the list, and is still to be run.
<1>1. ASSUME Load PROVE ListIsSaved' /\ SavedSpawnsArePlayed'
  <2>1. ToSet(<<>>) = {}
    BY DEF ToSet
  <2>2. m_Spawn' = <<>> /\ exec' # 0
    BY <1>1 DEF Load, Loaded, EditInv, EditTypeOK
  <2> QED BY <2>1, <2>2 DEF ListIsSaved, SavedSpawnsArePlayed
<1>2. ASSUME UNCHANGED dmVars PROVE FileIsSaved' /\ ListIsSaved' /\ SavedSpawnsArePlayed'
  BY <1>2 DEF dmVars, FileIsSaved, ListIsSaved, SavedSpawnsArePlayed
\* The list has nothing but what was saved, so that running the file adds nothing else.
<1>3. CASE ExecRuns
  <2>1. m_Spawn' = m_Spawn \o SetSpawn(file) /\ UNCHANGED <<file, saved>>
    BY <1>3 DEF ExecRuns
  <2>2. SetSpawn(file) \in Seq(Spawn) /\ ToSet(SetSpawn(file)) = saved
    BY TakesLines DEF EditInv, EditTypeOK, FileIsSaved
  <2>3. ToSet(m_Spawn') = ToSet(m_Spawn) \cup saved
    BY <2>1, <2>2, ToSetOfTwo DEF EditInv, EditTypeOK
  <2> QED BY <2>1, <2>3 DEF FileIsSaved, ListIsSaved, SavedSpawnsArePlayed
\* The file is written anew, or not at all.
<1>4. ASSUME NEW p \in Admin, Save(p)
      PROVE  FileIsSaved' /\ ListIsSaved' /\ SavedSpawnsArePlayed'
  <2>1. CASE file' = InOrder(Lines) /\ Load
             /\ saved' = {m_Spawns[i] : i \in DOMAIN m_Spawns \ atOrigin}
    <3>1. FileIsSaved'
      BY <2>1, LinesAreSaved DEF FileIsSaved, EditInv
    <3> QED BY <1>1, <2>1, <3>1
  <2> QED BY <1>2, <1>4, <2>1 DEF Save
<1>5. CASE LevelChanges
  BY <1>1, <1>5 DEF LevelChanges, FileIsSaved
<1> QED BY <1>2, <1>3, <1>4, <1>5
        DEF Next, editVars, EditSpawns, AddSpawnMenu, AddSpawnCancelled, AddSpawn,
            EditSpawn, DeleteSpawn, SelectNearest, ShowStuckedSpawns, DiscardChanges,
            DiscardCancelled, DiscardChangesHandle, PutInServer

\* Once the engine has run the loads, the deathmatch plays with what was saved last,
\* however many saves, saves that fail and level changes came while others were waiting:
\* no spawn is lost between the editor, the file and the list, but those whose
\* coordinates are cut to 0 0 0.
THEOREM SavedIsPlayed == Spec => []SavedSpawnsArePlayed
<1>1. Init => FileIsSaved /\ ListIsSaved /\ SavedSpawnsArePlayed
  <2> SUFFICES ASSUME Init PROVE FileIsSaved /\ ListIsSaved /\ SavedSpawnsArePlayed
    OBVIOUS
  <2>1. ToSet(file) \ {0} = saved
    BY SpawnEditAssumption DEF Init, ToSet
  <2> QED BY <2>1 DEF Init, FileIsSaved, ListIsSaved, SavedSpawnsArePlayed, ToSet
<1>2. EditInv /\ FileIsSaved /\ ListIsSaved /\ SavedSpawnsArePlayed /\ [Next]_editVars
        => (FileIsSaved /\ ListIsSaved /\ SavedSpawnsArePlayed)'
  BY StepSaved
<1> QED BY <1>1, <1>2, EditInvariant, PTL DEF Spec
=============================================================================
