--------------------------- MODULE PugVotesProofs ---------------------------
(***************************************************************************)
(* The ballot on the teams: whoever is asked votes once, for any number of *)
(* slots and clients, although the slots change hands while it is open;    *)
(* and both shuffles leave the teams even.  Their loops are recursive      *)
(* functions: that these exist and what they keep is proved by induction   *)
(* on the steps of a loop, in the form of a set of numbers that holds 0    *)
(* and the successor of each that it holds.                                *)
(***************************************************************************)
EXTENDS PugVotes, FiniteSetTheorems, WellFoundedInduction, TLAPS

\* A client is in one slot.
InOneSlot == \A s, t \in Slot : who[s] # "nobody" /\ who[s] = who[t] => s = t

\* Who is shown an open ballot and may vote was asked, and has not voted.
MayVote ==
    m_Run => \A s \in menu \cap m_Voter :
                who[s] # "nobody" => who[s] \in roll /\ who[s] \notin voted

VotedOnce ==
    m_Run => /\ voted \subseteq roll /\ IsFiniteSet(voted)
             /\ roll # {} => AllVotes = Cardinality(voted)

VotesInv == BallotTypeOK /\ InOneSlot /\ MayVote /\ VotedOnce

LEMMA SlotsAreFinite == IsFiniteSet(Slot)
<1>1. IsFiniteSet(1..MaxClients) /\ Slot \in SUBSET (1..MaxClients)
  BY FS_Interval, VotesAssumption
<1> QED BY <1>1, FS_Subset

\* A vote is one more of one choice.
LEMMA OneMoreVote ==
    ASSUME Votes \in [Choice -> Nat], NEW c \in Choice,
           Votes' = [Votes EXCEPT ![c] = @ + 1]
    PROVE  Votes' \in [Choice -> Nat] /\ AllVotes' = AllVotes + 1
<1>1. Votes' \in [Choice -> Nat]
  OBVIOUS
<1>2. AllVotes' = AllVotes + 1
  BY DEF AllVotes, Choice
<1> QED BY <1>1, <1>2

\* A step that shows the ballot to nobody new and leaves the ballot and the clients.
LEMMA BallotStays ==
    ASSUME VotesInv, UNCHANGED <<who, ballotVars>>, menu' \subseteq menu
    PROVE  VotesInv'
BY DEF VotesInv, BallotTypeOK, InOneSlot, MayVote, VotedOnce, ballotVars, AllVotes

\* Whoever takes a slot over is not shown the ballot of the one before him.
LEMMA PutInServerKeeps ==
    ASSUME VotesInv, NEW s \in Slot, NEW p \in Person, PutInServer(p, s)
    PROVE  VotesInv'
<1>1. who' = [who EXCEPT ![s] = p] /\ menu' = menu \ {s} /\ UNCHANGED ballotVars
  BY DEF PutInServer, MenuCleared
<1>2. \A t \in Slot : who[t] # p
  BY DEF PutInServer
<1>3. BallotTypeOK' /\ InOneSlot'
  BY <1>1, <1>2 DEF VotesInv, BallotTypeOK, InOneSlot, ballotVars
<1>4. MayVote'
  BY <1>1 DEF VotesInv, BallotTypeOK, MayVote, ballotVars
<1>5. VotedOnce'
  BY <1>1 DEF VotesInv, VotedOnce, AllVotes, ballotVars
<1> QED BY <1>3, <1>4, <1>5 DEF VotesInv

LEMMA DropClientKeeps ==
    ASSUME VotesInv, NEW s \in Slot, DropClient(s)
    PROVE  VotesInv'
<1>1. who' = [who EXCEPT ![s] = "nobody"] /\ menu' = menu /\ UNCHANGED ballotVars
  BY DEF DropClient
<1>2. BallotTypeOK' /\ InOneSlot'
  BY <1>1 DEF VotesInv, BallotTypeOK, InOneSlot, ballotVars
<1>3. MayVote'
  BY <1>1 DEF VotesInv, BallotTypeOK, MayVote, ballotVars
<1>4. VotedOnce'
  BY <1>1 DEF VotesInv, VotedOnce, AllVotes, ballotVars
<1> QED BY <1>2, <1>3, <1>4 DEF VotesInv

\* A ballot asks whoever plays now, and forgets the votes of the last one.
LEMMA VoteBeginsKeeps ==
    ASSUME VotesInv, VoteBegins
    PROVE  VotesInv'
<1> DEFINE asked == GetPlayers(FALSE)
<1>1. /\ m_Run' = TRUE /\ m_VotesLeft' = Cardinality(asked) /\ m_Voter' = asked
      /\ Votes' = IF asked = {} THEN Votes ELSE [c \in Choice |-> 0]
      /\ menu' = menu \cup asked /\ roll' = {who[s] : s \in asked} /\ voted' = {}
      /\ who' = who
  BY DEF VoteBegins, Voters, clientVars
<1>2. asked \subseteq Slot /\ \A s \in asked : who[s] \in Person \ Bot
  BY DEF GetPlayers, VotesInv, BallotTypeOK
<1> HIDE DEF asked
<1>3. Votes' \in [Choice -> Nat]
  BY <1>1 DEF VotesInv, BallotTypeOK
<1>4. BallotTypeOK'
  BY <1>1, <1>2, <1>3 DEF VotesInv, BallotTypeOK
<1>5. MayVote' /\ InOneSlot'
  BY <1>1, <1>2 DEF VotesInv, MayVote, InOneSlot
<1>6. IsFiniteSet(voted') /\ Cardinality(voted') = 0
  BY <1>1, FS_EmptySet
<1>7. roll' # {} => AllVotes' = 0
  BY <1>1 DEF AllVotes, Choice
<1> QED BY <1>1, <1>4, <1>5, <1>6, <1>7 DEF VotesInv, VotedOnce

\* A vote takes the right to vote from the slot, whether or not it is the last one.
LEMMA MenuHandleKeeps ==
    ASSUME VotesInv, NEW s \in Slot, NEW choice \in Option, MenuHandle(s, choice)
    PROVE  VotesInv'
<1>0. who[s] # "nobody" /\ menu' = menu \ {s} /\ UNCHANGED <<who, roll>> /\ s \in menu
  BY DEF MenuHandle
<1>1. CASE m_Run /\ s \in m_Voter
  <2>1. /\ Votes' = [Votes EXCEPT ![choice] = @ + 1] /\ m_Voter' = m_Voter \ {s}
        /\ voted' = voted \cup {who[s]}
        /\ \/ ~m_Run' /\ m_VotesLeft' = 0
           \/ m_Run' = m_Run /\ m_VotesLeft' = m_VotesLeft - 1
    BY <1>1 DEF MenuHandle, Stop
  <2>2. choice \in Choice
    BY VotesAssumption
  <2>3. Votes' \in [Choice -> Nat] /\ AllVotes' = AllVotes + 1
    BY <2>1, <2>2, OneMoreVote DEF VotesInv, BallotTypeOK
  <2>4. IsFiniteSet(m_Voter)
    BY SlotsAreFinite, FS_Subset DEF VotesInv, BallotTypeOK
  <2>5. Cardinality(m_Voter \ {s}) = Cardinality(m_Voter) - 1
    BY <1>1, <2>4, FS_RemoveElement
  <2>6. m_Run' \in BOOLEAN
    BY <1>1 DEF MenuHandle, Stop, VotesInv, BallotTypeOK
  <2>7. m_VotesLeft' = IF m_Run' THEN Cardinality(m_Voter') ELSE 0
    BY <1>1, <2>1, <2>5 DEF VotesInv, BallotTypeOK
  <2>8. BallotTypeOK'
    BY <1>0, <2>1, <2>3, <2>6, <2>7 DEF VotesInv, BallotTypeOK
  <2>9. who[s] \in roll /\ who[s] \notin voted
    BY <1>0, <1>1 DEF VotesInv, MayVote
  <2>10. IsFiniteSet(voted') /\ Cardinality(voted') = Cardinality(voted) + 1
    BY <1>1, <2>1, <2>9, FS_AddElement DEF VotesInv, VotedOnce
  <2>11. VotedOnce'
    BY <1>0, <1>1, <2>1, <2>3, <2>9, <2>10 DEF VotesInv, VotedOnce
  <2>12. InOneSlot'
    BY <1>0 DEF VotesInv, InOneSlot
  <2>13. \A t \in menu' \cap m_Voter' : t \in Slot /\ t # s
    BY <1>0, <2>1 DEF VotesInv, BallotTypeOK
  <2>14. MayVote'
    BY <1>0, <1>1, <2>1, <2>13 DEF VotesInv, MayVote, InOneSlot
  <2> QED BY <2>8, <2>11, <2>12, <2>14 DEF VotesInv
<1>2. CASE ~(m_Run /\ s \in m_Voter)
  <2>1. UNCHANGED <<m_Run, m_Voter, m_VotesLeft, Votes, voted, side>>
    BY <1>2 DEF MenuHandle
  <2> QED BY <1>0, <2>1, BallotStays DEF ballotVars
<1> QED BY <1>1, <1>2

LEMMA VotesStep ==
    ASSUME VotesInv, [Next]_votesVars
    PROVE  VotesInv'
<1>1. ASSUME NEW s \in Slot, NEW team, JoinTeam(s, team) PROVE VotesInv'
  BY <1>1, BallotStays DEF JoinTeam
<1>2. ASSUME NEW s \in Slot, MenuIsReplaced(s) PROVE VotesInv'
  BY <1>2, BallotStays DEF MenuIsReplaced, clientVars
<1>3. CASE VoteEnds
  <2>1. /\ UNCHANGED <<who, m_Voter, Votes, menu, roll, voted>>
        /\ m_Run' = FALSE /\ m_VotesLeft' = 0
    BY <1>3 DEF VoteEnds, Stop
  <2> QED BY <2>1 DEF VotesInv, BallotTypeOK, InOneSlot, MayVote, VotedOnce
<1>4. CASE UNCHANGED votesVars
  BY <1>4, BallotStays DEF votesVars, clientVars
<1> QED BY <1>1, <1>2, <1>3, <1>4, PutInServerKeeps, DropClientKeeps, VoteBeginsKeeps,
           MenuHandleKeeps DEF Next

LEMMA VotesInit == Init => VotesInv
<1> SUFFICES ASSUME Init PROVE VotesInv
  OBVIOUS
<1> QED BY DEF Init, VotesInv, BallotTypeOK, InOneSlot, MayVote, VotedOnce

LEMMA VotesInvariant == Spec => []VotesInv
BY VotesInit, VotesStep, PTL DEF Spec

\* Whoever votes was asked and votes once: the votes are as many as the clients who
\* have voted, although a slot keeps its right to vote when it passes to another.
THEOREM EveryoneVotesOnce == Spec => []OneVoteEach
<1>1. VotesInv => OneVoteEach
  BY DEF VotesInv, VotedOnce, OneVoteEach
<1> QED BY <1>1, VotesInvariant, PTL
-----------------------------------------------------------------------------
\* A set of numbers that is not empty has a least one.
LEMMA LeastNumber ==
    ASSUME NEW T, T \subseteq Nat, T # {}
    PROVE  \E x \in T : \A y \in T : x <= y
<1>1. PICK x \in T : \A y \in T : ~(<<y, x>> \in OpToRel(<, Nat))
  BY NatLessThanWellFounded, WFMin
<1>2. ASSUME NEW y \in T PROVE x <= y
  <2>1. <<y, x>> \in Nat \X Nat /\ <<y, x>>[1] = y /\ <<y, x>>[2] = x
    OBVIOUS
  <2>2. ~(y < x)
    BY <1>1, <2>1 DEF OpToRel
  <2> QED BY <2>2
<1> QED BY <1>2

\* So a set that holds 0, and every number up to N whose predecessor it holds, holds all
\* of them.
LEMMA UpTo ==
    ASSUME NEW N \in Nat, NEW P, 0 \in P, \A n \in 1..N : n - 1 \in P => n \in P
    PROVE  \A n \in 0..N : n \in P
<1> DEFINE rest == {n \in 0..N : n \notin P}
<1>1. ASSUME rest # {} PROVE FALSE
  <2>1. PICK n \in rest : \A k \in rest : n <= k
    <3> HIDE DEF rest
    <3>1. rest \subseteq Nat
      BY DEF rest
    <3> QED BY <1>1, <3>1, LeastNumber
  <2>2. n \in 1..N /\ n - 1 \in 0..N
    OBVIOUS
  <2>3. n - 1 \in P
    BY <2>1, <2>2
  <2> QED BY <2>1, <2>2, <2>3
<1> QED BY <1>1

\* A loop from x, whose n-th step is body[n], goes through these states.
Runs(x, N, S, body) ==
    {after \in [0..N -> S] :
        after[0] = x /\ \A n \in 1..N : after[n] = body[n][after[n - 1]]}

\* A loop whose body stays in a set can be run.
LEMMA Iterated ==
    ASSUME NEW N \in Nat, NEW S, NEW x \in S, NEW body, body \in [1..N -> [S -> S]]
    PROVE  Runs(x, N, S, body) # {}
<1> DEFINE Goes(after, n) ==
               after[0] = x /\ \A k \in 1..n : after[k] = body[k][after[k - 1]]
           P == {n \in 0..N : \E after \in [0..n -> S] : Goes(after, n)}
<1>1. 0 \in P
  <2> DEFINE still == [k \in 0..0 |-> x]
  <2>1. still \in [0..0 -> S] /\ Goes(still, 0)
    OBVIOUS
  <2> HIDE DEF still, Goes
  <2> QED BY <2>1
<1>2. ASSUME NEW n \in 1..N, n - 1 \in P PROVE n \in P
  <2>1. PICK after \in [0..(n - 1) -> S] : Goes(after, n - 1)
    BY <1>2
  <2> DEFINE next == [k \in 0..n |-> IF k = n THEN body[n][after[n - 1]] ELSE after[k]]
  <2>2. after[n - 1] \in S
    BY <2>1
  <2>3. body[n][after[n - 1]] \in S
    BY <2>2
  <2>4. next \in [0..n -> S]
    BY <2>3
  <2>5. next[0] = x /\ next[n] = body[n][next[n - 1]]
    BY <2>1
  <2>6. ASSUME NEW k \in 1..n PROVE next[k] = body[k][next[k - 1]]
    BY <2>1, <2>5
  <2> HIDE DEF next
  <2>7. Goes(next, n)
    BY <2>5, <2>6
  <2> HIDE DEF Goes
  <2>8. n \in 0..N
    OBVIOUS
  <2> QED BY <2>4, <2>7, <2>8
<1>3. N \in P
  <2> HIDE DEF P
  <2>1. \A n \in 0..N : n \in P
    BY <1>1, <1>2, UpTo
  <2> QED BY <2>1
<1>4. PICK after \in [0..N -> S] : Goes(after, N)
  BY <1>3
<1>5. after \in Runs(x, N, S, body)
  BY <1>4 DEF Runs
<1> QED BY <1>5

\* What a sweep goes through: there is such a function.
LEMMA SweepGoes ==
    ASSUME NEW S, NEW todo \in S, NEW Skills, NEW best,
           \A t \in S, j \in 0..Cardinality(Slot) - 1 : Visited(t, Skills, best, j) \in S
    PROVE  \E after \in [0..Cardinality(Slot) -> S] :
              /\ after[0] = todo /\ Sweep(todo, Skills, best) = after[Cardinality(Slot)]
              /\ \A j \in 1..Cardinality(Slot) :
                    after[j] = Visited(after[j - 1], Skills, best, j - 1)
<1> DEFINE N == Cardinality(Slot)
           body == [j \in 1..N |-> [t \in S |-> Visited(t, Skills, best, j - 1)]]
           Loop(f) == [j \in 0..N |-> IF j = 0 THEN todo
                                      ELSE Visited(f[j - 1], Skills, best, j - 1)]
           after == CHOOSE f : f = Loop(f)
<1>1. N \in Nat
  BY SlotsAreFinite, FS_CardinalityType
<1>2. body \in [1..N -> [S -> S]]
  <2>1. ASSUME NEW j \in 1..N, NEW t \in S PROVE Visited(t, Skills, best, j - 1) \in S
    <3>1. j - 1 \in 0..N - 1
      BY <1>1
    <3> QED BY <3>1
  <2> QED BY <2>1
<1>3. PICK f \in Runs(todo, N, S, body) : TRUE
  <2> HIDE DEF N, body
  <2> QED BY <1>1, <1>2, Iterated
<1>4. ASSUME NEW j \in 1..N PROVE f[j] = Visited(f[j - 1], Skills, best, j - 1)
  <2>1. f[j - 1] \in S
    BY <1>1 DEF Runs
  <2> QED BY <1>3, <2>1 DEF Runs
<1>5. f = Loop(f)
  <2>1. ASSUME NEW j \in 0..N PROVE f[j] = Loop(f)[j]
    BY <1>1, <1>3, <1>4 DEF Runs
  <2> HIDE DEF N
  <2> QED BY <2>1 DEF Runs
<1>6. after = Loop(after)
  <2> HIDE DEF Loop
  <2> QED BY <1>5
<1>7. Sweep(todo, Skills, best) = after[N]
  BY DEF Sweep
<1> HIDE DEF after
<1>8. after[0] = todo /\ \A j \in 1..N : after[j] = Visited(after[j - 1], Skills, best, j - 1)
  <2>1. after[0] = todo
    BY <1>1, <1>6
  <2>2. ASSUME NEW j \in 1..N PROVE after[j] = Visited(after[j - 1], Skills, best, j - 1)
    <3>1. after[j] = Loop(after)[j]
      BY <1>6
    <3> QED BY <1>1, <3>1
  <2> QED BY <2>1, <2>2
<1>9. \A j \in 0..N : after[j] \in S
  <2> DEFINE P == {j \in 0..N : after[j] \in S}
  <2>1. 0 \in P
    BY <1>1, <1>8
  <2>2. ASSUME NEW j \in 1..N, j - 1 \in P PROVE j \in P
    <3>1. j - 1 \in 0..N - 1
      BY <1>1
    <3> QED BY <1>8, <2>2, <3>1
  <2>3. \A j \in 0..N : j \in P
    <3> HIDE DEF P, N
    <3> QED BY <1>1, <2>1, <2>2, UpTo
  <2> QED BY <2>3
<1>10. after \in [0..N -> S]
  <2>1. after = [j \in 0..N |-> after[j]]
    BY <1>6
  <2> HIDE DEF N
  <2> QED BY <1>9, <2>1
<1> QED BY <1>7, <1>8, <1>10


\* What the sweeps go through: there is such a function.
SweepRuns(todo, Skills, S) ==
    {after \in [0..MaxClients + 1 -> S] :
        /\ after[0] = todo /\ Optimized(todo, Skills) = after[MaxClients + 1]
        /\ \A i \in 1..MaxClients + 1 :
              after[i] = Sweep(after[i - 1], Skills, Sorted(Skills, i))}

LEMMA OptimizedGoes ==
    ASSUME NEW S, NEW todo \in S, NEW Skills,
           \A t \in S, i \in 1..MaxClients + 1 : Sweep(t, Skills, Sorted(Skills, i)) \in S
    PROVE  SweepRuns(todo, Skills, S) # {}
<1> DEFINE N == MaxClients + 1
           body == [i \in 1..N |-> [t \in S |-> Sweep(t, Skills, Sorted(Skills, i))]]
           Loop(f) == [i \in 0..N |-> IF i = 0 THEN todo
                                      ELSE Sweep(f[i - 1], Skills, Sorted(Skills, i))]
           after == CHOOSE f : f = Loop(f)
<1>1. N \in Nat
  BY VotesAssumption
<1>2. body \in [1..N -> [S -> S]]
  OBVIOUS
<1>3. PICK f \in Runs(todo, N, S, body) : TRUE
  <2> HIDE DEF N, body
  <2> QED BY <1>1, <1>2, Iterated
<1>4. ASSUME NEW i \in 1..N PROVE f[i] = Sweep(f[i - 1], Skills, Sorted(Skills, i))
  <2>1. f[i - 1] \in S
    BY <1>1 DEF Runs
  <2> QED BY <1>3, <2>1 DEF Runs
<1>5. f = Loop(f)
  <2>1. ASSUME NEW i \in 0..N PROVE f[i] = Loop(f)[i]
    BY <1>1, <1>3, <1>4 DEF Runs
  <2> HIDE DEF N
  <2> QED BY <2>1 DEF Runs
<1>6. after = Loop(after)
  <2> HIDE DEF Loop
  <2> QED BY <1>5
<1>7. Optimized(todo, Skills) = after[N]
  BY DEF Optimized
<1> HIDE DEF after
<1>8. /\ after[0] = todo
      /\ \A i \in 1..N : after[i] = Sweep(after[i - 1], Skills, Sorted(Skills, i))
  <2>1. after[0] = todo
    BY <1>1, <1>6
  <2>2. ASSUME NEW i \in 1..N
        PROVE  after[i] = Sweep(after[i - 1], Skills, Sorted(Skills, i))
    <3>1. after[i] = Loop(after)[i]
      BY <1>6
    <3> QED BY <1>1, <3>1
  <2> QED BY <2>1, <2>2
<1>9. \A i \in 0..N : after[i] \in S
  <2> DEFINE P == {i \in 0..N : after[i] \in S}
  <2>1. 0 \in P
    BY <1>1, <1>8
  <2>2. ASSUME NEW i \in 1..N, i - 1 \in P PROVE i \in P
    BY <1>8, <2>2
  <2>3. \A i \in 0..N : i \in P
    <3> HIDE DEF P, N
    <3> QED BY <1>1, <2>1, <2>2, UpTo
  <2> QED BY <2>3
<1>10. after \in [0..N -> S]
  <2>1. after = [i \in 0..N |-> after[i]]
    BY <1>6
  <2> HIDE DEF N
  <2> QED BY <1>9, <2>1
<1>11. after \in SweepRuns(todo, Skills, S)
  BY <1>7, <1>8, <1>10 DEF SweepRuns
<1> QED BY <1>11
-----------------------------------------------------------------------------
\* As many slots as there are have different numbers of slots before them: there is a
\* player at each place of the list.
LEMMA PlayerIsLeft ==
    ASSUME NEW left, left \subseteq Slot, NEW j \in Nat, j < Cardinality(left)
    PROVE  PlayerAt(left, j) \in left
<1> DEFINE Before(s) == {t \in left : t < s}
           rank == [s \in left |-> Cardinality(Before(s))]
           ranks == 0 .. Cardinality(left) - 1
<1>0. IsFiniteSet(left) /\ Cardinality(left) \in Nat /\ \A s \in left : s \in Nat
  <2>1. left \in SUBSET Slot
    OBVIOUS
  <2>2. IsFiniteSet(left) /\ Cardinality(left) \in Nat
    BY <2>1, SlotsAreFinite, FS_Subset, FS_CardinalityType
  <2>3. \A s \in left : s \in Nat
    BY VotesAssumption
  <2> QED BY <2>2, <2>3
<1>1. ASSUME NEW s \in left
      PROVE  /\ IsFiniteSet(Before(s)) /\ rank[s] \in Nat
             /\ rank[s] < Cardinality(left)
  <2>1. Before(s) \in SUBSET left /\ Before(s) # left
    BY <1>0, <1>1
  <2> HIDE DEF ranks
  <2> QED BY <1>0, <2>1, FS_Subset, FS_CardinalityType
<1>2. ASSUME NEW s \in left, NEW t \in left, s < t PROVE rank[s] < rank[t]
  <2>1. s \in Before(t) /\ s \notin Before(s)
    BY <1>0, <1>2
  <2>2. Before(s) \in SUBSET Before(t)
    BY <1>0, <1>2
  <2> HIDE DEF ranks, Before
  <2>3. Before(s) # Before(t)
    BY <2>1
  <2> QED BY <1>1, <2>2, <2>3, FS_Subset
<1>3. rank \in Injection(left, ranks)
  <2>1. rank \in [left -> ranks]
    BY <1>0, <1>1
  <2>2. \A s, t \in left : rank[s] = rank[t] => s = t
    <3> SUFFICES ASSUME NEW s \in left, NEW t \in left, rank[s] = rank[t], s # t
                 PROVE  FALSE
      OBVIOUS
    <3>1. s < t \/ t < s
      BY <1>0
    <3>2. rank[s] < rank[t] \/ rank[t] < rank[s]
      BY <1>2, <3>1
    <3>3. rank[s] \in Nat /\ rank[t] \in Nat
      BY <1>1
    <3> HIDE DEF rank
    <3> QED BY <3>2, <3>3
  <2> QED BY <2>1, <2>2 DEF Injection, IsInjective
<1>4. IsFiniteSet(ranks) /\ Cardinality(ranks) = Cardinality(left)
  <2>1. 0 \in Int /\ Cardinality(left) - 1 \in Int
    BY <1>0
  <2> QED BY <1>0, <2>1, FS_Interval
<1>5. rank \in Surjection(left, ranks)
  BY <1>3, <1>4, FS_Injection
<1>6. \E s \in left : Cardinality({t \in left : t < s}) = j
  <2>1. j \in ranks
    BY <1>0
  <2> QED BY <1>5, <2>1 DEF Surjection
<1> QED BY <1>6 DEF PlayerAt

\* The players who have been moved to a team.
On(t, G, team) == {s \in G \ t.left : t.side[s] = team}

\* What a shuffle goes through: whoever has left the list was put on a team, the teams
\* take turns, and the sides of everybody else are as they were.
Todo(G, first, old) ==
    {t \in [left : SUBSET G, team : Team, side : [Slot -> Team \cup {0}]] :
        /\ \A s \in Slot \ G : t.side[s] = old[s]
        /\ Cardinality(On(t, G, first))
              = Cardinality(On(t, G, Other(first))) + IF t.team = first THEN 0 ELSE 1}

LEMMA Teams == \A team \in Team : Other(team) \in Team /\ Other(team) # team
                                  /\ Other(Other(team)) = team
BY DEF Team, TERRORIST, CT, Other

\* Whoever is moved goes from the list to the team whose turn it is.
LEMMA MovedKeeps ==
    ASSUME NEW G, G \subseteq Slot, NEW first \in Team, NEW old,
           NEW t \in Todo(G, first, old), NEW j \in Nat, j < Cardinality(t.left)
    PROVE  MovedAt(t, j) \in Todo(G, first, old)
<1> DEFINE p == PlayerAt(t.left, j)
           u == MovedAt(t, j)
<1>1. /\ t \in [left : SUBSET G, team : Team, side : [Slot -> Team \cup {0}]]
      /\ \A s \in Slot \ G : t.side[s] = old[s]
      /\ Cardinality(On(t, G, first))
            = Cardinality(On(t, G, Other(first))) + IF t.team = first THEN 0 ELSE 1
  BY DEF Todo
<1>2. p \in t.left /\ p \in Slot /\ p \in G
  BY <1>1, PlayerIsLeft
<1>3. /\ u.left = t.left \ {p} /\ u.team = Other(t.team)
      /\ u.side = [t.side EXCEPT ![p] = t.team]
      /\ u \in [left : SUBSET G, team : Team, side : [Slot -> Team \cup {0}]]
  BY <1>1, <1>2, Teams DEF MovedAt
<1> HIDE DEF p, u
<1>4. /\ On(u, G, t.team) = On(t, G, t.team) \cup {p} /\ p \notin On(t, G, t.team)
      /\ On(u, G, Other(t.team)) = On(t, G, Other(t.team))
  <2>1. u.side[p] = t.team /\ \A s \in G : s # p => u.side[s] = t.side[s]
    BY <1>1, <1>2, <1>3
  <2>2. t.team # Other(t.team)
    BY <1>1, Teams
  <2> QED BY <1>2, <1>3, <2>1, <2>2 DEF On
<1>5. \A team : IsFiniteSet(On(t, G, team)) /\ Cardinality(On(t, G, team)) \in Nat
  <2> TAKE team
  <2>1. On(t, G, team) \in SUBSET Slot
    BY DEF On
  <2> QED BY <2>1, SlotsAreFinite, FS_Subset, FS_CardinalityType
<1>6. Cardinality(On(u, G, t.team)) = Cardinality(On(t, G, t.team)) + 1
  BY <1>4, <1>5, FS_AddElement
<1>7. Cardinality(On(u, G, first))
         = Cardinality(On(u, G, Other(first))) + IF u.team = first THEN 0 ELSE 1
  <2>0. Other(first) # first /\ Other(Other(first)) = first
    BY Teams
  <2>1. CASE t.team = first
    <3>1. Cardinality(On(t, G, first)) = Cardinality(On(t, G, Other(first)))
      BY <1>1, <1>5, <2>1
    <3>2. On(u, G, Other(first)) = On(t, G, Other(first)) /\ u.team # first
      BY <1>3, <1>4, <2>0, <2>1
    <3>3. Cardinality(On(u, G, first)) = Cardinality(On(t, G, first)) + 1
      BY <1>6, <2>1
    <3> QED BY <1>5, <3>1, <3>2, <3>3
  <2>2. CASE t.team = Other(first)
    <3>1. Cardinality(On(t, G, first)) = Cardinality(On(t, G, Other(first))) + 1
      BY <1>1, <2>0, <2>2
    <3>2. On(u, G, first) = On(t, G, first) /\ u.team = first
      BY <1>3, <1>4, <2>0, <2>2
    <3>3. Cardinality(On(u, G, Other(first))) = Cardinality(On(t, G, Other(first))) + 1
      BY <1>6, <2>2
    <3> QED BY <1>5, <3>1, <3>2, <3>3
  <2>3. t.team = first \/ t.team = Other(first)
    BY <1>1 DEF Team, TERRORIST, CT, Other
  <2> QED BY <2>1, <2>2, <2>3
<1>8. \A s \in Slot \ G : u.side[s] = old[s]
  BY <1>1, <1>2, <1>3
<1>9. u \in Todo(G, first, old)
  BY <1>3, <1>7, <1>8 DEF Todo
<1> QED BY <1>9 DEF u

\* So does a visit, which moves the first player who is left if his skill is the one.
LEMMA VisitedKeeps ==
    ASSUME NEW G, G \subseteq Slot, NEW first \in Team, NEW old,
           NEW t \in Todo(G, first, old), NEW Skills, NEW best, NEW j \in Nat
    PROVE  /\ Visited(t, Skills, best, j) \in Todo(G, first, old)
           /\ Visited(t, Skills, best, j).left \subseteq t.left
           /\ Skills[0] = best /\ j = 0 /\ t.left # {}
              => Visited(t, Skills, best, j).left # t.left
<1>1. t.left \subseteq G /\ t \in [left : SUBSET G, team : Team, side : [Slot -> Team \cup {0}]]
  BY DEF Todo
<1>2. ASSUME j < Cardinality(t.left)
      PROVE  /\ MovedAt(t, j) \in Todo(G, first, old)
             /\ MovedAt(t, j).left \subseteq t.left /\ MovedAt(t, j).left # t.left
  <2>1. MovedAt(t, j) \in Todo(G, first, old)
    BY <1>2, MovedKeeps
  <2>2. MovedAt(t, j).left = t.left \ {PlayerAt(t.left, j)}
    BY <1>1 DEF MovedAt
  <2>3. PlayerAt(t.left, j) \in t.left
    BY <1>1, <1>2, PlayerIsLeft
  <2> QED BY <2>1, <2>2, <2>3
<1>3. t.left # {} => 0 < Cardinality(t.left)
  <2>1. t.left \in SUBSET Slot
    BY <1>1
  <2>2. IsFiniteSet(t.left)
    BY <2>1, SlotsAreFinite, FS_Subset
  <2> QED BY <2>2, FS_EmptySet, FS_CardinalityType
<1> QED BY <1>2, <1>3 DEF Visited

\* A sweep moves players in turn, and one with the skill of the slot 0 moves the first.
LEMMA SweepKeeps ==
    ASSUME NEW G, G \subseteq Slot, NEW first \in Team, NEW old,
           NEW t \in Todo(G, first, old), NEW Skills, NEW best
    PROVE  /\ Sweep(t, Skills, best) \in Todo(G, first, old)
           /\ Sweep(t, Skills, best).left \subseteq t.left
           /\ Skills[0] = best /\ t.left # {} => Sweep(t, Skills, best).left # t.left
<1> DEFINE N == Cardinality(Slot)
           S == Todo(G, first, old)
<1>0. N \in Nat
  BY SlotsAreFinite, FS_CardinalityType
<1>1. \A u \in S, j \in 0..N - 1 : Visited(u, Skills, best, j) \in S
  <2> TAKE u \in S, j \in 0..N - 1
  <2>1. j \in Nat
    BY <1>0
  <2> QED BY <2>1, VisitedKeeps
<1>2. PICK after \in [0..N -> S] :
         /\ after[0] = t /\ Sweep(t, Skills, best) = after[N]
         /\ \A j \in 1..N : after[j] = Visited(after[j - 1], Skills, best, j - 1)
  <2> HIDE DEF S
  <2>1. t \in S
    BY DEF S
  <2> QED BY <1>1, <2>1, SweepGoes
<1> HIDE DEF S
<1>3. ASSUME NEW j \in 1..N
      PROVE  /\ after[j].left \subseteq after[j - 1].left
             /\ Skills[0] = best /\ j = 1 /\ t.left # {} => after[j].left # t.left
  <2>1. after[j - 1] \in S /\ j - 1 \in Nat
    BY <1>0, <1>2
  <2>2. after[j] = Visited(after[j - 1], Skills, best, j - 1)
    BY <1>2
  <2>3. after[j - 1] \in Todo(G, first, old)
    BY <2>1 DEF S
  <2> DEFINE u == after[j - 1]
  <2> HIDE DEF u
  <2>4. Visited(u, Skills, best, j - 1).left \subseteq u.left
    BY <2>1, <2>3, VisitedKeeps DEF u
  <2>5. ASSUME Skills[0] = best, j - 1 = 0, u.left # {}
        PROVE  Visited(u, Skills, best, j - 1).left # u.left
    <3>1. u \in Todo(G, first, old)
      BY <2>3 DEF u
    <3>2. Skills[0] = best /\ 0 = 0 /\ u.left # {} => Visited(u, Skills, best, 0).left # u.left
      BY <3>1, VisitedKeeps
    <3> QED BY <2>5, <3>2
  <2>6. j = 1 => u = t /\ j - 1 = 0
    BY <1>2 DEF u
  <2>7. after[j] = Visited(u, Skills, best, j - 1)
    BY <2>2 DEF u
  <2> QED BY <2>4, <2>5, <2>6, <2>7 DEF u
<1> DEFINE Moved(u) == Skills[0] = best /\ t.left # {} => u.left # t.left
           P == {j \in 0..N : /\ after[j].left \subseteq t.left
                              /\ j = 0 \/ Moved(after[j])}
<1>4. 0 \in P
  BY <1>0, <1>2
<1>5. ASSUME NEW j \in 1..N, j - 1 \in P PROVE j \in P
  <2>1. after[j].left \subseteq after[j - 1].left /\ after[j - 1].left \subseteq t.left
    BY <1>3, <1>5
  <2>2. CASE j = 1
    BY <1>3, <2>1, <2>2
  <2>3. CASE j # 1
    <3>1. Moved(after[j - 1])
      BY <1>0, <1>5, <2>3
    <3>2. Moved(after[j])
      BY <2>1, <3>1
    <3> QED BY <2>1, <3>2
  <2> QED BY <2>2, <2>3
<1>6. N \in P
  <2> HIDE DEF P, N
  <2>1. \A j \in 0..N : j \in P
    BY <1>0, <1>4, <1>5, UpTo
  <2> QED BY <1>0, <2>1
<1>7. t.left # {} => N # 0
  <2>1. t.left \subseteq Slot
    BY DEF Todo
  <2> QED BY <2>1, SlotsAreFinite, FS_EmptySet
<1> QED BY <1>0, <1>2, <1>6, <1>7 DEF S
-----------------------------------------------------------------------------
\* Whoever is the first player left is moved in a sweep for the skill of the slot 0.
LEMMA FirstIsMoved ==
    ASSUME NEW G, G \subseteq Slot, NEW first \in Team, NEW old,
           NEW t \in Todo(G, first, old), t.left # {}, NEW Skills, NEW best,
           Skills[0] = best
    PROVE  Sweep(t, Skills, best).left # t.left
BY SweepKeeps

\* Sets with nothing in common.
LEMMA DisjointUnion ==
    ASSUME NEW S, NEW T, IsFiniteSet(S), IsFiniteSet(T), S \cap T = {}
    PROVE  Cardinality(S \cup T) = Cardinality(S) + Cardinality(T)
<1>1. Cardinality(S \cup T) = Cardinality(S) + Cardinality(T) - Cardinality(S \cap T)
  BY FS_Union
<1>2. Cardinality(S \cap T) = 0
  BY FS_EmptySet
<1>3. Cardinality(S) \in Nat /\ Cardinality(T) \in Nat
  BY FS_CardinalityType
<1> QED BY <1>1, <1>2, <1>3

\* The places of the array of skills that are better than 0, and those that are 0.
Better(Skills) == {k \in DOMAIN Skills : Skills[k] > 0}
Zero(Skills) == {k \in DOMAIN Skills : Skills[k] = 0}

\* The skills of 0 come in a row: after the better ones, and as many as there are.
LEMMA ZerosInARow ==
    ASSUME NEW Skills \in [0..MaxClients -> Int], NEW k \in 1..Cardinality(Zero(Skills))
    PROVE  Sorted(Skills, Cardinality(Better(Skills)) + k) = 0
<1> DEFINE AtLeast(v) == {n \in DOMAIN Skills : Skills[n] >= v}
           i == Cardinality(Better(Skills)) + k
           V == {v \in Range(Skills) : Cardinality(AtLeast(v)) >= i}
<1>0. IsFiniteSet(DOMAIN Skills)
  BY FS_Interval, VotesAssumption
<1>1. /\ IsFiniteSet(Better(Skills)) /\ IsFiniteSet(Zero(Skills))
      /\ Cardinality(Better(Skills)) \in Nat /\ Cardinality(Zero(Skills)) \in Nat
  <2>1. Better(Skills) \in SUBSET DOMAIN Skills /\ Zero(Skills) \in SUBSET DOMAIN Skills
    BY DEF Better, Zero
  <2> QED BY <1>0, <2>1, FS_Subset, FS_CardinalityType
<1>2. Cardinality(AtLeast(0)) >= i
  <2>1. AtLeast(0) = Better(Skills) \cup Zero(Skills)
    BY DEF Better, Zero
  <2>2. Better(Skills) \cap Zero(Skills) = {}
    BY DEF Better, Zero
  <2> HIDE DEF AtLeast
  <2>3. Cardinality(AtLeast(0)) = Cardinality(Better(Skills)) + Cardinality(Zero(Skills))
    BY <1>1, <2>1, <2>2, DisjointUnion
  <2> QED BY <1>1, <2>3
<1>3. ASSUME NEW v \in Int, v > 0 PROVE ~(Cardinality(AtLeast(v)) >= i)
  <2>1. AtLeast(v) \in SUBSET Better(Skills)
    BY <1>3 DEF Better
  <2> HIDE DEF AtLeast
  <2>2. Cardinality(AtLeast(v)) <= Cardinality(Better(Skills))
        /\ Cardinality(AtLeast(v)) \in Nat
    BY <1>1, <2>1, FS_Subset, FS_CardinalityType
  <2> QED BY <1>1, <2>2
<1>4. 0 \in V
  <2>1. Zero(Skills) # {}
    BY <1>1, FS_EmptySet
  <2>2. 0 \in Range(Skills)
    BY <2>1 DEF Zero, Range
  <2> HIDE DEF AtLeast, i
  <2> QED BY <1>2, <2>2
<1>5. \A v \in V : v \in Int /\ ~(v > 0)
  <2>1. \A v \in Range(Skills) : v \in Int
    BY DEF Range
  <2> HIDE DEF AtLeast, i
  <2> QED BY <1>3, <2>1
<1>6. Max(V) = 0
  <2> HIDE DEF V
  <2>1. \A v \in V : 0 >= v
    BY <1>5
  <2>2. \A x \in V : (\A y \in V : x >= y) => x = 0
    BY <1>4, <1>5
  <2> QED BY <1>4, <2>1, <2>2 DEF Max
<1> QED BY <1>6 DEF Sorted

\* Every slot without a player has a skill of 0: if they are half of the array, there are
\* as many as players.
LEMMA ZerosAreEnough ==
    ASSUME NEW G, G \subseteq Slot, 2 * Cardinality(G) <= MaxClients + 1,
           NEW Skills \in [0..MaxClients -> Int],
           \A k \in (0..MaxClients) \ G : Skills[k] = 0
    PROVE  /\ Cardinality(G) \in Nat /\ Cardinality(Better(Skills)) \in Nat
           /\ Cardinality(Zero(Skills)) \in Nat
           /\ Cardinality(G) <= Cardinality(Zero(Skills))
           /\ Cardinality(Better(Skills)) + Cardinality(Zero(Skills)) <= MaxClients + 1
<1> DEFINE All == 0..MaxClients
<1>0. MaxClients \in Nat /\ \A s \in Slot : s \in 0..MaxClients
  BY VotesAssumption
<1>1. IsFiniteSet(All) /\ Cardinality(All) = MaxClients + 1
  <2>1. 0 \in Int /\ MaxClients \in Int /\ ~(0 > MaxClients)
    BY <1>0
  <2> QED BY <1>0, <2>1, FS_Interval
<1>2. G \in SUBSET Slot /\ G \in SUBSET All /\ Better(Skills) \in SUBSET All
      /\ Zero(Skills) \in SUBSET All /\ All \ G \in SUBSET Zero(Skills)
  BY <1>0 DEF Better, Zero
<1> HIDE DEF All
<1>3. IsFiniteSet(G) /\ Cardinality(G) \in Nat
  BY <1>2, SlotsAreFinite, FS_Subset, FS_CardinalityType
<1>4. /\ IsFiniteSet(Better(Skills)) /\ Cardinality(Better(Skills)) \in Nat
      /\ IsFiniteSet(Zero(Skills)) /\ Cardinality(Zero(Skills)) \in Nat
  BY <1>1, <1>2, FS_Subset, FS_CardinalityType
<1>5. Cardinality(All \ G) = Cardinality(All) - Cardinality(G)
  <2>1. All \cap G = G
    BY <1>2
  <2>2. Cardinality(All \ G) = Cardinality(All) - Cardinality(All \cap G)
    BY <1>1, FS_Difference
  <2> QED BY <2>1, <2>2
<1>6. Cardinality(All \ G) <= Cardinality(Zero(Skills))
  BY <1>2, <1>4, FS_Subset
<1>7. Cardinality(Better(Skills) \cup Zero(Skills))
         = Cardinality(Better(Skills)) + Cardinality(Zero(Skills))
  <2>1. Better(Skills) \cap Zero(Skills) = {}
    BY DEF Better, Zero
  <2> QED BY <1>4, <2>1, DisjointUnion
<1>8. Cardinality(Better(Skills) \cup Zero(Skills)) <= Cardinality(All)
  <2>1. Better(Skills) \cup Zero(Skills) \in SUBSET All
    BY <1>2
  <2> QED BY <1>1, <2>1, FS_Subset
<1> QED BY <1>0, <1>1, <1>3, <1>4, <1>5, <1>6, <1>7, <1>8

\* The sweeps move players in turn.
LEMMA OptimizedKeeps ==
    ASSUME NEW G, G \subseteq Slot, NEW first \in Team, NEW old,
           NEW todo \in Todo(G, first, old), NEW Skills
    PROVE  /\ SweepRuns(todo, Skills, Todo(G, first, old)) # {}
           /\ Optimized(todo, Skills) \in Todo(G, first, old)
<1> DEFINE S == Todo(G, first, old)
<1>1. \A t \in S, i \in 1..MaxClients + 1 : Sweep(t, Skills, Sorted(Skills, i)) \in S
  BY SweepKeeps
<1>2. todo \in S
  OBVIOUS
<1> HIDE DEF S
<1>3. SweepRuns(todo, Skills, S) # {}
  BY <1>1, <1>2, OptimizedGoes
<1>4. \A after \in SweepRuns(todo, Skills, S) : Optimized(todo, Skills) \in S
  <2>1. MaxClients + 1 \in 0..MaxClients + 1
    BY VotesAssumption
  <2> QED BY <2>1 DEF SweepRuns
<1> QED BY <1>3, <1>4 DEF S

\* Each sweep for a skill of 0 moves the first player who is left, for the slot 0 has
\* that skill: after as many of them as there are players, nobody is left.
LEMMA EveryoneIsMoved ==
    ASSUME NEW G, G \subseteq Slot, NEW first \in Team, NEW old,
           NEW todo \in Todo(G, first, old), todo.left = G,
           2 * Cardinality(G) <= MaxClients + 1, NEW Skills \in [0..MaxClients -> Int],
           \A k \in (0..MaxClients) \ G : Skills[k] = 0
    PROVE  Optimized(todo, Skills).left = {}
<1> DEFINE N == MaxClients + 1
           S == Todo(G, first, old)
           b == Cardinality(Better(Skills))
           z == Cardinality(Zero(Skills))
           g == Cardinality(G)
<1>0. N \in Nat /\ 0 \in 0..MaxClients /\ 0 \notin G
  BY VotesAssumption
<1>1. Skills[0] = 0
  BY <1>0
<1>2. g \in Nat /\ b \in Nat /\ z \in Nat /\ g <= z /\ b + z <= N
  BY ZerosAreEnough
<1>3. PICK after \in [0..N -> S] :
         /\ after[0] = todo /\ Optimized(todo, Skills) = after[N]
         /\ \A i \in 1..N : after[i] = Sweep(after[i - 1], Skills, Sorted(Skills, i))
  <2>1. PICK after \in SweepRuns(todo, Skills, S) : TRUE
    BY OptimizedKeeps
  <2> HIDE DEF S
  <2> QED BY <2>1 DEF SweepRuns
<1> HIDE DEF N, S, b, z, g
<1>4. ASSUME NEW i \in 1..N
      PROVE  /\ after[i].left \subseteq after[i - 1].left
             /\ Sorted(Skills, i) = 0 /\ after[i - 1].left # {}
                => after[i].left # after[i - 1].left
  <2> DEFINE u == after[i - 1]
             best == Sorted(Skills, i)
  <2>1. u \in S /\ after[i] = Sweep(u, Skills, best)
    BY <1>0, <1>3
  <2>2. u \in Todo(G, first, old)
    BY <2>1 DEF S
  <2> HIDE DEF u, best
  <2>3. Sweep(u, Skills, best).left \subseteq u.left
    BY <2>2, SweepKeeps
  <2>4. best = 0 /\ u.left # {} => Sweep(u, Skills, best).left # u.left
    BY <1>1, <2>2, FirstIsMoved
  <2> QED BY <2>1, <2>3, <2>4 DEF u, best
<1>5. \A i \in 0..N : after[i].left \subseteq G /\ IsFiniteSet(after[i].left)
                      /\ Cardinality(after[i].left) \in Nat
  <2> TAKE i \in 0..N
  <2>1. after[i] \in Todo(G, first, old)
    BY <1>3 DEF S
  <2>2. after[i].left \in SUBSET G /\ after[i].left \in SUBSET Slot
    BY <2>1 DEF Todo
  <2> QED BY <2>2, SlotsAreFinite, FS_Subset, FS_CardinalityType
\* After k sweeps for a skill of 0.
<1>6. \A k \in 0..z : after[b + k].left = {} \/ Cardinality(after[b + k].left) + k <= g
  <2> DEFINE P == {k \in 0..z : \/ after[b + k].left = {}
                                \/ Cardinality(after[b + k].left) + k <= g}
  <2>1. 0 \in P
    <3>1. b + 0 = b /\ b \in 0..N /\ 0 \in 0..z
      BY <1>0, <1>2
    <3>2. after[b].left \in SUBSET G /\ IsFiniteSet(G)
      <4>1. G \in SUBSET Slot
        OBVIOUS
      <4> QED BY <1>5, <3>1, <4>1, SlotsAreFinite, FS_Subset
    <3>3. Cardinality(after[b].left) <= g
      BY <3>2, FS_Subset DEF g
    <3>4. Cardinality(after[b].left) + 0 <= g
      BY <1>2, <1>5, <3>1, <3>3
    <3> QED BY <3>1, <3>4
  <2>2. ASSUME NEW k \in 1..z, k - 1 \in P PROVE k \in P
    <3> DEFINE i == b + k
               was == after[i - 1].left
               is == after[i].left
    <3>1. i \in 1..N /\ i \in 0..N /\ i - 1 \in 0..N /\ i - 1 = b + (k - 1)
      BY <1>0, <1>2
    <3>2. Sorted(Skills, i) = 0
      BY ZerosInARow DEF b, z
    <3>3. is \subseteq was /\ (was # {} => is # was)
      BY <1>4, <3>1, <3>2
    <3>4. was = {} \/ Cardinality(was) + (k - 1) <= g
      BY <2>2, <3>1
    <3>5. IsFiniteSet(was) /\ Cardinality(was) \in Nat /\ Cardinality(is) \in Nat
      BY <1>5, <3>1
    <3> HIDE DEF was, is
    <3>6. is = {} \/ Cardinality(is) < Cardinality(was)
      <4>1. is \in SUBSET was
        BY <3>3
      <4> QED BY <3>3, <3>5, <4>1, FS_Subset
    <3>7. is = {} \/ Cardinality(is) + k <= g
      <4>1. was = {} => is = {}
        BY <3>3
      <4> QED BY <1>2, <3>4, <3>5, <3>6, <4>1
    <3> QED BY <3>7 DEF is
  <2>3. \A k \in 0..z : k \in P
    <3> HIDE DEF P
    <3> QED BY <1>2, <2>1, <2>2, UpTo
  <2> QED BY <2>3
<1>7. after[b + z].left = {}
  <2>1. b + z \in 0..N /\ z \in 0..z
    BY <1>2
  <2>2. after[b + z].left = {} \/ Cardinality(after[b + z].left) + z <= g
    BY <1>6, <2>1
  <2>3. after[b + z].left = {} \/ Cardinality(after[b + z].left) = 0
    BY <1>2, <1>5, <2>1, <2>2
  <2> QED BY <1>5, <2>1, <2>3, FS_EmptySet
\* The sweeps that follow move nobody.
<1>8. after[N].left = {}
  <2> DEFINE M == N - (b + z)
             P == {k \in 0..M : after[b + z + k].left = {}}
  <2>0. M \in Nat /\ b + z + 0 = b + z /\ b + z + M = N
    BY <1>0, <1>2
  <2>1. 0 \in P
    BY <1>7, <2>0
  <2>2. ASSUME NEW k \in 1..M, k - 1 \in P PROVE k \in P
    <3>1. b + z + k \in 1..N /\ (b + z + k) - 1 = b + z + (k - 1)
      BY <1>0, <1>2
    <3>2. after[b + z + k].left \subseteq after[b + z + (k - 1)].left
      BY <1>4, <3>1
    <3> QED BY <2>2, <3>2
  <2>3. \A k \in 0..M : k \in P
    <3> HIDE DEF P, M
    <3> QED BY <2>0, <2>1, <2>2, UpTo
  <2>4. M \in P
    BY <2>0, <2>3
  <2> QED BY <2>0, <2>4
<1> QED BY <1>3, <1>8
-----------------------------------------------------------------------------
\* A shuffle of the players in G: the others keep their sides, and the teams are even.
Shuffled(G, old, new) ==
    /\ new \in [Slot -> Team \cup {0}]
    /\ \A s \in Slot \ G : new[s] = old[s]
    /\ Cardinality({s \in G : new[s] = TERRORIST})
          - Cardinality({s \in G : new[s] = CT}) \in -1..1

\* One team may be the first to be joined, and then has a player more.
LEMMA FirstHasOneMore ==
    ASSUME NEW G, G \subseteq Slot, NEW old, NEW new \in [Slot -> Team \cup {0}],
           \A s \in Slot \ G : new[s] = old[s], NEW first \in Team, NEW more \in 0..1,
           Cardinality({s \in G : new[s] = first})
              = Cardinality({s \in G : new[s] = Other(first)}) + more
    PROVE  Shuffled(G, old, new)
<1>1. \A team : Cardinality({s \in G : new[s] = team}) \in Nat
  <2> TAKE team
  <2>1. {s \in G : new[s] = team} \in SUBSET Slot
    OBVIOUS
  <2> QED BY <2>1, SlotsAreFinite, FS_Subset, FS_CardinalityType
<1> DEFINE count(team) == Cardinality({s \in G : new[s] = team})
<1>2. count(first) = count(Other(first)) + more
  OBVIOUS
<1>3. count(TERRORIST) \in Nat /\ count(CT) \in Nat
  BY <1>1
<1> HIDE DEF count
<1>4. (first = TERRORIST /\ Other(first) = CT) \/ (first = CT /\ Other(first) = TERRORIST)
  BY DEF Team, Other, TERRORIST, CT
<1>5. count(TERRORIST) = count(CT) + more \/ count(CT) = count(TERRORIST) + more
  BY <1>2, <1>4
<1>6. count(TERRORIST) - count(CT) \in -1..1
  BY <1>3, <1>5
<1> QED BY <1>6 DEF Shuffled, count

\* The places of a list, from 1, that go to the team that is first and to the other.
Odd(n) == {k \in 1..n : k % 2 = 1}
Even(n) == {k \in 1..n : k % 2 # 1}

LEMMA OddsAndEvens ==
    ASSUME NEW N \in Nat
    PROVE  /\ IsFiniteSet(Odd(N)) /\ IsFiniteSet(Even(N))
           /\ Cardinality(Even(N)) \in Nat
           /\ Cardinality(Odd(N)) = Cardinality(Even(N)) + (N % 2)
<1>1. ASSUME NEW n \in Nat
      PROVE  /\ IsFiniteSet(Odd(n)) /\ IsFiniteSet(Even(n))
             /\ Cardinality(Odd(n)) \in Nat /\ Cardinality(Even(n)) \in Nat
  <2>1. IsFiniteSet(1..n)
    BY FS_Interval
  <2>2. Odd(n) \in SUBSET (1..n) /\ Even(n) \in SUBSET (1..n)
    BY DEF Odd, Even
  <2> QED BY <2>1, <2>2, FS_Subset, FS_CardinalityType
<1> DEFINE P == {n \in 0..N : Cardinality(Odd(n)) = Cardinality(Even(n)) + (n % 2)}
<1>2. 0 \in P
  <2>1. Odd(0) = {} /\ Even(0) = {}
    BY DEF Odd, Even
  <2>2. Cardinality(Odd(0)) = 0 /\ Cardinality(Even(0)) = 0
    BY <2>1, FS_EmptySet
  <2> QED BY <2>2
<1>3. ASSUME NEW n \in 1..N, n - 1 \in P PROVE n \in P
  <2> DEFINE m == n - 1
             o == Cardinality(Odd(m))
             e == Cardinality(Even(m))
             r == m % 2
  <2>0. n \in Nat /\ m \in Nat /\ n \in 0..N
    OBVIOUS
  <2>1. o = e + r /\ o \in Nat /\ e \in Nat /\ r \in {0, 1}
    BY <1>1, <1>3, <2>0
  <2>2. n \notin Odd(m) /\ n \notin Even(m)
    BY DEF Odd, Even
  <2>3. ASSUME r = 0 PROVE Cardinality(Odd(n)) = Cardinality(Even(n)) + (n % 2)
    <3>1. Odd(n) = Odd(m) \cup {n} /\ Even(n) = Even(m) /\ n % 2 = 1
      BY <2>0, <2>3 DEF Odd, Even
    <3>2. Cardinality(Odd(n)) = o + 1
      BY <1>1, <2>0, <2>2, <3>1, FS_AddElement
    <3>3. Cardinality(Even(n)) = e
      BY <3>1
    <3> HIDE DEF o, e, r, m
    <3> QED BY <2>1, <2>3, <3>1, <3>2, <3>3
  <2>4. ASSUME r = 1 PROVE Cardinality(Odd(n)) = Cardinality(Even(n)) + (n % 2)
    <3>1. Even(n) = Even(m) \cup {n} /\ Odd(n) = Odd(m) /\ n % 2 = 0
      BY <2>0, <2>4 DEF Odd, Even
    <3>2. Cardinality(Even(n)) = e + 1
      BY <1>1, <2>0, <2>2, <3>1, FS_AddElement
    <3>3. Cardinality(Odd(n)) = o
      BY <3>1
    <3> HIDE DEF o, e, r, m
    <3> QED BY <2>1, <2>4, <3>1, <3>2, <3>3
  <2> QED BY <2>0, <2>1, <2>3, <2>4
<1>4. N \in P
  <2> HIDE DEF P
  <2>1. \A n \in 0..N : n \in P
    BY <1>2, <1>3, UpTo
  <2> QED BY <2>1
<1> QED BY <1>1, <1>4

\* The players in a random order are on one team and the other in turn.
LEMMA RandomShuffles ==
    ASSUME NEW G, G \subseteq Slot, side \in [Slot -> Team \cup {0}],
           NEW order \in SetToSeqs(G), NEW first \in Team
    PROVE  Shuffled(G, side, InTurn(order, first))
<1> DEFINE N == Cardinality(G)
           place(s) == CHOOSE n \in DOMAIN order : order[n] = s
           new == InTurn(order, first)
<1>1. IsFiniteSet(G) /\ N \in Nat
  <2>1. G \in SUBSET Slot
    OBVIOUS
  <2> QED BY <2>1, SlotsAreFinite, FS_Subset, FS_CardinalityType
<1>2. order \in [1..N -> G] /\ \A i, j \in 1..N : i # j => order[i] # order[j]
  BY DEF SetToSeqs
<1> HIDE DEF N
<1>3. order \in Surjection(1..N, G)
  <2>1. order \in Injection(1..N, G)
    BY <1>2 DEF Injection, IsInjective
  <2>2. IsFiniteSet(1..N) /\ Cardinality(1..N) = N
    BY <1>1, FS_Interval
  <2> QED BY <1>1, <2>1, <2>2, FS_Injection DEF N
<1>4. \A s \in G : place(s) \in 1..N /\ order[place(s)] = s
  <2>1. \A s \in G : \E n \in DOMAIN order : order[n] = s
    BY <1>2, <1>3 DEF Surjection
  <2> QED BY <1>2, <2>1
<1>5. \A n \in 1..N : place(order[n]) = n
  <2> TAKE n \in 1..N
  <2>1. order[n] \in G
    BY <1>2
  <2>2. place(order[n]) \in 1..N /\ order[place(order[n])] = order[n]
    BY <1>4, <2>1
  <2> HIDE DEF place
  <2> QED BY <1>2, <2>2
<1>6. ToSet(order) = G
  <2>1. \A s \in G : \E n \in DOMAIN order : order[n] = s
    BY <1>2, <1>3 DEF Surjection
  <2> QED BY <1>2, <2>1 DEF ToSet
<1>7. /\ \A s \in G : new[s] = SideAt(place(s), first)
      /\ \A s \in Slot \ G : new[s] = side[s]
  BY <1>6 DEF InTurn
<1> HIDE DEF place, new
<1>8. new \in [Slot -> Team \cup {0}]
  <2>1. \A s \in Slot : new[s] \in Team \cup {0}
    BY <1>7, Teams DEF SideAt
  <2>2. new = [s \in Slot |-> new[s]]
    BY DEF new, InTurn
  <2> QED BY <2>1, <2>2
<1> DEFINE Of(team) == {s \in G : new[s] = team}
<1>9. ASSUME NEW K, K \subseteq 1..N, NEW team, IsFiniteSet(K),
             \A n \in 1..N : n \in K <=> SideAt(n, first) = team
      PROVE  Cardinality(Of(team)) = Cardinality(K)
  <2> DEFINE f == [n \in K |-> order[n]]
  <2>1. f \in [K -> Of(team)]
    BY <1>2, <1>5, <1>7, <1>9
  <2>2. \A i, j \in K : f[i] = f[j] => i = j
    BY <1>2, <1>9
  <2>3. \A s \in Of(team) : \E n \in K : f[n] = s
    BY <1>4, <1>7, <1>9
  <2> HIDE DEF f, Of
  <2>4. f \in Bijection(K, Of(team))
    BY <2>1, <2>2, <2>3 DEF Bijection, Injection, Surjection, IsInjective
  <2>5. ExistsBijection(K, Of(team))
    BY <2>4 DEF ExistsBijection
  <2> QED BY <1>9, <2>5, FS_Bijection
<1>10. first # Other(first)
  BY Teams
<1>11. Cardinality(Of(first)) = Cardinality(Odd(N))
  <2>1. Odd(N) \subseteq 1..N
        /\ \A n \in 1..N : n \in Odd(N) <=> SideAt(n, first) = first
    BY <1>10 DEF Odd, SideAt
  <2> QED BY <1>1, <1>9, <2>1, OddsAndEvens
<1>12. Cardinality(Of(Other(first))) = Cardinality(Even(N))
  <2>1. Even(N) \subseteq 1..N
        /\ \A n \in 1..N : n \in Even(N) <=> SideAt(n, first) = Other(first)
    BY <1>10 DEF Even, SideAt
  <2> QED BY <1>1, <1>9, <2>1, OddsAndEvens
<1>13. N % 2 \in 0..1
  BY <1>1
<1>14. Cardinality(Of(first)) = Cardinality(Of(Other(first))) + (N % 2)
  BY <1>1, <1>11, <1>12, OddsAndEvens
<1>15. Shuffled(G, side, new)
  <2> DEFINE more == N % 2
  <2>1. more \in 0..1
    BY <1>13
  <2>2. Cardinality({s \in G : new[s] = first})
           = Cardinality({s \in G : new[s] = Other(first)}) + more
    <3>1. Cardinality(Of(first)) = Cardinality(Of(Other(first))) + more
      BY <1>14
    <3> HIDE DEF more
    <3> QED BY <3>1
  <2> HIDE DEF more
  <2> QED BY <1>7, <1>8, <2>1, <2>2, FirstHasOneMore
<1> QED BY <1>15 DEF new, place

\* So are the players by skill, whatever their skills are; everybody if half of the array
\* is empty.
LEMMA SkillShuffles ==
    ASSUME NEW G, G \subseteq Slot, NEW old \in [Slot -> Team \cup {0}],
           NEW skill \in [G -> Skill], NEW first \in Team
    PROVE  LET todo == [left |-> G, team |-> first, side |-> old]
               Skills == [i \in 0..MaxClients |-> IF i \in DOMAIN skill THEN skill[i] ELSE 0]
               new == Optimized(todo, Skills).side
           IN  /\ new \in [Slot -> Team \cup {0}] /\ \A s \in Slot \ G : new[s] = old[s]
               /\ 2 * Cardinality(G) <= MaxClients + 1 => Shuffled(G, old, new)
<1> DEFINE todo == [left |-> G, team |-> first, side |-> old]
           Skills == [i \in 0..MaxClients |-> IF i \in DOMAIN skill THEN skill[i] ELSE 0]
           u == Optimized(todo, Skills)
<1>1. todo \in Todo(G, first, old) /\ todo.left = G
  <2>1. \A team : On(todo, G, team) = {}
    BY DEF On
  <2>2. Cardinality(On(todo, G, first)) = 0 /\ Cardinality(On(todo, G, Other(first))) = 0
    BY <2>1, FS_EmptySet
  <2>3. todo \in [left : SUBSET G, team : Team, side : [Slot -> Team \cup {0}]]
    OBVIOUS
  <2> QED BY <2>2, <2>3 DEF Todo
<1>2. Skills \in [0..MaxClients -> Int] /\ \A k \in (0..MaxClients) \ G : Skills[k] = 0
  BY VotesAssumption
<1> HIDE DEF todo, Skills
<1>3. u \in Todo(G, first, old) /\ (2 * Cardinality(G) <= MaxClients + 1 => u.left = {})
  BY <1>1, <1>2, OptimizedKeeps, EveryoneIsMoved
<1> HIDE DEF u
<1>4. /\ u.side \in [Slot -> Team \cup {0}] /\ \A s \in Slot \ G : u.side[s] = old[s]
      /\ Cardinality(On(u, G, first))
            = Cardinality(On(u, G, Other(first))) + IF u.team = first THEN 0 ELSE 1
  BY <1>3 DEF Todo
<1>5. ASSUME 2 * Cardinality(G) <= MaxClients + 1
      PROVE  \A team : On(u, G, team) = {s \in G : u.side[s] = team}
  BY <1>3, <1>5 DEF On
<1> DEFINE more == IF u.team = first THEN 0 ELSE 1
<1>6. more \in 0..1
  OBVIOUS
<1>7. ASSUME 2 * Cardinality(G) <= MaxClients + 1
      PROVE  Cardinality({s \in G : u.side[s] = first})
                = Cardinality({s \in G : u.side[s] = Other(first)}) + more
  BY <1>4, <1>5, <1>7
<1> HIDE DEF more
<1>8. 2 * Cardinality(G) <= MaxClients + 1 => Shuffled(G, old, u.side)
  BY <1>4, <1>6, <1>7, FirstHasOneMore
<1> QED BY <1>4, <1>8 DEF u, todo, Skills
-----------------------------------------------------------------------------
\* Nobody plays in a slot that is free: so the teams are those of the players.
NobodyPlays == \A s \in Slot : who[s] = "nobody" => side[s] = 0

SidesInv == VotesInv /\ side \in [Slot -> Team \cup {0}] /\ NobodyPlays

\* The choices that shuffle the players.
LEMMA ShuffleOfPlayers ==
    ASSUME SidesInv, NEW type \in {"random", "balance"}, ChangeTeam(type)
    PROVE  /\ side' \in [Slot -> Team \cup {0}]
           /\ \A s \in Slot \ GetPlayers(TRUE) : side'[s] = side[s]
           /\ HalfIsEmpty => Shuffled(GetPlayers(TRUE), side, side')
<1>1. GetPlayers(TRUE) \subseteq Slot /\ side \in [Slot -> Team \cup {0}]
  BY DEF GetPlayers, SidesInv
<1> DEFINE G == GetPlayers(TRUE)
<1> HIDE DEF G
<1>2. CASE type = "random"
  <2>1. TeamsRamdomize
    BY <1>2 DEF ChangeTeam
  <2>2. PICK order \in SetToSeqs(G), first \in Team :
           side' = InTurn(order, first)
    BY <2>1 DEF TeamsRamdomize, G
  <2>3. Shuffled(G, side, InTurn(order, first))
    BY <1>1, RandomShuffles DEF G
  <2> QED BY <2>2, <2>3 DEF G, Shuffled
<1>3. CASE type = "balance"
  <2>1. TeamsOptimize
    BY <1>3 DEF ChangeTeam
  <2> DEFINE todo(first) == [left |-> G, team |-> first, side |-> side]
             Skills(skill) ==
                [i \in 0..MaxClients |-> IF i \in DOMAIN skill THEN skill[i] ELSE 0]
  <2>2. PICK skill \in [G -> Skill], first \in Team :
           side' = Optimized(todo(first), Skills(skill)).side
    BY <2>1 DEF TeamsOptimize, G
  <2> DEFINE new == Optimized(todo(first), Skills(skill)).side
  <2>3. /\ new \in [Slot -> Team \cup {0}] /\ \A s \in Slot \ G : new[s] = side[s]
        /\ 2 * Cardinality(G) <= MaxClients + 1 => Shuffled(G, side, new)
    <3>1. G \subseteq Slot /\ side \in [Slot -> Team \cup {0}]
      BY <1>1 DEF G
    <3>2. new = Optimized([left |-> G, team |-> first, side |-> side],
                   [i \in 0..MaxClients |-> IF i \in DOMAIN skill THEN skill[i] ELSE 0]).side
      OBVIOUS
    <3> HIDE DEF new
    <3> QED BY <3>1, <3>2, SkillShuffles
  <2> HIDE DEF new
  <2>4. side' = new
    BY <2>2 DEF new
  <2> QED BY <2>3, <2>4 DEF G, HalfIsEmpty
<1> QED BY <1>2, <1>3

\* Whatever is chosen, nobody but a player is moved, and to a team.
LEMMA ChangeTeamMovesPlayers ==
    ASSUME SidesInv, NEW type, ChangeTeam(type)
    PROVE  /\ side' \in [Slot -> Team \cup {0}]
           /\ \A s \in Slot \ GetPlayers(TRUE) : side'[s] = side[s]
<1>1. CASE type \in {"random", "balance"}
  BY <1>1, ShuffleOfPlayers
<1>2. CASE type = "swap"
  <2>1. SwapAllPlayers
    BY <1>2 DEF ChangeTeam
  <2>2. \A s \in GetPlayers(TRUE) : side[s] \in Team /\ Other(side[s]) \in Team
    BY Teams DEF GetPlayers
  <2> QED BY <2>1, <2>2 DEF SwapAllPlayers, SidesInv
<1>3. CASE type \notin {"random", "balance", "swap"}
  BY <1>3 DEF ChangeTeam, SidesInv
<1> QED BY <1>1, <1>2, <1>3

\* The end of the ballot leaves a free slot without a side.
LEMMA StopKeepsSides ==
    ASSUME SidesInv, NEW votes, Stop(votes), who' = who
    PROVE  side' \in [Slot -> Team \cup {0}] /\ NobodyPlays'
<1>1. PICK type \in Winners(votes) : ChangeTeam(type)
  BY DEF Stop
<1>2. /\ side' \in [Slot -> Team \cup {0}]
      /\ \A s \in Slot \ GetPlayers(TRUE) : side'[s] = side[s]
  BY <1>1, ChangeTeamMovesPlayers
<1>3. \A s \in Slot : who[s] = "nobody" => s \notin GetPlayers(TRUE)
  BY DEF GetPlayers
<1> QED BY <1>2, <1>3 DEF SidesInv, NobodyPlays

LEMMA SidesStep ==
    ASSUME SidesInv, [Next]_votesVars
    PROVE  SidesInv'
<1>1. VotesInv'
  BY VotesStep DEF SidesInv
<1> DEFINE Sides == side \in [Slot -> Team \cup {0}] /\ NobodyPlays
<1>2. ASSUME NEW s \in Slot, DropClient(s) PROVE Sides'
  BY <1>2 DEF DropClient, SidesInv, NobodyPlays, VotesInv, BallotTypeOK
<1>3. ASSUME NEW s \in Slot, NEW p \in Person, PutInServer(p, s) PROVE Sides'
  BY <1>3 DEF PutInServer, SidesInv, NobodyPlays, VotesInv, BallotTypeOK
<1>4. ASSUME NEW s \in Slot, NEW team \in Team \cup {0}, JoinTeam(s, team) PROVE Sides'
  BY <1>4 DEF JoinTeam, SidesInv, NobodyPlays
<1>5. ASSUME NEW s \in Slot, NEW choice \in Option, MenuHandle(s, choice) PROVE Sides'
  <2>1. who' = who /\ (Stop(Votes') \/ side' = side)
    BY <1>5 DEF MenuHandle
  <2>2. CASE Stop(Votes')
    BY <2>1, <2>2, StopKeepsSides
  <2>3. CASE side' = side
    BY <2>1, <2>3 DEF SidesInv, NobodyPlays
  <2> QED BY <2>1, <2>2, <2>3
<1>6. ASSUME VoteEnds PROVE Sides'
  BY <1>6, StopKeepsSides DEF VoteEnds
<1>7. ASSUME UNCHANGED <<who, side>> PROVE Sides'
  BY <1>7 DEF SidesInv, NobodyPlays
<1>8. ASSUME VoteBegins PROVE Sides'
  BY <1>7, <1>8 DEF VoteBegins, clientVars
<1>9. ASSUME NEW s \in Slot, MenuIsReplaced(s) PROVE Sides'
  BY <1>7, <1>9 DEF MenuIsReplaced, clientVars
<1>10. ASSUME UNCHANGED votesVars PROVE Sides'
  BY <1>7, <1>10 DEF votesVars, clientVars
<1>11. Sides'
  <2> HIDE DEF Sides
  <2> QED BY <1>2, <1>3, <1>4, <1>5, <1>6, <1>8, <1>9, <1>10 DEF Next
<1> QED BY <1>1, <1>11 DEF SidesInv

LEMMA SidesInvariant == Spec => []SidesInv
<1>1. Init => SidesInv
  BY VotesInit DEF Init, SidesInv, NobodyPlays
<1> QED BY <1>1, SidesStep, PTL DEF Spec

\* The ballot waits for as many votes as there are slots that may still vote, its lists
\* never hold a bot or a slot that does not exist, and a slot is on one of the two teams
\* or on none, whichever way the ballot changes them.
THEOREM VotesTypeCorrect == Spec => []VotesTypeOK
<1>1. SidesInv => VotesTypeOK
  BY DEF SidesInv, VotesInv, VotesTypeOK
<1> QED BY <1>1, SidesInvariant, PTL

\* What TeamsAreEven says of a step.
EvenIfShuffled ==
    m_Run /\ ~m_Run' /\ HalfIsEmpty
    /\ (\A c \in Winners(Votes') : c \in {"random", "balance"}) =>
        Cardinality({s \in Slot : side'[s] = TERRORIST})
            - Cardinality({s \in Slot : side'[s] = CT}) \in -1..1

LEMMA StopMakesEven ==
    ASSUME SidesInv, Stop(Votes'), HalfIsEmpty,
           \A c \in Winners(Votes') : c \in {"random", "balance"}
    PROVE  Cardinality({s \in Slot : side'[s] = TERRORIST})
              - Cardinality({s \in Slot : side'[s] = CT}) \in -1..1
<1> DEFINE G == GetPlayers(TRUE)
<1>1. PICK type \in Winners(Votes') : ChangeTeam(type)
  BY DEF Stop
<1>2. Shuffled(G, side, side')
  BY <1>1, ShuffleOfPlayers
<1>3. \A s \in Slot \ G : side[s] \notin Team
  BY DEF GetPlayers, SidesInv, NobodyPlays, Team, TERRORIST, CT
<1>4. \A s \in Slot \ G : side'[s] \notin Team
  BY <1>2, <1>3 DEF Shuffled
<1>5. G \subseteq Slot
  BY DEF GetPlayers
<1> HIDE DEF G
<1>6. \A team \in Team : {s \in Slot : side'[s] = team} = {s \in G : side'[s] = team}
  BY <1>4, <1>5
<1>7. /\ {s \in Slot : side'[s] = TERRORIST} = {s \in G : side'[s] = TERRORIST}
      /\ {s \in Slot : side'[s] = CT} = {s \in G : side'[s] = CT}
  BY <1>6 DEF Team
<1> QED BY <1>2, <1>7 DEF Shuffled

LEMMA EvenStep ==
    ASSUME SidesInv, [Next]_votesVars
    PROVE  EvenIfShuffled
<1> SUFFICES ASSUME m_Run, ~m_Run', HalfIsEmpty,
                    \A c \in Winners(Votes') : c \in {"random", "balance"}
             PROVE  Stop(Votes')
  BY StopMakesEven DEF EvenIfShuffled
<1>1. ASSUME NEW s \in Slot, NEW choice \in Option, MenuHandle(s, choice)
      PROVE  Stop(Votes')
  BY <1>1 DEF MenuHandle
<1>2. CASE VoteEnds
  <2>1. Stop(Votes) /\ Votes' = Votes
    BY <1>2 DEF VoteEnds
  <2> QED BY <2>1 DEF Stop, Winners
<1>3. ASSUME UNCHANGED ballotVars \/ VoteBegins PROVE FALSE
  BY <1>3 DEF ballotVars, VoteBegins
<1> QED BY <1>1, <1>2, <1>3
        DEF Next, DropClient, MenuIsReplaced, PutInServer, JoinTeam, votesVars

\* However the votes come in, and whatever the skills are, a ballot that ends with the
\* players shuffled leaves the teams even or one player apart, if half of the array of
\* skills is empty: TeamsRamdomize and TeamsOptimize move every player once, in turn,
\* although the second goes by skills that are not those of the players it finds.
THEOREM ShufflesAreEven == Spec => TeamsAreEven
<1>1. SidesInv /\ [Next]_votesVars => [EvenIfShuffled]_votesVars
  BY EvenStep
<1>2. [][EvenIfShuffled]_votesVars => TeamsAreEven
  BY PTL DEF TeamsAreEven, EvenIfShuffled
<1> QED BY <1>1, <1>2, SidesInvariant, PTL DEF Spec
=============================================================================
