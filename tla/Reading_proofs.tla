--------------------------- MODULE Reading_proofs ---------------------------
(***************************************************************************)
(* The parts that check what others wrote, one after the other.            *)
(*                                                                         *)
(* Imports of captured chats (SharedChatIngest) publish consistently:      *)
(* every committed event stands on one version of its parts, and an import *)
(* may be run again, for any number of conversations, captures, imports,   *)
(* crashes and redactions. The argument: a name, once published, keeps its *)
(* version, so what a run has compared with its own version on the way     *)
(* stays equal to it; and a run reaches the next step only past the        *)
(* comparison of the last one.                                             *)
(*                                                                         *)
(* A capture calls itself complete exactly for a forest, for any crawled   *)
(* graph: the chain of parents that comes back to itself is a set the      *)
(* roots cannot reach.                                                     *)
(*                                                                         *)
(* Agent sessions (AgentReads) stay in their packs, for any sessions,      *)
(* events and answers of retrievers and providers.                         *)
(*                                                                         *)
(* A query (Query) tells the model and answers what the mounted corpus     *)
(* says, and its receipt tells the run, for any documents, requests,       *)
(* retrievers and models. The argument: context and answer are functions   *)
(* of what was retrieved and answered, computed in one pass over a         *)
(* sequence each, and what holds of the pass before the first item and     *)
(* after each further one holds of its result.                             *)
(*                                                                         *)
(* A conversation (Conversation) quotes what was said, and its lineage     *)
(* answers with shortest walks: what the breadth-first search has queued   *)
(* and marked is a frontier of the walks so far.                           *)
(*                                                                         *)
(* A pack set (PackSet) is accepted and locked by one law: the depth-first *)
(* search raises exactly for a cycle, and a list in the order of its ids   *)
(* is unique.                                                              *)
(***************************************************************************)
EXTENDS SharedChatIngest, AgentReads, Query, Conversation, PackSet, FiniteSetTheorems,
        SequenceTheorems, WellFoundedInduction, TLAPS

-----------------------------------------------------------------------------
(***************************************************************************)
(* Recursive functions on 0..N: chains of parents, what is reached in so   *)
(* many steps, and passes over a sequence, by their values after n items.  *)
(* What holds at the start and after each further step holds at the end.   *)
(***************************************************************************)

\* A set of numbers with an element has a least one.
LEMMA LeastNumber ==
  ASSUME NEW T \in SUBSET Nat, T # {}
  PROVE  \E m \in T : \A n \in T : m <= n
<1>1. PICK R : IsWellFoundedOn(R, Nat) /\ \A m, n \in Nat : n < m => <<n, m>> \in R
  <2> DEFINE R == OpToRel(<, Nat)
  <2>1. IsWellFoundedOn(R, Nat)
    BY NatLessThanWellFounded
  <2>2. \A m, n \in Nat : n < m => <<n, m>> \in R
    BY DEF OpToRel
  <2> QED BY <2>1, <2>2
<1>2. PICK m \in T : \A n \in T : <<n, m>> \notin R
  BY <1>1, WFMin
<1>3. ASSUME NEW n \in T PROVE m <= n
  <2>1. ~(n < m)
    BY <1>1, <1>2
  <2> QED BY <2>1
<1> QED BY <1>3

\* A set with i, and with n + 1 when it has n, has all numbers from i to N.
LEMMA Onwards ==
  ASSUME NEW N \in Nat, NEW i \in 0..N, NEW T, i \in T,
         \A n \in i..N : n \in T /\ n < N => n + 1 \in T
  PROVE  i..N \subseteq T
<1> SUFFICES ASSUME ~(i..N \subseteq T) PROVE FALSE
  OBVIOUS
<1> DEFINE Out == {n \in i..N : n \notin T}
<1>1. PICK m \in Out : \A n \in Out : m <= n
  <2>1. Out \in SUBSET Nat /\ Out # {}
    OBVIOUS
  <2> QED BY <2>1, LeastNumber
<1>2. m # i /\ m - 1 \in i..N /\ m - 1 < N
  OBVIOUS
<1>3. m - 1 \in T
  <2>1. m - 1 \notin Out
    BY <1>1, <1>2
  <2> QED BY <2>1, <1>2
<1> QED BY <1>2, <1>3

\* A set with 0, and with n + 1 when it has n, has all numbers up to a bound.
LEMMA Upwards ==
  ASSUME NEW N \in Nat, NEW T, 0 \in T, \A n \in 0..N : n \in T /\ n < N => n + 1 \in T
  PROVE  0..N \subseteq T
<1>1. 0 \in 0..N
  OBVIOUS
<1> QED BY <1>1, Onwards

-----------------------------------------------------------------------------
(***************************************************************************)
(* A finite set in the order of its keys                                   *)
(***************************************************************************)

Keyed(S, key) ==
  /\ IsFiniteSet(S) /\ key \in [S -> Int]
  /\ \A x, y \in S : key[x] = key[y] => x = y

LEMMA Places ==
  ASSUME NEW S, NEW key, Keyed(S, key)
  PROVE  /\ \A x \in S : Place(S, key, x) \in 1..Cardinality(S)
         /\ \A x, y \in S : key[x] < key[y] => Place(S, key, x) < Place(S, key, y)
         /\ \A i \in 1..Cardinality(S) : \E x \in S : Place(S, key, x) = i
<1>1. ASSUME NEW x \in S
      PROVE  /\ IsFiniteSet({y \in S : key[y] <= key[x]})
             /\ Place(S, key, x) \in 1..Cardinality(S)
  <2> DEFINE T == {y \in S : key[y] <= key[x]}
  <2>1. T \in SUBSET S /\ x \in T
    BY DEF Keyed
  <2>2. IsFiniteSet(T) /\ Cardinality(T) <= Cardinality(S)
    BY <2>1, FS_Subset DEF Keyed
  <2>3. Cardinality(T) \in Nat /\ Cardinality(S) \in Nat /\ Cardinality(T) # 0
    BY <2>1, <2>2, FS_CardinalityType, FS_EmptySet DEF Keyed
  <2> QED BY <2>2, <2>3 DEF Place
<1>2. ASSUME NEW x \in S, NEW y \in S, key[x] < key[y]
      PROVE  Place(S, key, x) < Place(S, key, y)
  <2> DEFINE T == {z \in S : key[z] <= key[x]}
             U == {z \in S : key[z] <= key[y]}
  <2>1. T \in SUBSET U /\ y \in U /\ y \notin T
    BY <1>2 DEF Keyed
  <2>2. IsFiniteSet(T) /\ IsFiniteSet(U)
    BY <1>1
  <2>3. /\ Cardinality(T) \in Nat /\ Cardinality(U) \in Nat
        /\ Cardinality(T) <= Cardinality(U) /\ Cardinality(T) # Cardinality(U)
    BY <2>1, <2>2, FS_Subset, FS_CardinalityType
  <2> QED BY <2>3 DEF Place
<1>3. ASSUME NEW i \in 1..Cardinality(S) PROVE \E x \in S : Place(S, key, x) = i
  <2> DEFINE f == [x \in S |-> Place(S, key, x)]
             D == 1..Cardinality(S)
  <2>1. Cardinality(S) \in Nat /\ IsFiniteSet(S)
    BY FS_CardinalityType DEF Keyed
  <2>2. IsFiniteSet(D) /\ Cardinality(D) = Cardinality(S)
    BY <2>1, FS_Interval
  <2>3. f \in [S -> D]
    BY <1>1
  <2>4. ASSUME NEW x \in S, NEW y \in S, f[x] = f[y] PROVE x = y
    <3>1. Place(S, key, x) = Place(S, key, y)
      BY <2>4
    <3>2. key[x] \in Int /\ key[y] \in Int /\ Place(S, key, x) \in Nat
      <4>1. Place(S, key, x) \in 1..Cardinality(S)
        BY <1>1
      <4> QED BY <2>1, <4>1 DEF Keyed
    <3>3. ~(key[x] < key[y]) /\ ~(key[y] < key[x])
      BY <1>2, <3>1, <3>2
    <3> QED BY <3>2, <3>3 DEF Keyed
  <2>5. f \in Injection(S, D)
    BY <2>3, <2>4 DEF Injection, IsInjective
  <2>6. f \in Surjection(S, D)
    BY <2>2, <2>5, FS_Injection
  <2> QED BY <2>6 DEF Surjection
<1> QED BY <1>1, <1>2, <1>3

\* s lists S in the order of key.
Lists(s, S, key) ==
  /\ Cardinality(S) \in Nat /\ s \in Seq(S)
  /\ Len(s) = Cardinality(S) /\ DOMAIN s = 1..Cardinality(S)
  /\ \A x \in S : \E i \in 1..Cardinality(S) : s[i] = x
  /\ \A i, j \in 1..Cardinality(S) : i < j => key[s[i]] < key[s[j]]

LEMMA InOrderLists ==
  ASSUME NEW S, NEW key, Keyed(S, key)
  PROVE  Lists(InOrder(S, key), S, key)
<1> DEFINE n == Cardinality(S)
           s == InOrder(S, key)
           Nth(i) == CHOOSE x \in S : Place(S, key, x) = i
<1>1. n \in Nat
  BY FS_CardinalityType DEF Keyed
<1>2. s = [i \in 1..n |-> Nth(i)]
  BY DEF InOrder
<1>3. ASSUME NEW i \in 1..n PROVE s[i] \in S /\ Place(S, key, s[i]) = i
  <2>1. \E x \in S : Place(S, key, x) = i
    BY Places
  <2>2. Nth(i) \in S /\ Place(S, key, Nth(i)) = i
    BY <2>1
  <2> QED BY <1>2, <2>2
<1>4. s \in [1..n -> S]
  BY <1>2, <1>3
<1>5. s \in Seq(S) /\ Len(s) = n /\ DOMAIN s = 1..n
  BY <1>1, <1>4
<1>6. ASSUME NEW x \in S, NEW y \in S, Place(S, key, x) <= Place(S, key, y) PROVE key[x] <= key[y]
  <2>1. /\ key[y] < key[x] => Place(S, key, y) < Place(S, key, x)
        /\ Place(S, key, x) \in 1..n /\ Place(S, key, y) \in 1..n
    BY Places
  <2>2. Place(S, key, x) \in Nat /\ Place(S, key, y) \in Nat /\ key[x] \in Int /\ key[y] \in Int
    BY <1>1, <2>1 DEF Keyed
  <2> QED BY <1>6, <2>1, <2>2
<1> HIDE DEF s, n
<1>7. ASSUME NEW x \in S PROVE \E i \in 1..n : s[i] = x
  <2>1. Place(S, key, x) \in 1..n
    BY Places DEF n
  <2>2. PICK i \in 1..n : i = Place(S, key, x)
    BY <2>1
  <2>3. s[i] \in S /\ Place(S, key, s[i]) = Place(S, key, x)
    BY <1>3, <2>2
  <2>4. Place(S, key, x) \in Nat
    BY <1>1, <2>1
  <2>5. key[s[i]] <= key[x] /\ key[x] <= key[s[i]]
    BY <1>6, <2>3, <2>4
  <2>6. key[s[i]] = key[x]
    BY <2>3, <2>5 DEF Keyed
  <2> QED BY <2>3, <2>6 DEF Keyed
<1>8. ASSUME NEW i \in 1..n, NEW j \in 1..n, i < j PROVE key[s[i]] < key[s[j]]
  <2>1. /\ s[i] \in S /\ s[j] \in S /\ Place(S, key, s[i]) = i /\ Place(S, key, s[j]) = j
    BY <1>3
  <2>2. key[s[i]] <= key[s[j]]
    BY <1>1, <1>6, <1>8, <2>1
  <2>3. key[s[i]] # key[s[j]]
    <3> SUFFICES ASSUME key[s[i]] = key[s[j]] PROVE FALSE
      OBVIOUS
    <3>1. s[i] = s[j]
      BY <2>1 DEF Keyed
    <3> QED BY <1>1, <1>8, <2>1, <3>1
  <2> QED BY <2>1, <2>2, <2>3 DEF Keyed
<1>9. Lists(s, S, key)
  BY <1>1, <1>5, <1>7, <1>8 DEF Lists, n
<1> QED BY <1>9 DEF s

\* There is no other list of a set in the order of its keys.
LEMMA ListsIsInOrder ==
  ASSUME NEW S, NEW key, Keyed(S, key), NEW s, Lists(s, S, key)
  PROVE  s = InOrder(S, key)
<1> DEFINE n == Cardinality(S)
<1>1. /\ n \in Nat /\ s \in Seq(S) /\ Len(s) = n /\ DOMAIN s = 1..n
      /\ \A x \in S : \E i \in 1..n : s[i] = x
      /\ \A i, j \in 1..n : i < j => key[s[i]] < key[s[j]]
      /\ \A i \in 1..n : s[i] \in S
      /\ \A x \in S : key[x] \in Int
  BY DEF Lists, Keyed
<1> HIDE DEF n
<1>2. ASSUME NEW i \in 1..n PROVE Place(S, key, s[i]) = i
  <2> DEFINE T == {y \in S : key[y] <= key[s[i]]}
             D == 1..i
             f == [j \in D |-> s[j]]
  <2>1. ASSUME NEW j \in 1..n PROVE s[j] \in T <=> j <= i
    <3>1. /\ j < i => key[s[j]] < key[s[i]]
          /\ i < j => key[s[i]] < key[s[j]]
          /\ key[s[i]] \in Int /\ key[s[j]] \in Int /\ s[j] \in S
      BY <1>1
    <3>2. CASE j <= i
      <4>1. j < i \/ j = i
        BY <1>1, <3>2
      <4> QED BY <3>1, <3>2, <4>1
    <3>3. CASE ~(j <= i)
      <4>1. i < j
        BY <1>1, <3>3
      <4> QED BY <3>1, <3>3, <4>1
    <3> QED BY <3>2, <3>3
  <2>2. \A j \in D : j \in 1..n /\ j <= i /\ f[j] = s[j]
    BY <1>1
  <2>3. f \in [D -> T]
    BY <2>1, <2>2
  <2>4. \A y \in T : \E j \in D : f[j] = y
    <3> SUFFICES ASSUME NEW y \in T PROVE \E j \in D : f[j] = y
      OBVIOUS
    <3>1. PICK j \in 1..n : s[j] = y
      BY <1>1
    <3>2. j <= i
      BY <2>1, <3>1
    <3>3. j \in D
      BY <1>1, <3>2
    <3> QED BY <2>2, <3>1, <3>3
  <2>5. \A j, k \in D : f[j] = f[k] => j = k
    <3> SUFFICES ASSUME NEW j \in D, NEW k \in D, f[j] = f[k] PROVE j = k
      OBVIOUS
    <3>1. j \in 1..n /\ k \in 1..n /\ s[j] = s[k] /\ key[s[j]] \in Int
      BY <1>1, <2>2
    <3>2. ~(j < k) /\ ~(k < j)
      BY <1>1, <3>1
    <3> QED BY <1>1, <3>1, <3>2
  <2>6. IsFiniteSet(D) /\ Cardinality(D) = i
    BY <1>1, FS_Interval
  <2> HIDE DEF f, D, T
  <2>7. f \in Surjection(D, T) /\ f \in Injection(D, T)
    BY <2>3, <2>4, <2>5 DEF Surjection, Injection, IsInjective
  <2>8. Cardinality(T) = i
    BY <2>6, <2>7, FS_Surjection
  <2> QED BY <2>8 DEF Place, T
<1>3. ASSUME NEW i \in 1..n PROVE s[i] = CHOOSE x \in S : Place(S, key, x) = i
  <2>1. ASSUME NEW x \in S, Place(S, key, x) = i PROVE x = s[i]
    <3>1. PICK j \in 1..n : s[j] = x
      BY <1>1
    <3>2. Place(S, key, x) = j
      BY <1>2, <3>1
    <3> QED BY <2>1, <3>1, <3>2
  <2>2. s[i] \in S /\ Place(S, key, s[i]) = i
    BY <1>1, <1>2
  <2> QED BY <2>1, <2>2
<1>4. s = [i \in 1..n |-> s[i]]
  BY <1>1
<1>5. [i \in 1..n |-> s[i]] = [i \in 1..n |-> CHOOSE x \in S : Place(S, key, x) = i]
  BY <1>3
<1> QED BY <1>4, <1>5 DEF InOrder, n

-----------------------------------------------------------------------------
(***************************************************************************)
(* The inductive invariant                                                 *)
(***************************************************************************)

\* The versions captured so far.
Taken == 1..Len(manifest)

\* Receipts are added to the manifest; nothing else is published or imported.
ManifestInv ==
  /\ manifest \in Seq([complete : BOOLEAN, bound : BOOLEAN])
  /\ stored \subseteq Taken
  /\ receipt \in [Captured -> {None} \cup Taken]
  /\ envelope \in [Conversations -> {None} \cup Taken]
  /\ lineage \in [Conversations -> {None} \cup Taken]
  /\ event \in [Conversations -> {None} \cup Taken]

\* What a run that is at step stp of conversation c with version v has found
\* or left published.
Progress(stp, c, v) ==
  /\ stp # "idle" => c \in Conversations /\ v \in Taken
  /\ stp \in {"receipt", "require"} => c \in Captured
  /\ stp \notin {"idle", "source"} => v \in stored /\ (c \in Captured => manifest[v].bound)
  /\ stp \in {"require", "envelope", "lineage", "event"} =>
       (c \in Captured => receipt[c] = v)
  /\ stp \in {"envelope", "lineage", "event"} => (c \in Captured => manifest[v].complete)
  /\ stp \in {"lineage", "event"} => envelope[c] = v
  /\ stp = "event" => lineage[c] = v

ImportInv ==
  \A i \in Importers : Progress(importer[i].pc, importer[i].at, importer[i].version)

\* Before the first capture there is nothing to raise about.
RerunInv == RerunsSucceed /\ (manifest = <<>> => raised = {})

IngestInv == IngestTypeOK /\ ManifestInv /\ ImportInv /\ IngestedIsBacked /\ RerunInv

-----------------------------------------------------------------------------
(***************************************************************************)
(* What a step leaves alone                                                *)
(***************************************************************************)

\* The step of run i, if any, is the only one that changes a run, and the new
\* versions of the manifest, the sources and the publications extend the old.
Extends(file, old, D) == \A d \in D : old[d] # None => file[d] = old[d]

Growth ==
  /\ Taken \subseteq Taken' /\ stored \subseteq stored'
  /\ \A v \in Taken : manifest'[v] = manifest[v]
  /\ Extends(receipt', receipt, Captured)
  /\ Extends(envelope', envelope, Conversations)
  /\ Extends(lineage', lineage, Conversations)

\* What a run has found stays found while the store grows.
LEMMA ProgressStable ==
  ASSUME IngestTypeOK, ManifestInv, Growth, NEW stp, NEW c, NEW v, Progress(stp, c, v),
         stp \in {"idle"} \cup Steps
  PROVE  Progress(stp, c, v)'
<1>1. CASE stp = "idle"
  BY <1>1 DEF Progress
<1>2. CASE stp # "idle"
  <2>1. c \in Conversations /\ v \in Taken
    BY <1>2 DEF Progress
  <2>2. v # None
    BY <2>1, ChatAssumption DEF Taken
  <2>3. /\ v \in Taken' /\ manifest'[v] = manifest[v]
        /\ v \in stored => v \in stored'
        /\ c \in Captured => (receipt[c] = v => receipt'[c] = v)
        /\ envelope[c] = v => envelope'[c] = v
        /\ lineage[c] = v => lineage'[c] = v
    BY <2>1, <2>2, ChatAssumption DEF Growth, Extends
  <2> QED BY <1>2, <2>1, <2>3, ChatAssumption DEF Progress
<1> QED BY <1>1, <1>2

\* The versions are numbers, and none is None.
LEMMA TakenIsCounted ==
  ASSUME IngestTypeOK, ManifestInv
  PROVE  /\ Len(manifest) \in Nat /\ DOMAIN manifest = Taken
         /\ Taken \subseteq Versions /\ Taken \subseteq Nat /\ None \notin Taken
         /\ manifest = <<>> => Taken = {}
         /\ Len(manifest) = 0 => manifest = <<>>
BY ChatAssumption DEF IngestTypeOK, ManifestInv, Taken, Versions

-----------------------------------------------------------------------------
(***************************************************************************)
(* One run moves                                                           *)
(***************************************************************************)

Run == [pc : {"idle"} \cup Steps, at : {0} \cup Conversations,
        version : {0} \cup Versions]

\* Run i becomes r, the others stay.
Becomes(i, r) == importer' = [importer EXCEPT ![i] = r]

LEMMA RunTypes ==
  IngestTypeOK => importer \in [Importers -> Run]
BY DEF IngestTypeOK, Run

LEMMA GotoMoves ==
  ASSUME IngestTypeOK, NEW i \in Importers, NEW stp \in Steps, Goto(i, stp)
  PROVE  /\ importer' \in [Importers -> Run]
         /\ importer'[i].pc = stp
         /\ importer'[i].at = At(i) /\ importer'[i].version = Version(i)
         /\ \A j \in Importers : j # i => importer'[j] = importer[j]
<1>1. importer \in [Importers -> Run]
  BY RunTypes
<1> QED BY <1>1 DEF Goto, At, Version, Run

LEMMA BecomesMoves ==
  ASSUME IngestTypeOK, NEW i \in Importers, NEW r \in Run, Becomes(i, r)
  PROVE  /\ importer' \in [Importers -> Run] /\ importer'[i] = r
         /\ \A j \in Importers : j # i => importer'[j] = importer[j]
BY RunTypes DEF Becomes

LEMMA IdleRuns == Idle \in Run
BY DEF Idle, Run

\* The progress of the run that moves is all there is to show.
LEMMA ImportKept ==
  ASSUME IngestTypeOK, ManifestInv, ImportInv, Growth, NEW i \in Importers,
         \A j \in Importers : j # i => importer'[j] = importer[j],
         Progress(importer[i].pc, importer[i].at, importer[i].version)'
  PROVE  ImportInv'
<1>1. SUFFICES ASSUME NEW j \in Importers
               PROVE  Progress(importer[j].pc, importer[j].at, importer[j].version)'
  BY DEF ImportInv
<1>2. CASE j = i
  BY <1>2
<1>3. CASE j # i
  <2>1. Progress(importer[j].pc, importer[j].at, importer[j].version)
    BY DEF ImportInv
  <2>2. importer[j].pc \in {"idle"} \cup Steps
    BY RunTypes DEF Run
  <2>3. PICK stp, c, v : stp = importer[j].pc /\ c = importer[j].at /\ v = importer[j].version
    OBVIOUS
  <2>4. Progress(stp, c, v)'
    BY <2>1, <2>2, <2>3, ProgressStable
  <2> QED BY <1>3, <2>3, <2>4
<1> QED BY <1>2, <1>3

\* So do the runs when none of them moves.
LEMMA ImportUntouched ==
  ASSUME IngestTypeOK, ManifestInv, ImportInv, Growth, importer' = importer
  PROVE  ImportInv'
<1>1. SUFFICES ASSUME NEW j \in Importers
               PROVE  Progress(importer[j].pc, importer[j].at, importer[j].version)'
  BY DEF ImportInv
<1>2. Progress(importer[j].pc, importer[j].at, importer[j].version)
  BY DEF ImportInv
<1>3. importer[j].pc \in {"idle"} \cup Steps
  BY RunTypes DEF Run
<1>4. PICK stp, c, v : stp = importer[j].pc /\ c = importer[j].at /\ v = importer[j].version
  OBVIOUS
<1>5. Progress(stp, c, v)'
  BY <1>2, <1>3, <1>4, ProgressStable
<1> QED BY <1>4, <1>5

\* The parts a committed event stands on stay.
LEMMA BackedKept ==
  ASSUME IngestTypeOK, ManifestInv, IngestedIsBacked, Growth, event' = event
  PROVE  IngestedIsBacked'
<1>1. SUFFICES ASSUME NEW c \in Conversations, event[c] # None
               PROVE  /\ envelope'[c] = event[c] /\ lineage'[c] = event[c]
                      /\ event[c] \in stored'
                      /\ c \in Captured => /\ receipt'[c] = event[c]
                                           /\ manifest'[event[c]].complete
                                           /\ manifest'[event[c]].bound
  BY DEF IngestedIsBacked
<1>2. event[c] \in Taken
  BY <1>1 DEF ManifestInv
<1>3. /\ manifest'[event[c]] = manifest[event[c]]
      /\ event[c] \in stored => event[c] \in stored'
  BY <1>2 DEF Growth
<1>4. /\ envelope'[c] = event[c] /\ lineage'[c] = event[c]
      /\ c \in Captured => receipt'[c] = event[c]
  BY <1>1 DEF Growth, Extends, IngestedIsBacked
<1> QED BY <1>1, <1>3, <1>4 DEF IngestedIsBacked

\* The one capture is good and its bytes are there.
Smooth ==
  Len(manifest) = 1 /\ manifest[1].complete /\ manifest[1].bound /\ redacted = {}

\* It is enough that a smooth import does not raise.
LEMMA RerunKept ==
  ASSUME IngestTypeOK, ManifestInv, RerunInv, manifest' = manifest,
         redacted \subseteq redacted',
         Smooth \/ manifest = <<>> => raised' = raised
  PROVE  RerunInv'
BY DEF RerunInv, RerunsSucceed, Smooth

\* In a smooth import there is one version, and all names agree with it.
LEMMA SmoothNames ==
  ASSUME IngestTypeOK, ManifestInv, Smooth, NEW v \in Taken
  PROVE  /\ v = 1
         /\ \A c \in Conversations : /\ envelope[c] \in {None, v} /\ lineage[c] \in {None, v}
                                     /\ event[c] \in {None, v}
         /\ \A c \in Captured : receipt[c] \in {None, v}
         /\ manifest[v].complete /\ manifest[v].bound /\ v \notin redacted
<1>1. Taken = {1}
  BY DEF Smooth, Taken
<1> QED BY <1>1 DEF ManifestInv, Smooth

\* What the run that moves knows.
LEMMA Moving ==
  ASSUME IngestInv, NEW i \in Importers, importer[i].pc # "idle"
  PROVE  /\ Progress(importer[i].pc, At(i), Version(i))
         /\ At(i) \in Conversations /\ Version(i) \in Taken /\ Version(i) \in Versions
         /\ Version(i) # None /\ manifest # <<>>
         /\ <<At(i), importer[i].pc, Version(i)>> \in Conversations \X Steps \X Versions
<1>1. Progress(importer[i].pc, At(i), Version(i))
  BY DEF IngestInv, ImportInv, At, Version
<1>2. At(i) \in Conversations /\ Version(i) \in Taken
  BY <1>1 DEF Progress
<1>3. Version(i) \in Versions /\ Version(i) # None /\ manifest # <<>>
  BY <1>2, TakenIsCounted DEF IngestInv
<1>4. importer[i].pc \in Steps
  BY RunTypes DEF Run, IngestInv
<1> QED BY <1>1, <1>2, <1>3, <1>4

-----------------------------------------------------------------------------
(***************************************************************************)
(* Crawling, crashes and redaction                                         *)
(***************************************************************************)

LEMMA InitIngest == IngestInit => IngestInv
<1> SUFFICES ASSUME IngestInit PROVE IngestInv
  OBVIOUS
<1> USE ChatAssumption DEF IngestInit
<1>1. manifest = <<>> /\ Len(manifest) = 0 /\ DOMAIN nodes = {}
  OBVIOUS
<1>2. IngestTypeOK
  BY <1>1 DEF IngestTypeOK, Idle, Versions
<1>3. ManifestInv
  BY <1>1 DEF ManifestInv
<1>4. ImportInv
  BY DEF ImportInv, Progress, Idle
<1>5. IngestedIsBacked
  BY DEF IngestedIsBacked
<1>6. RerunInv
  BY <1>1 DEF RerunInv, RerunsSucceed
<1> QED BY <1>2, <1>3, <1>4, <1>5, <1>6 DEF IngestInv

LEMMA DiscoverStep ==
  ASSUME IngestInv, NEW n, NEW node, Discover(n, node)
  PROVE  IngestInv'
<1> USE DEF IngestInv, published
<1>1. UNCHANGED <<manifest, redacted, stored, receipt, envelope, lineage, event, importer, raised>>
  BY DEF Discover
<1>2. Len(manifest) + 1 \in Versions
  BY TakenIsCounted, ChatAssumption DEF Discover, Versions, Taken
<1>3. DOMAIN nodes' = DOMAIN nodes \cup {n}
  BY DEF Discover
<1>4. IngestTypeOK'
  BY <1>1, <1>2, <1>3 DEF IngestTypeOK, Discover
<1>5. ManifestInv' /\ Growth
  BY <1>1 DEF ManifestInv, Taken, Growth, Extends
<1>6. ImportInv'
  BY <1>1, <1>5, ImportUntouched
<1>7. IngestedIsBacked' /\ RerunInv'
  BY <1>1, <1>5, BackedKept, RerunKept
<1> QED BY <1>4, <1>5, <1>6, <1>7

LEMMA CaptureStep ==
  ASSUME IngestInv, NEW current, NEW k, NEW d, Capture(current, k, d)
  PROVE  IngestInv'
<1> USE DEF IngestInv, published
<1>1. UNCHANGED <<redacted, stored, receipt, envelope, lineage, event, importer, raised>>
  BY DEF Capture
<1>2. PICK r \in [complete : BOOLEAN, bound : BOOLEAN] : manifest' = Append(manifest, r)
  <2> DEFINE q == build_receipt(nodes, current, k)
             b == bind_source(q, d, Bytes(Len(manifest) + 1))
  <2>1. b.bound \in BOOLEAN
    BY DEF bind_source
  <2>2. require_complete(q) \in BOOLEAN
    BY DEF require_complete
  <2>3. manifest' = Append(manifest, [complete |-> require_complete(q), bound |-> b.bound])
    BY DEF Capture
  <2> HIDE DEF q, b
  <2>4. [complete |-> require_complete(q), bound |-> b.bound]
          \in [complete : BOOLEAN, bound : BOOLEAN]
    BY <2>1, <2>2
  <2> QED BY <2>3, <2>4
<1>3. /\ manifest' \in Seq([complete : BOOLEAN, bound : BOOLEAN])
      /\ Len(manifest') = Len(manifest) + 1
      /\ \A v \in 1..Len(manifest) : manifest'[v] = manifest[v]
  BY <1>2 DEF ManifestInv
<1>4. Taken \subseteq Taken' /\ Len(manifest) \in Nat
  BY <1>3, TakenIsCounted DEF Taken
<1>5. IngestTypeOK'
  <2>1. DOMAIN nodes' = {}
    BY DEF Capture
  <2>2. Len(manifest') <= MaxVersions
    BY <1>3, <1>4, ChatAssumption DEF Capture
  <2> QED BY <1>1, <2>1, <2>2 DEF IngestTypeOK
<1>6. ManifestInv'
  BY <1>1, <1>3, <1>4 DEF ManifestInv
<1>7. Growth
  BY <1>1, <1>3, <1>4 DEF Growth, Extends, Taken
<1>8. ImportInv' /\ IngestedIsBacked'
  BY <1>1, <1>7, ImportUntouched, BackedKept
<1>9. RerunInv'
  <2>1. manifest' # <<>>
    BY <1>3, <1>4
  <2>2. ASSUME Len(manifest') = 1 PROVE raised' = {}
    <3>1. PICK n \in Nat : n = Len(manifest)
      BY <1>4
    <3>2. n + 1 = 1
      BY <1>3, <2>2, <3>1
    <3>3. n = 0
      BY <3>2
    <3>4. manifest = <<>>
      BY <3>1, <3>3, TakenIsCounted
    <3> QED BY <1>1, <3>4 DEF RerunInv
  <2> QED BY <2>1, <2>2 DEF RerunInv, RerunsSucceed
<1> QED BY <1>5, <1>6, <1>7, <1>8, <1>9

LEMMA CrashStep ==
  ASSUME IngestInv, NEW i \in Importers, Crash(i)
  PROVE  IngestInv'
<1> USE DEF IngestInv, published
<1>1. UNCHANGED <<nodes, manifest, redacted, stored, receipt, envelope, lineage, event, raised>>
  BY DEF Crash
<1>2. Becomes(i, Idle)
  BY DEF Crash, Becomes
<1>3. /\ importer' \in [Importers -> Run] /\ importer'[i] = Idle
      /\ \A j \in Importers : j # i => importer'[j] = importer[j]
  BY <1>2, BecomesMoves, IdleRuns
<1>4. IngestTypeOK'
  BY <1>1, <1>3 DEF IngestTypeOK, Run
<1>5. ManifestInv' /\ Growth
  BY <1>1 DEF ManifestInv, Taken, Growth, Extends
<1>6. Progress(importer[i].pc, importer[i].at, importer[i].version)'
  BY <1>3 DEF Progress, Idle
<1>7. ImportInv' /\ IngestedIsBacked' /\ RerunInv'
  BY <1>1, <1>3, <1>5, <1>6, ImportKept, BackedKept, RerunKept
<1> QED BY <1>4, <1>5, <1>7

LEMMA RedactStep ==
  ASSUME IngestInv, NEW v \in Versions, RedactSource(v)
  PROVE  IngestInv'
<1> USE DEF IngestInv, published
<1>1. UNCHANGED <<nodes, manifest, stored, receipt, envelope, lineage, event, importer, raised>>
  BY DEF RedactSource
<1>2. IngestTypeOK' /\ redacted \subseteq redacted'
  BY <1>1 DEF IngestTypeOK, RedactSource
<1>3. ManifestInv' /\ Growth
  BY <1>1 DEF ManifestInv, Taken, Growth, Extends
<1>4. ImportInv' /\ IngestedIsBacked' /\ RerunInv'
  BY <1>1, <1>2, <1>3, ImportUntouched, BackedKept, RerunKept
<1> QED BY <1>2, <1>3, <1>4

LEMMA StartStep ==
  ASSUME IngestInv, NEW i \in Importers, Start(i)
  PROVE  IngestInv'
<1> USE DEF IngestInv, published
<1> DEFINE r == [pc |-> "source", at |-> 1, version |-> Len(manifest)]
<1>1. UNCHANGED <<nodes, manifest, redacted, stored, receipt, envelope, lineage, event, raised>>
  BY DEF Start
<1>2. Becomes(i, r) /\ manifest # <<>>
  BY DEF Start, Becomes
<1>3. Len(manifest) \in Taken /\ Len(manifest) \in Versions
  <2>1. Len(manifest) # 0
    BY <1>2 DEF ManifestInv
  <2>2. Len(manifest) \in Taken
    BY <2>1, TakenIsCounted DEF Taken
  <2> QED BY <2>2, TakenIsCounted
<1>4. r \in Run
  BY <1>3, ChatAssumption DEF Run, Steps
<1>5. /\ importer' \in [Importers -> Run] /\ importer'[i] = r
      /\ \A j \in Importers : j # i => importer'[j] = importer[j]
  BY <1>2, <1>4, BecomesMoves
<1>6. IngestTypeOK'
  BY <1>1, <1>5 DEF IngestTypeOK, Run
<1>7. ManifestInv' /\ Growth
  BY <1>1 DEF ManifestInv, Taken, Growth, Extends
<1>8. Progress(importer[i].pc, importer[i].at, importer[i].version)'
  BY <1>1, <1>3, <1>5, ChatAssumption DEF Progress, Taken
<1>9. ImportInv' /\ IngestedIsBacked' /\ RerunInv'
  BY <1>1, <1>5, <1>7, <1>8, ImportKept, BackedKept, RerunKept
<1> QED BY <1>6, <1>7, <1>9

-----------------------------------------------------------------------------
(***************************************************************************)
(* The steps of an import                                                  *)
(***************************************************************************)

\* An exception leaves everything consistent, unless it ends a smooth import.
LEMMA RaiseStep ==
  ASSUME IngestInv, NEW i \in Importers, Raise(i), importer[i].pc # "idle", ~Smooth,
         ManifestInv', Growth, UNCHANGED <<nodes, manifest, redacted, event>>,
         stored' \subseteq Versions
  PROVE  IngestInv'
<1> USE DEF IngestInv
<1>1. Becomes(i, Idle) /\ raised' = raised \cup {<<At(i), importer[i].pc, Version(i)>>}
  BY DEF Raise, Becomes
<1>2. /\ importer' \in [Importers -> Run] /\ importer'[i] = Idle
      /\ \A j \in Importers : j # i => importer'[j] = importer[j]
  BY <1>1, BecomesMoves, IdleRuns
<1>3. IngestTypeOK'
  <2>1. raised' \subseteq Conversations \X Steps \X Versions
    BY <1>1, Moving DEF IngestTypeOK
  <2>2. redacted' \subseteq stored'
    BY DEF IngestTypeOK, Growth
  <2>3. /\ receipt' \in [Captured -> {None} \cup Versions]
        /\ envelope' \in [Conversations -> {None} \cup Versions]
        /\ lineage' \in [Conversations -> {None} \cup Versions]
        /\ event' \in [Conversations -> {None} \cup Versions]
    <3>1. Taken' \subseteq Versions
      BY TakenIsCounted DEF Taken
    <3> QED BY <3>1 DEF ManifestInv
  <2> QED BY <1>2, <2>1, <2>2, <2>3 DEF IngestTypeOK, Run
<1>4. Progress(importer[i].pc, importer[i].at, importer[i].version)'
  BY <1>2 DEF Progress, Idle
<1>5. ImportInv' /\ IngestedIsBacked'
  BY <1>2, <1>4, ImportKept, BackedKept
<1>6. RerunInv'
  BY Moving, RerunKept
<1> QED BY <1>3, <1>5, <1>6

\* Going on is consistent when the next step finds what it relies on.
LEMMA GotoStep ==
  ASSUME IngestInv, NEW i \in Importers, NEW stp \in Steps, Goto(i, stp),
         importer[i].pc # "idle",
         ManifestInv', Growth, UNCHANGED <<nodes, manifest, redacted, event, raised>>,
         stored' \subseteq Versions,
         \A c, v : c = At(i) /\ v = Version(i) => Progress(stp, c, v)'
  PROVE  IngestInv'
<1> USE DEF IngestInv
<1>1. /\ importer' \in [Importers -> Run] /\ importer'[i].pc = stp
      /\ importer'[i].at = At(i) /\ importer'[i].version = Version(i)
      /\ \A j \in Importers : j # i => importer'[j] = importer[j]
  BY GotoMoves
<1>2. IngestTypeOK'
  <2>1. redacted' \subseteq stored'
    BY DEF IngestTypeOK, Growth
  <2>2. /\ receipt' \in [Captured -> {None} \cup Versions]
        /\ envelope' \in [Conversations -> {None} \cup Versions]
        /\ lineage' \in [Conversations -> {None} \cup Versions]
        /\ event' \in [Conversations -> {None} \cup Versions]
    <3>1. Taken' \subseteq Versions
      BY TakenIsCounted DEF Taken
    <3> QED BY <3>1 DEF ManifestInv
  <2> QED BY <1>1, <2>1, <2>2 DEF IngestTypeOK, Run
<1>3. Progress(importer[i].pc, importer[i].at, importer[i].version)'
  BY <1>1
<1>4. ImportInv' /\ IngestedIsBacked'
  BY <1>1, <1>3, ImportKept, BackedKept
<1>5. RerunInv'
  BY RerunKept
<1> QED BY <1>2, <1>4, <1>5

LEMMA AddSourceStep ==
  ASSUME IngestInv, NEW i \in Importers, AddSource(i)
  PROVE  IngestInv'
<1> USE DEF IngestInv, published
<1>1. /\ importer[i].pc = "source"
      /\ UNCHANGED <<nodes, manifest, redacted, receipt, envelope, lineage, event>>
  BY DEF AddSource
<1>2. /\ At(i) \in Conversations /\ Version(i) \in Taken /\ Version(i) \in Versions
  BY <1>1, Moving
<1>3. ASSUME Raise(i), stored' = stored, ~Smooth PROVE IngestInv'
  <2>1. ManifestInv' /\ Growth /\ stored' \subseteq Versions
    BY <1>1, <1>3 DEF ManifestInv, Taken, Growth, Extends, IngestTypeOK
  <2> QED BY <1>1, <1>3, <2>1, RaiseStep
<1>4. CASE Version(i) \notin redacted /\ At(i) \in Captured /\ Receipt(i).bound
  <2>1. stored' = stored \cup {Version(i)} /\ raised' = raised /\ Goto(i, "receipt")
    BY <1>4 DEF AddSource, Goto
  <2>2. ManifestInv' /\ Growth /\ stored' \subseteq Versions
    BY <1>1, <1>2, <2>1 DEF ManifestInv, Taken, Growth, Extends, IngestTypeOK
  <2>3. ASSUME NEW c, NEW v, c = At(i), v = Version(i)
        PROVE  Progress("receipt", c, v)'
    BY <1>1, <1>2, <1>4, <2>1, <2>3 DEF Progress, Taken, Receipt
  <2> QED BY <1>1, <2>1, <2>2, <2>3, GotoStep DEF Steps
<1>5. CASE Version(i) \notin redacted /\ At(i) \notin Captured
  <2>1. stored' = stored \cup {Version(i)} /\ raised' = raised /\ Goto(i, "envelope")
    BY <1>5 DEF AddSource, Goto
  <2>2. ManifestInv' /\ Growth /\ stored' \subseteq Versions
    BY <1>1, <1>2, <2>1 DEF ManifestInv, Taken, Growth, Extends, IngestTypeOK
  <2>3. ASSUME NEW c, NEW v, c = At(i), v = Version(i)
        PROVE  Progress("envelope", c, v)'
    BY <1>1, <1>2, <1>5, <2>1, <2>3 DEF Progress, Taken, Receipt
  <2> QED BY <1>1, <2>1, <2>2, <2>3, GotoStep DEF Steps
<1>6. Receipt(i).bound \in BOOLEAN
  <2>1. PICK v \in Taken : v = Version(i)
    BY <1>2
  <2>2. manifest[v] \in [complete : BOOLEAN, bound : BOOLEAN]
    BY ElementOfSeq DEF ManifestInv, Taken
  <2> QED BY <2>1, <2>2 DEF Receipt
<1>7. CASE Version(i) \in redacted
  BY <1>2, <1>3, <1>7, SmoothNames DEF AddSource
<1>8. CASE At(i) \in Captured /\ ~Receipt(i).bound
  BY <1>2, <1>3, <1>6, <1>8, SmoothNames DEF AddSource, Receipt
<1> QED BY <1>4, <1>5, <1>6, <1>7, <1>8

LEMMA PublishReceiptStep ==
  ASSUME IngestInv, NEW i \in Importers, PublishReceipt(i)
  PROVE  IngestInv'
<1> USE DEF IngestInv, published
<1> DEFINE c == At(i)
           v == Version(i)
<1>1. /\ importer[i].pc = "receipt"
      /\ UNCHANGED <<nodes, manifest, redacted, stored, envelope, lineage, event>>
  BY DEF PublishReceipt
<1>2. /\ c \in Conversations /\ v \in Taken /\ v # None /\ Progress("receipt", c, v)
  BY <1>1, Moving
<1>3. stored' \subseteq Versions
  BY <1>1 DEF IngestTypeOK
<1>4. c \in Captured
  BY <1>2, ChatAssumption DEF Progress
<1> HIDE DEF c, v
<1>5. /\ receipt' = Published(receipt, c, v)
      /\ IF receipt[c] \in {None, v} THEN Goto(i, "require") /\ UNCHANGED raised ELSE Raise(i)
  BY DEF PublishReceipt, Publish, c, v
<1>6. /\ receipt' \in [Captured -> {None} \cup Taken] /\ Extends(receipt', receipt, Captured)
      /\ receipt[c] \in {None, v} => receipt'[c] = v
  BY <1>2, <1>4, <1>5 DEF Published, ManifestInv, Extends
<1>7. ManifestInv' /\ Growth
  BY <1>1, <1>6 DEF ManifestInv, Taken, Growth, Extends
<1>8. CASE receipt[c] \in {None, v}
  <2>1. Goto(i, "require") /\ raised' = raised
    BY <1>5, <1>8
  <2>3. ASSUME NEW d, NEW w, d = At(i), w = Version(i)
        PROVE  Progress("require", d, w)'
    BY <1>1, <1>2, <1>4, <1>6, <1>8, <2>3 DEF Progress, Taken, c, v
  <2> QED BY <1>1, <1>3, <1>7, <2>1, <2>3, GotoStep DEF Steps
<1>9. CASE receipt[c] \notin {None, v}
  <2>1. Raise(i)
    BY <1>5, <1>9
  <2>2. ~Smooth
    BY <1>2, <1>4, <1>9, SmoothNames
  <2> QED BY <1>1, <1>3, <1>7, <2>1, <2>2, RaiseStep
<1> QED BY <1>8, <1>9

LEMMA RequireCompleteStep ==
  ASSUME IngestInv, NEW i \in Importers, RequireComplete(i)
  PROVE  IngestInv'
<1> USE DEF IngestInv, published
<1> DEFINE c == At(i)
           v == Version(i)
<1>1. /\ importer[i].pc = "require"
      /\ UNCHANGED <<nodes, manifest, redacted, stored, receipt, envelope, lineage, event>>
  BY DEF RequireComplete
<1>2. /\ c \in Conversations /\ v \in Taken /\ Progress("require", c, v)
  BY <1>1, Moving
<1>3. stored' \subseteq Versions
  BY <1>1 DEF IngestTypeOK
<1>4. ManifestInv' /\ Growth
  BY <1>1 DEF ManifestInv, Taken, Growth, Extends
<1> HIDE DEF c, v
<1>5. CASE manifest[v].complete
  <2>1. Goto(i, "envelope") /\ raised' = raised
    BY <1>5 DEF RequireComplete, Receipt, v
  <2>2. ASSUME NEW d, NEW w, d = At(i), w = Version(i)
        PROVE  Progress("envelope", d, w)'
    BY <1>1, <1>2, <1>5, <2>2 DEF Progress, Taken, c, v
  <2> QED BY <1>1, <1>3, <1>4, <2>1, <2>2, GotoStep DEF Steps
<1>6. CASE ~manifest[v].complete
  <2>1. Raise(i)
    BY <1>6 DEF RequireComplete, Receipt, v
  <2>2. ~Smooth
    BY <1>2, <1>6, SmoothNames
  <2> QED BY <1>1, <1>3, <1>4, <2>1, <2>2, RaiseStep
<1> QED BY <1>5, <1>6

LEMMA CommitEnvelopeStep ==
  ASSUME IngestInv, NEW i \in Importers, CommitEnvelope(i)
  PROVE  IngestInv'
<1> USE DEF IngestInv, published
<1> DEFINE c == At(i)
           v == Version(i)
<1>1. /\ importer[i].pc = "envelope"
      /\ UNCHANGED <<nodes, manifest, redacted, stored, receipt, lineage, event>>
  BY DEF CommitEnvelope
<1>2. /\ c \in Conversations /\ v \in Taken /\ v # None /\ Progress("envelope", c, v)
  BY <1>1, Moving
<1>3. stored' \subseteq Versions
  BY <1>1 DEF IngestTypeOK
<1>4. c \in Conversations
  BY <1>2 DEF Progress
<1> HIDE DEF c, v
<1>5. CASE ~Readable(v)
  <2>1. Raise(i) /\ envelope' = envelope
    BY <1>5 DEF CommitEnvelope, v
  <2>2. ~Smooth
    <3>1. v \in stored
      BY <1>2 DEF Progress
    <3> QED BY <1>2, <1>5, <3>1, SmoothNames DEF Readable
  <2>3. ManifestInv' /\ Growth
    BY <1>1, <2>1 DEF ManifestInv, Taken, Growth, Extends
  <2> QED BY <1>1, <1>3, <2>1, <2>2, <2>3, RaiseStep
<1>6. CASE Readable(v)
  <2>1. /\ envelope' = Published(envelope, c, v)
        /\ IF envelope[c] \in {None, v} THEN Goto(i, "lineage") /\ UNCHANGED raised ELSE Raise(i)
    BY <1>6 DEF CommitEnvelope, Publish, c, v
  <2>2. /\ envelope' \in [Conversations -> {None} \cup Taken] /\ Extends(envelope', envelope, Conversations)
        /\ envelope[c] \in {None, v} => envelope'[c] = v
    BY <1>2, <1>4, <2>1 DEF Published, ManifestInv, Extends
  <2>3. ManifestInv' /\ Growth
    BY <1>1, <2>2 DEF ManifestInv, Taken, Growth, Extends
  <2>4. CASE envelope[c] \in {None, v}
    <3>1. Goto(i, "lineage") /\ raised' = raised
      BY <2>1, <2>4
    <3>3. ASSUME NEW d, NEW w, d = At(i), w = Version(i)
          PROVE  Progress("lineage", d, w)'
      BY <1>1, <1>2, <1>4, <2>2, <2>4, <3>3 DEF Progress, Taken, c, v
    <3> QED BY <1>1, <1>3, <2>3, <3>1, <3>3, GotoStep DEF Steps
  <2>5. CASE envelope[c] \notin {None, v}
    <3>1. Raise(i)
      BY <2>1, <2>5
    <3>2. ~Smooth
      BY <1>2, <1>4, <2>5, SmoothNames
    <3> QED BY <1>1, <1>3, <2>3, <3>1, <3>2, RaiseStep
  <2> QED BY <2>4, <2>5
<1> QED BY <1>5, <1>6

LEMMA PublishLineageStep ==
  ASSUME IngestInv, NEW i \in Importers, PublishLineage(i)
  PROVE  IngestInv'
<1> USE DEF IngestInv, published
<1> DEFINE c == At(i)
           v == Version(i)
<1>1. /\ importer[i].pc = "lineage"
      /\ UNCHANGED <<nodes, manifest, redacted, stored, receipt, envelope, event>>
  BY DEF PublishLineage
<1>2. /\ c \in Conversations /\ v \in Taken /\ v # None /\ Progress("lineage", c, v)
  BY <1>1, Moving
<1>3. stored' \subseteq Versions
  BY <1>1 DEF IngestTypeOK
<1>4. c \in Conversations
  BY <1>2 DEF Progress
<1> HIDE DEF c, v
<1>5. CASE ~Readable(v)
  <2>1. Raise(i) /\ lineage' = lineage
    BY <1>5 DEF PublishLineage, v
  <2>2. ~Smooth
    <3>1. v \in stored
      BY <1>2 DEF Progress
    <3> QED BY <1>2, <1>5, <3>1, SmoothNames DEF Readable
  <2>3. ManifestInv' /\ Growth
    BY <1>1, <2>1 DEF ManifestInv, Taken, Growth, Extends
  <2> QED BY <1>1, <1>3, <2>1, <2>2, <2>3, RaiseStep
<1>6. CASE Readable(v)
  <2>1. /\ lineage' = Published(lineage, c, v)
        /\ IF lineage[c] \in {None, v} THEN Goto(i, "event") /\ UNCHANGED raised ELSE Raise(i)
    BY <1>6 DEF PublishLineage, Publish, c, v
  <2>2. /\ lineage' \in [Conversations -> {None} \cup Taken] /\ Extends(lineage', lineage, Conversations)
        /\ lineage[c] \in {None, v} => lineage'[c] = v
    BY <1>2, <1>4, <2>1 DEF Published, ManifestInv, Extends
  <2>3. ManifestInv' /\ Growth
    BY <1>1, <2>2 DEF ManifestInv, Taken, Growth, Extends
  <2>4. CASE lineage[c] \in {None, v}
    <3>1. Goto(i, "event") /\ raised' = raised
      BY <2>1, <2>4
    <3>3. ASSUME NEW d, NEW w, d = At(i), w = Version(i)
          PROVE  Progress("event", d, w)'
      BY <1>1, <1>2, <1>4, <2>2, <2>4, <3>3 DEF Progress, Taken, c, v
    <3> QED BY <1>1, <1>3, <2>3, <3>1, <3>3, GotoStep DEF Steps
  <2>5. CASE lineage[c] \notin {None, v}
    <3>1. Raise(i)
      BY <2>1, <2>5
    <3>2. ~Smooth
      BY <1>2, <1>4, <2>5, SmoothNames
    <3> QED BY <1>1, <1>3, <2>3, <3>1, <3>2, RaiseStep
  <2> QED BY <2>4, <2>5
<1> QED BY <1>5, <1>6

LEMMA CommitEventStep ==
  ASSUME IngestInv, NEW i \in Importers, CommitEvent(i)
  PROVE  IngestInv'
<1> USE DEF IngestInv, published
<1> DEFINE c == At(i)
           v == Version(i)
<1>1. /\ importer[i].pc = "event"
      /\ UNCHANGED <<nodes, manifest, redacted, stored, receipt, envelope, lineage>>
      /\ event' = Published(event, c, v)
  BY DEF CommitEvent
<1>2. /\ c \in Conversations /\ v \in Taken /\ v # None /\ Progress("event", c, v)
  BY <1>1, Moving
<1> HIDE DEF c, v
<1>3. /\ event' \in [Conversations -> {None} \cup Taken]
      /\ event[c] \in {None, v} => event'[c] = v
      /\ \A d \in Conversations : d # c \/ event[c] \notin {None, v} => event'[d] = event[d]
  BY <1>1, <1>2 DEF Published, ManifestInv
<1>4. ManifestInv' /\ Growth
  BY <1>1, <1>3 DEF ManifestInv, Taken, Growth, Extends
<1>5. CASE event[c] \notin {None, v}
  <2>1. Raise(i)
    BY <1>5 DEF CommitEvent, c, v
  <2>2. event' = event
    BY <1>3, <1>5 DEF ManifestInv
  <2>3. ~Smooth
    BY <1>2, <1>5, SmoothNames
  <2> QED BY <1>1, <1>4, <2>1, <2>2, <2>3, RaiseStep DEF IngestTypeOK
<1>6. CASE event[c] \in {None, v}
  <2> DEFINE r == IF c + 1 \in Conversations
                  THEN [importer[i] EXCEPT !.pc = "source", !.at = c + 1]
                  ELSE Idle
  <2>1. raised' = raised /\ Becomes(i, r)
    <3>1. /\ importer' = [importer EXCEPT ![i] =
                           IF c + 1 \in Conversations
                           THEN [importer[i] EXCEPT !.pc = "source", !.at = c + 1]
                           ELSE Idle]
          /\ raised' = raised
      BY <1>6 DEF CommitEvent, c, v
    <3> QED BY <3>1 DEF Becomes
  <2>2. importer[i] \in Run /\ importer[i].version = v /\ importer[i].at = c
    BY RunTypes DEF At, Version, c, v
  <2>3. /\ r \in Run /\ r.pc \in {"idle", "source"}
        /\ r.pc = "source" => r.at \in Conversations /\ r.version = v
    BY <2>2, IdleRuns DEF Run, Steps, Idle
  <2>4. /\ importer' \in [Importers -> Run] /\ importer'[i] = r
        /\ \A j \in Importers : j # i => importer'[j] = importer[j]
    BY <2>1, <2>3, BecomesMoves
  <2> HIDE DEF r
  <2>5. IngestTypeOK'
    <3>1. event' \in [Conversations -> {None} \cup Versions]
      BY <1>3, TakenIsCounted
    <3> QED BY <1>1, <2>1, <2>4, <3>1 DEF IngestTypeOK, Run
  <2>6. Progress(importer[i].pc, importer[i].at, importer[i].version)'
    <3>1. PICK q : q = importer'[i] /\ q = r
      BY <2>4
    <3>2. v \in Taken'
      BY <1>1, <1>2 DEF Taken
    <3> QED BY <2>3, <3>1, <3>2 DEF Progress
  <2>7. ImportInv'
    BY <1>4, <2>4, <2>6, ImportKept
  <2>8. IngestedIsBacked'
    <3>1. SUFFICES ASSUME NEW d \in Conversations, event'[d] # None
                   PROVE  /\ envelope[d] = event'[d] /\ lineage[d] = event'[d]
                          /\ event'[d] \in stored
                          /\ d \in Captured => /\ receipt[d] = event'[d]
                                               /\ manifest[event'[d]].complete
                                               /\ manifest[event'[d]].bound
      BY <1>1 DEF IngestedIsBacked
    <3>2. CASE d = c
      BY <1>2, <1>3, <1>6, <3>2 DEF Progress
    <3>3. CASE d # c
      BY <1>3, <3>1, <3>3 DEF IngestedIsBacked
    <3> QED BY <3>2, <3>3
  <2>9. RerunInv'
    BY <1>1, <2>1, RerunKept
  <2> QED BY <1>4, <2>5, <2>7, <2>8, <2>9
<1> QED BY <1>5, <1>6

LEMMA StutterIngest == ASSUME IngestInv, UNCHANGED ingest_vars PROVE IngestInv'
<1> USE DEF IngestInv
<1>1. UNCHANGED <<nodes, manifest, redacted, stored, receipt, envelope, lineage, event,
                  importer, raised>>
  BY DEF ingest_vars, published
<1>2. IngestTypeOK'
  BY <1>1 DEF IngestTypeOK
<1>3. ManifestInv' /\ Growth
  BY <1>1 DEF ManifestInv, Taken, Growth, Extends
<1>4. ImportInv' /\ IngestedIsBacked' /\ RerunInv'
  BY <1>1, <1>3, ImportUntouched, BackedKept, RerunKept
<1> QED BY <1>2, <1>3, <1>4

LEMMA NextIngest == ASSUME IngestInv, IngestNext PROVE IngestInv'
<1>1. ASSUME NEW n \in Page, NEW node, Discover(n, node) PROVE IngestInv'
  BY <1>1, DiscoverStep
<1>2. ASSUME NEW current, NEW k, NEW d, Capture(current, k, d) PROVE IngestInv'
  BY <1>2, CaptureStep
<1>3. ASSUME NEW i \in Importers, Import(i) PROVE IngestInv'
  BY <1>3, StartStep, AddSourceStep, PublishReceiptStep, RequireCompleteStep,
     CommitEnvelopeStep, PublishLineageStep, CommitEventStep, CrashStep DEF Import
<1>4. ASSUME NEW v \in Versions, RedactSource(v) PROVE IngestInv'
  BY <1>4, RedactStep
<1> QED BY <1>1, <1>2, <1>3, <1>4 DEF IngestNext, Crawl
-----------------------------------------------------------------------------
(***************************************************************************)
(* The theorem                                                             *)
(***************************************************************************)

\* However captures, imports, crashes and redactions interleave: an event
\* stands on one version of its envelope, lineage, source and receipt, and
\* while one good version exists no import of it ends with an exception
\* (ingest_manifest in scripts/ingest_shared_chat_reconstructions.py).
THEOREM SoundImports == IngestSpec => []ImportsAreSound
<1>1. IngestInv /\ [IngestNext]_ingest_vars => IngestInv'
  BY NextIngest, StutterIngest
<1>2. IngestInv => ImportsAreSound
  BY DEF IngestInv, RerunInv, ImportsAreSound
<1> QED BY <1>1, <1>2, InitIngest, PTL DEF IngestSpec
-----------------------------------------------------------------------------
(***************************************************************************)
(* A crawled graph: parent chains                                          *)
(***************************************************************************)

\* Nodes are finitely many, and None is none of them.
IsGraph(graph) == IsFiniteSet(DOMAIN graph) /\ DOMAIN graph \subseteq Nat

\* up is the parent chain from n, N steps of it.
Climbing(up, N, graph, n) ==
  up = [i \in 0..N |->
          IF i = 0 THEN n
          ELSE IF up[i - 1] \in DOMAIN graph THEN graph[up[i - 1]].parent ELSE NoNode]

LEMMA ClimbingExists ==
  ASSUME NEW graph, NEW n, NEW N \in Nat
  PROVE  \E up : Climbing(up, N, graph, n)
<1> DEFINE T == {m \in 0..N : \E up : Climbing(up, m, graph, n)}
<1>1. 0 \in T
  <2> DEFINE up == [i \in 0..0 |-> n]
  <2>1. Climbing(up, 0, graph, n)
    BY DEF Climbing
  <2> QED BY <2>1
<1>2. ASSUME NEW m \in 0..N, m \in T, m < N PROVE m + 1 \in T
  <2>1. PICK up : Climbing(up, m, graph, n)
    BY <1>2
  <2> DEFINE next == IF up[m] \in DOMAIN graph THEN graph[up[m]].parent ELSE NoNode
             longer == [k \in 0..(m + 1) |-> IF k = m + 1 THEN next ELSE up[k]]
  <2>2. ASSUME NEW k \in 0..(m + 1)
        PROVE  longer[k] = IF k = 0 THEN n
                           ELSE IF longer[k - 1] \in DOMAIN graph
                                THEN graph[longer[k - 1]].parent ELSE NoNode
    <3>1. \A j \in 0..m : up[j] = IF j = 0 THEN n
                                  ELSE IF up[j - 1] \in DOMAIN graph
                                       THEN graph[up[j - 1]].parent ELSE NoNode
      BY <2>1 DEF Climbing
    <3>2. CASE k = 0
      BY <3>1, <3>2
    <3>3. CASE k = m + 1
      BY <3>3
    <3>4. CASE k # 0 /\ k # m + 1
      <4>1. k \in 0..m /\ k - 1 \in 0..m /\ k - 1 # m + 1 /\ k - 1 \in 0..(m + 1)
        BY <3>4
      <4> QED BY <4>1, <3>1, <3>4
    <3> QED BY <3>2, <3>3, <3>4
  <2>3. Climbing(longer, m + 1, graph, n)
    <3>1. longer = [k \in 0..(m + 1) |-> longer[k]]
      OBVIOUS
    <3> HIDE DEF longer
    <3> QED BY <3>1, <2>2 DEF Climbing
  <2>4. m + 1 \in 0..N
    BY <1>2
  <2> QED BY <2>3, <2>4
<1>3. 0..N \subseteq T
  <2> HIDE DEF T
  <2> QED BY <1>1, <1>2, Onwards
<1> QED BY <1>3

\* The chain, step by step.
IsChain(up, graph, n) ==
  LET N == Cardinality(DOMAIN graph)
  IN  /\ DOMAIN up = 0..N /\ up[0] = n
      /\ \A i \in 0..N : i < N =>
           up[i + 1] = IF up[i] \in DOMAIN graph THEN graph[up[i]].parent ELSE NoNode

LEMMA ChainIs ==
  ASSUME NEW graph, IsGraph(graph), NEW n
  PROVE  IsChain(Chain(graph, n), graph, n)
<1> DEFINE N == Cardinality(DOMAIN graph)
<1>1. N \in Nat
  BY FS_CardinalityType DEF IsGraph
<1>2. \E up : Climbing(up, N, graph, n)
  <2> HIDE DEF N
  <2> QED BY <1>1, ClimbingExists
<1> DEFINE up == CHOOSE up : up =
             [i \in 0..N |-> IF i = 0 THEN n
                             ELSE IF up[i - 1] \in DOMAIN graph THEN graph[up[i - 1]].parent ELSE NoNode]
<1>3. up = [i \in 0..N |-> IF i = 0 THEN n
                           ELSE IF up[i - 1] \in DOMAIN graph THEN graph[up[i - 1]].parent ELSE NoNode]
  BY <1>2 DEF Climbing
<1>4. Chain(graph, n) = up
  BY DEF Chain
<1> HIDE DEF up, N
<1>5. DOMAIN up = 0..N /\ up[0] = n
  BY <1>1, <1>3
<1>6. ASSUME NEW i \in 0..N, i < N
      PROVE  up[i + 1] = IF up[i] \in DOMAIN graph THEN graph[up[i]].parent ELSE NoNode
  <2>1. i + 1 \in 0..N /\ i + 1 # 0 /\ (i + 1) - 1 = i
    BY <1>1, <1>6
  <2> QED BY <1>3, <2>1
<1> QED BY <1>4, <1>5, <1>6 DEF IsChain, N

\* What an outward step leads from: only a node has a node above it.
LEMMA ChainBelow ==
  ASSUME NEW graph, IsGraph(graph), NoNode \notin DOMAIN graph, NEW n, NEW up, IsChain(up, graph, n),
         NEW i \in 0..Cardinality(DOMAIN graph), up[i] \in DOMAIN graph
  PROVE  \A j \in 0..i : up[j] \in DOMAIN graph
<1> DEFINE N == Cardinality(DOMAIN graph)
<1>1. N \in Nat
  BY FS_CardinalityType DEF IsGraph
<1> SUFFICES ASSUME NEW j \in 0..i, up[j] \notin DOMAIN graph PROVE FALSE
  OBVIOUS
<1> DEFINE T == {k \in j..i : up[k] \notin DOMAIN graph}
<1>2. j \in T /\ i \in Nat /\ j \in 0..i
  BY <1>1
<1>3. ASSUME NEW k \in j..i, k \in T, k < i PROVE k + 1 \in T
  <2>1. k \in 0..N /\ k < N /\ k + 1 \in j..i
    BY <1>1, <1>3
  <2>2. up[k + 1] = NoNode
    BY <1>3, <2>1 DEF IsChain
  <2> QED BY <2>1, <2>2
<1>4. j..i \subseteq T
  <2> HIDE DEF T
  <2> QED BY <1>2, <1>3, Onwards
<1> QED BY <1>2, <1>4

-----------------------------------------------------------------------------
(***************************************************************************)
(* A crawled graph: what its roots span                                    *)
(***************************************************************************)

Roots(graph) == {n \in DOMAIN graph : graph[n].parent = NoNode}

\* The nodes of S and their children.
Below(graph, S) == S \cup ((UNION {graph[n].children : n \in S}) \cap DOMAIN graph)

Spanning(reach, N, graph) ==
  reach = [i \in 0..N |-> IF i = 0 THEN Roots(graph) ELSE Below(graph, reach[i - 1])]

LEMMA SpanningExists ==
  ASSUME NEW graph, NEW N \in Nat
  PROVE  \E reach : Spanning(reach, N, graph)
<1> DEFINE T == {m \in 0..N : \E reach : Spanning(reach, m, graph)}
<1>1. 0 \in T
  <2> DEFINE reach == [i \in 0..0 |-> Roots(graph)]
  <2>1. Spanning(reach, 0, graph)
    BY DEF Spanning
  <2> QED BY <2>1
<1>2. ASSUME NEW m \in 0..N, m \in T, m < N PROVE m + 1 \in T
  <2>1. PICK reach : Spanning(reach, m, graph)
    BY <1>2
  <2> DEFINE longer == [k \in 0..(m + 1) |-> IF k = m + 1 THEN Below(graph, reach[m]) ELSE reach[k]]
  <2>2. ASSUME NEW k \in 0..(m + 1)
        PROVE  longer[k] = IF k = 0 THEN Roots(graph) ELSE Below(graph, longer[k - 1])
    <3>1. \A j \in 0..m : reach[j] = IF j = 0 THEN Roots(graph) ELSE Below(graph, reach[j - 1])
      BY <2>1 DEF Spanning
    <3>2. CASE k = 0
      BY <3>1, <3>2
    <3>3. CASE k = m + 1
      BY <3>3
    <3>4. CASE k # 0 /\ k # m + 1
      <4>1. k \in 0..m /\ k - 1 \in 0..m /\ k - 1 # m + 1 /\ k - 1 \in 0..(m + 1)
        BY <3>4
      <4> QED BY <4>1, <3>1, <3>4
    <3> QED BY <3>2, <3>3, <3>4
  <2>3. Spanning(longer, m + 1, graph)
    <3>1. longer = [k \in 0..(m + 1) |-> longer[k]]
      OBVIOUS
    <3> HIDE DEF longer
    <3> QED BY <3>1, <2>2 DEF Spanning
  <2>4. m + 1 \in 0..N
    BY <1>2
  <2> QED BY <2>3, <2>4
<1>3. 0..N \subseteq T
  <2> HIDE DEF T
  <2> QED BY <1>1, <1>2, Onwards
<1> QED BY <1>3

\* What the roots reach, step by step.
IsSpan(reach, graph) ==
  LET N == Cardinality(DOMAIN graph)
  IN  /\ reach[0] = Roots(graph)
      /\ \A i \in 0..N : i < N => reach[i + 1] = Below(graph, reach[i])
      /\ Spanned(graph) = reach[N]

LEMMA SpanIs ==
  ASSUME NEW graph, IsGraph(graph)
  PROVE  \E reach : IsSpan(reach, graph)
<1> DEFINE N == Cardinality(DOMAIN graph)
<1>1. N \in Nat
  BY FS_CardinalityType DEF IsGraph
<1>2. \E reach : Spanning(reach, N, graph)
  <2> HIDE DEF N
  <2> QED BY <1>1, SpanningExists
<1> DEFINE reach == CHOOSE reach : reach =
             [i \in 0..N |-> IF i = 0 THEN {n \in DOMAIN graph : graph[n].parent = NoNode}
                             ELSE reach[i - 1] \cup
                                    ((UNION {graph[n].children : n \in reach[i - 1]}) \cap DOMAIN graph)]
<1>3. reach = [i \in 0..N |-> IF i = 0 THEN {n \in DOMAIN graph : graph[n].parent = NoNode}
                              ELSE reach[i - 1] \cup
                                    ((UNION {graph[n].children : n \in reach[i - 1]}) \cap DOMAIN graph)]
  BY <1>2 DEF Spanning, Roots, Below
<1>4. Spanned(graph) = reach[N]
  BY DEF Spanned
<1> HIDE DEF reach, N
<1>5. Spanning(reach, N, graph)
  BY <1>3 DEF Spanning, Roots, Below
<1>6. reach[0] = Roots(graph)
  BY <1>1, <1>5 DEF Spanning
<1>7. ASSUME NEW i \in 0..N, i < N
      PROVE  reach[i + 1] = Below(graph, reach[i])
  <2>1. i + 1 \in 0..N /\ i + 1 # 0 /\ (i + 1) - 1 = i
    BY <1>1, <1>7
  <2> QED BY <1>5, <2>1 DEF Spanning
<1>8. IsSpan(reach, graph)
  BY <1>4, <1>6, <1>7 DEF IsSpan, N
<1> QED BY <1>8

\* What is reached stays reached, and is a node.
LEMMA ReachGrows ==
  ASSUME NEW graph, IsGraph(graph), NEW reach, IsSpan(reach, graph),
         NEW i \in 0..Cardinality(DOMAIN graph)
  PROVE  reach[i] \subseteq Spanned(graph) /\ Spanned(graph) \subseteq DOMAIN graph
<1> DEFINE N == Cardinality(DOMAIN graph)
<1>1. N \in Nat
  BY FS_CardinalityType DEF IsGraph
<1>2. reach[N] = Spanned(graph) /\ reach[0] = Roots(graph)
      /\ \A k \in 0..N : k < N => reach[k + 1] = Below(graph, reach[k])
  BY DEF IsSpan
<1> HIDE DEF N
<1> DEFINE Up == {k \in i..N : reach[i] \subseteq reach[k]}
<1>3. i..N \subseteq Up
  <2>1. i \in Up /\ i \in 0..N
    BY <1>1 DEF N
  <2>2. ASSUME NEW k \in i..N, k \in Up, k < N PROVE k + 1 \in Up
    <3>1. k \in 0..N /\ k + 1 \in i..N
      BY <1>1, <2>1, <2>2
    <3> QED BY <3>1, <1>2, <2>2 DEF Below
  <2> HIDE DEF Up
  <2> QED BY <1>1, <2>1, <2>2, Onwards
<1> DEFINE In == {k \in 0..N : reach[k] \subseteq DOMAIN graph}
<1>4. 0..N \subseteq In
  <2>1. 0 \in In /\ 0 \in 0..N
    BY <1>1, <1>2 DEF Roots
  <2>2. ASSUME NEW k \in 0..N, k \in In, k < N PROVE k + 1 \in In
    <3>1. k + 1 \in 0..N
      BY <1>1, <2>2
    <3> QED BY <3>1, <1>2, <2>2 DEF Below
  <2> HIDE DEF In
  <2> QED BY <1>1, <2>1, <2>2, Onwards
<1>5. i \in 0..N
  BY DEF N
<1>6. N \in i..N /\ N \in 0..N
  BY <1>1, <1>5
<1> QED BY <1>2, <1>3, <1>4, <1>6

\* Nodes with no root among them, whose parents are all among them, are out of
\* the roots' reach.
LEMMA ReachAvoids ==
  ASSUME NEW graph, IsGraph(graph), NEW C, Roots(graph) \cap C = {},
         \A p, x \in DOMAIN graph : x \in C /\ x \in graph[p].children => p \in C
  PROVE  Spanned(graph) \cap C = {}
<1> DEFINE N == Cardinality(DOMAIN graph)
<1>1. N \in Nat
  BY FS_CardinalityType DEF IsGraph
<1>2. PICK reach : IsSpan(reach, graph)
  BY SpanIs
<1>3. reach[N] = Spanned(graph) /\ reach[0] = Roots(graph)
      /\ \A k \in 0..N : k < N => reach[k + 1] = Below(graph, reach[k])
  BY <1>2 DEF IsSpan
<1>4. \A k \in 0..N : reach[k] \subseteq DOMAIN graph
  BY <1>2, ReachGrows
<1> HIDE DEF N
<1> DEFINE T == {k \in 0..N : reach[k] \cap C = {}}
<1>5. 0..N \subseteq T
  <2>1. 0 \in T /\ 0 \in 0..N
    BY <1>1, <1>3
  <2>2. ASSUME NEW k \in 0..N, k \in T, k < N PROVE k + 1 \in T
    <3>1. k + 1 \in 0..N
      BY <1>1, <2>2
    <3>2. reach[k + 1] = Below(graph, reach[k])
      BY <1>3, <2>2
    <3>3. ASSUME NEW x \in Below(graph, reach[k]), x \in C PROVE FALSE
      <4>1. CASE x \in reach[k]
        BY <4>1, <2>2, <3>3
      <4>2. CASE x \notin reach[k]
        <5>1. PICK p \in reach[k] : x \in graph[p].children /\ x \in DOMAIN graph
          BY <3>3, <4>2 DEF Below
        <5>2. p \in C
          BY <5>1, <1>4, <3>3
        <5> QED BY <5>1, <5>2, <2>2
      <4> QED BY <4>1, <4>2
    <3> QED BY <3>1, <3>2, <3>3
  <2> HIDE DEF T
  <2> QED BY <1>1, <2>1, <2>2, Onwards
<1> QED BY <1>1, <1>3, <1>5

-----------------------------------------------------------------------------
(***************************************************************************)
(* A crawled graph: nothing is unresolved exactly in a forest              *)
(***************************************************************************)

\* Parents and children are discovered, and agree.
Anchored(graph) == \A n \in DOMAIN graph : graph[n].parent \in DOMAIN graph \cup {NoNode}

Agreeing(graph) ==
  /\ \A n \in DOMAIN graph : graph[n].children \subseteq DOMAIN graph
  /\ \A n, m \in DOMAIN graph : m \in graph[n].children <=> graph[m].parent = n

Acyclic(graph) == \A n \in DOMAIN graph : Returns(graph, n) = {}

LEMMA NothingUnresolved ==
  ASSUME NEW graph, IsGraph(graph), NoNode \notin Nat
  PROVE  graph_unresolved_refs(graph) = {} <=>
           Anchored(graph) /\ Agreeing(graph) /\ Acyclic(graph)
<1> DEFINE D == DOMAIN graph
           A == {<<n, "parent", graph[n].parent>> : n \in {x \in D : graph[x].parent \notin D \cup {NoNode}}}
           B == {<<n, "other", graph[n].parent>> : n \in
                  {x \in D : graph[x].parent \in D /\ x \notin graph[graph[x].parent].children}}
           C == UNION {{<<n, "child", c>> : c \in graph[n].children \ D} : n \in D}
           E == UNION {{<<n, "other", c>> : c \in {y \in graph[n].children \cap D : graph[y].parent # n}} : n \in D}
           F == {LET x == Chain(graph, n)[Min(Returns(graph, n))] IN <<x, "other", x>> :
                   n \in {y \in D : Returns(graph, y) # {}}}
<1>1. graph_unresolved_refs(graph) = A \cup B \cup C \cup E \cup F
  BY DEF graph_unresolved_refs
<1>2. A = {} <=> Anchored(graph)
  BY DEF Anchored
<1>3. F = {} <=> Acyclic(graph)
  <2>1. F = {} <=> {y \in D : Returns(graph, y) # {}} = {}
    OBVIOUS
  <2> QED BY <2>1 DEF Acyclic
<1>4. B = {} <=> \A x \in D : graph[x].parent \in D => x \in graph[graph[x].parent].children
  OBVIOUS
<1>5. C = {} <=> \A n \in D : graph[n].children \subseteq D
  <2>1. ASSUME NEW n \in D, NEW c \in graph[n].children, c \notin D PROVE C # {}
    <3>1. <<n, "child", c>> \in C
      BY <2>1
    <3> QED BY <3>1
  <2> QED BY <2>1
<1>6. E = {} <=> \A n, c \in D : c \in graph[n].children => graph[c].parent = n
  <2>1. ASSUME NEW n \in D, NEW c \in D, c \in graph[n].children, graph[c].parent # n PROVE E # {}
    <3>1. <<n, "other", c>> \in E
      BY <2>1
    <3> QED BY <3>1
  <2> QED BY <2>1
<1> HIDE DEF A, B, C, E, F
<1> QED BY <1>1, <1>2, <1>3, <1>4, <1>5, <1>6 DEF Agreeing

\* Without a cycle every node hangs from a root: its parent chain has more
\* steps than there are nodes, so it leaves them, and does so at a root.
LEMMA AcyclicIsSpanned ==
  ASSUME NEW graph, IsGraph(graph), NoNode \notin Nat,
         Anchored(graph), Agreeing(graph), Acyclic(graph)
  PROVE  Spanned(graph) = DOMAIN graph
<1> DEFINE D == DOMAIN graph
           N == Cardinality(D)
<1>1. N \in Nat /\ IsFiniteSet(D) /\ NoNode \notin D
  BY FS_CardinalityType DEF IsGraph
<1>2. PICK reach : IsSpan(reach, graph)
  BY SpanIs
<1>3. 0 \in 0..N
  BY <1>1
<1>4. \A i \in 0..N : reach[i] \subseteq Spanned(graph)
  BY <1>2, ReachGrows
<1>5. Spanned(graph) \subseteq D
  BY <1>2, <1>3, ReachGrows
<1>6. ASSUME NEW n \in D PROVE n \in Spanned(graph)
  <2> DEFINE up == Chain(graph, n)
  <2>1. IsChain(up, graph, n)
    BY ChainIs
  <2>2. DOMAIN up = 0..N /\ up[0] = n
    BY <2>1 DEF IsChain
  <2>3. \A i \in 0..N : i < N =>
          up[i + 1] = IF up[i] \in D THEN graph[up[i]].parent ELSE NoNode
    BY <2>1 DEF IsChain
  <2>4. \A i, j \in 0..N : up[i] \in D /\ j < i => up[j] # up[i]
    <3>1. Returns(graph, n) = {}
      BY DEF Acyclic
    <3>2. \A i \in 0..N : up[i] \in D => \A j \in 0..(i - 1) : up[j] # up[i]
      BY <2>2, <3>1 DEF Returns
    <3>3. \A i, j \in 0..N : j < i => j \in 0..(i - 1)
      BY <1>1
    <3> QED BY <3>2, <3>3
  <2> HIDE DEF up
  <2>5. \E i \in 0..N : up[i] \notin D
    <3> SUFFICES ASSUME \A i \in 0..N : up[i] \in D PROVE FALSE
      OBVIOUS
    <3> DEFINE f == [i \in 0..N |-> up[i]]
    <3>1. f \in Injection(0..N, D)
      <4>1. f \in [0..N -> D]
        OBVIOUS
      <4>2. \A i, j \in 0..N : f[i] = f[j] => i = j
        <5> SUFFICES ASSUME NEW i \in 0..N, NEW j \in 0..N, f[i] = f[j], i # j PROVE FALSE
          OBVIOUS
        <5>1. i < j \/ j < i
          BY <1>1
        <5> QED BY <5>1, <2>4
      <4> HIDE DEF f
      <4> QED BY <4>1, <4>2 DEF Injection, IsInjective
    <3>2. Cardinality(0..N) <= N
      <4> HIDE DEF f
      <4> QED BY <1>1, <3>1, FS_Injection
    <3>3. Cardinality(0..N) = N + 1
      BY <1>1, FS_Interval
    <3> QED BY <1>1, <3>2, <3>3
  <2>6. PICK m \in 0..N : up[m] \notin D /\ \A i \in 0..N : up[i] \notin D => m <= i
    <3> DEFINE Out == {i \in 0..N : up[i] \notin D}
    <3>1. Out \in SUBSET Nat /\ Out # {}
      BY <1>1, <2>5
    <3>2. PICK m \in Out : \A i \in Out : m <= i
      <4> HIDE DEF Out
      <4> QED BY <3>1, LeastNumber
    <3> QED BY <3>2
  <2>7. m # 0
    BY <2>2, <2>6
  <2> DEFINE top == m - 1
  <2>8. top \in 0..N /\ top < N /\ top + 1 = m
    BY <1>1, <2>6, <2>7
  <2>9. \A i \in 0..top : i \in 0..N /\ up[i] \in D
    BY <1>1, <2>6, <2>8
  <2>10. up[top] \in reach[0]
    <3>1. up[top] \in D
      BY <2>8, <2>9
    <3>2. up[m] = graph[up[top]].parent
      BY <2>3, <2>8, <3>1
    <3>3. graph[up[top]].parent = NoNode
      BY <2>6, <3>1, <3>2 DEF Anchored
    <3> QED BY <1>2, <3>1, <3>3 DEF IsSpan, Roots
  <2> DEFINE T == {k \in 0..top : up[top - k] \in reach[k]}
  <2>11. 0..top \subseteq T
    <3> HIDE DEF top
    <3>1. 0 \in T /\ top \in Nat /\ 0 \in 0..top
      BY <2>8, <2>10
    <3>2. ASSUME NEW k \in 0..top, k \in T, k < top PROVE k + 1 \in T
      <4> DEFINE j == top - (k + 1)
      <4>1. j \in 0..top /\ j + 1 = top - k /\ j + 1 \in 0..top /\ j < N /\ k \in 0..N /\ k < N
            /\ k + 1 \in 0..top
        BY <1>1, <2>8, <3>1, <3>2
      <4>2. up[j] \in D /\ up[j + 1] \in D /\ j \in 0..N
        BY <2>9, <4>1
      <4>3. up[j + 1] = graph[up[j]].parent
        BY <2>3, <4>1, <4>2
      <4>4. up[j] \in graph[up[j + 1]].children
        BY <4>2, <4>3 DEF Agreeing
      <4>5. up[j + 1] \in reach[k]
        BY <3>2, <4>1
      <4>6. up[j] \in Below(graph, reach[k])
        BY <4>2, <4>4, <4>5 DEF Below
      <4>7. reach[k + 1] = Below(graph, reach[k])
        BY <1>2, <4>1 DEF IsSpan
      <4> QED BY <4>1, <4>6, <4>7
    <3> HIDE DEF T
    <3> QED BY <3>1, <3>2, Onwards
  <2>12. up[0] \in reach[top]
    <3>1. top \in 0..top /\ top - top = 0
      BY <2>8
    <3> QED BY <3>1, <2>11
  <2> QED BY <1>4, <2>2, <2>8, <2>12
<1> QED BY <1>5, <1>6

\* A node that its own parent chain comes back to is out of the roots' reach.
LEMMA SpannedIsAcyclic ==
  ASSUME NEW graph, IsGraph(graph), NoNode \notin Nat,
         Agreeing(graph), Spanned(graph) = DOMAIN graph
  PROVE  Acyclic(graph)
<1> DEFINE D == DOMAIN graph
           N == Cardinality(D)
<1>1. N \in Nat /\ NoNode \notin D
  BY FS_CardinalityType DEF IsGraph
<1> SUFFICES ASSUME NEW n \in D, NEW i \in Returns(graph, n) PROVE FALSE
  BY DEF Acyclic
<1> DEFINE up == Chain(graph, n)
<1>2. IsChain(up, graph, n)
  BY ChainIs
<1>3. DOMAIN up = 0..N
      /\ \A k \in 0..N : k < N =>
           up[k + 1] = IF up[k] \in D THEN graph[up[k]].parent ELSE NoNode
  BY <1>2 DEF IsChain
<1>4. i \in 0..N /\ up[i] \in D /\ \E j \in 0..(i - 1) : up[j] = up[i]
  BY <1>3 DEF Returns
<1> HIDE DEF up
<1>5. PICK j \in 0..(i - 1) : up[j] = up[i]
  BY <1>4
<1>6. \A k \in 0..i : up[k] \in D
  BY <1>1, <1>2, <1>4, ChainBelow
<1> DEFINE C == {up[k] : k \in j..i}
<1>7. i \in Nat /\ j \in Nat /\ j < i /\ i <= N
  BY <1>1, <1>4, <1>5
<1>8. ASSUME NEW x \in C PROVE x \in D /\ graph[x].parent \in C /\ graph[x].parent \in D
  <2>1. PICK k \in j..i : x = up[k]
    OBVIOUS
  <2>2. PICK l \in j..i : x = up[l] /\ l < i
    <3>1. CASE k = i
      BY <1>5, <1>7, <2>1, <3>1
    <3>2. CASE k # i
      BY <1>7, <2>1, <3>2
    <3> QED BY <3>1, <3>2
  <2>3. l \in 0..N /\ l < N /\ l \in 0..i /\ l + 1 \in j..i /\ l + 1 \in 0..i
    <3> HIDE DEF N
    <3> QED BY <1>1, <1>7, <2>2
  <2>4. up[l] \in D /\ up[l + 1] \in D
    BY <1>6, <2>3
  <2>5. graph[x].parent = up[l + 1]
    BY <1>3, <2>2, <2>3, <2>4
  <2>6. up[l + 1] \in C
    BY <2>3
  <2> QED BY <2>2, <2>4, <2>5, <2>6
<1>9. up[i] \in C
  BY <1>7
<1> HIDE DEF C
<1>10. Roots(graph) \cap C = {}
  BY <1>1, <1>8 DEF Roots
<1>11. \A p, x \in D : x \in C /\ x \in graph[p].children => p \in C
  BY <1>8 DEF Agreeing
<1>12. Spanned(graph) \cap C = {}
  BY <1>10, <1>11, ReachAvoids
<1> QED BY <1>4, <1>9, <1>12

\* A reached node is a root or a child, so its parent is discovered.
LEMMA SpannedIsAnchored ==
  ASSUME NEW graph, IsGraph(graph), Agreeing(graph), Spanned(graph) = DOMAIN graph
  PROVE  Anchored(graph)
<1> DEFINE C == {n \in DOMAIN graph : graph[n].parent \notin DOMAIN graph \cup {NoNode}}
<1>1. Roots(graph) \cap C = {}
  BY DEF Roots
<1>2. \A p, x \in DOMAIN graph : x \in C /\ x \in graph[p].children => p \in C
  BY DEF Agreeing
<1>3. Spanned(graph) \cap C = {}
  <2> HIDE DEF C
  <2> QED BY <1>1, <1>2, ReachAvoids
<1> QED BY <1>3 DEF Anchored

LEMMA ForestIsResolved ==
  ASSUME NEW graph, IsGraph(graph), NoNode \notin Nat
  PROVE  graph_unresolved_refs(graph) = {} <=> IsForest(graph)
<1>1. IsForest(graph) <=> Agreeing(graph) /\ Spanned(graph) = DOMAIN graph
  BY DEF IsForest, Agreeing
<1> QED BY <1>1, NothingUnresolved, AcyclicIsSpanned, SpannedIsAcyclic, SpannedIsAnchored

\* A forest with a node has a root.
LEMMA ForestHasRoot ==
  ASSUME NEW graph, IsGraph(graph), IsForest(graph), DOMAIN graph # {}
  PROVE  Roots(graph) # {}
<1> SUFFICES ASSUME Roots(graph) = {} PROVE FALSE
  OBVIOUS
<1>1. Spanned(graph) \cap DOMAIN graph = {}
  BY ReachAvoids
<1> QED BY <1>1 DEF IsForest

-----------------------------------------------------------------------------
(***************************************************************************)
(* A capture receipt                                                       *)
(***************************************************************************)

\* The first return to a node, where there is one, is to a node.
LEMMA FirstReturn ==
  ASSUME NEW graph, IsGraph(graph), NEW n, Returns(graph, n) # {}
  PROVE  Chain(graph, n)[Min(Returns(graph, n))] \in DOMAIN graph
<1> DEFINE R == Returns(graph, n)
<1>1. IsChain(Chain(graph, n), graph, n)
  BY ChainIs
<1>2. R \in SUBSET Nat /\ R # {} /\ \A i \in R : Chain(graph, n)[i] \in DOMAIN graph
  BY <1>1 DEF Returns, IsChain
<1>3. PICK m \in R : \A i \in R : m <= i
  <2> HIDE DEF R
  <2> QED BY <1>2, LeastNumber
<1>4. Min(R) \in R
  <2> HIDE DEF R
  <2> QED BY <1>3 DEF Min
<1> QED BY <1>2, <1>4

\* What is recorded as unresolved is recorded of a node.
LEMMA UnresolvedOfNodes ==
  ASSUME NEW graph, IsGraph(graph), NEW current
  PROVE  /\ \A u \in graph_unresolved_refs(graph) : u[1] \in DOMAIN graph
         /\ \A u \in active_branch(graph, current).unresolved : u[1] \in DOMAIN graph
<1> DEFINE D == DOMAIN graph
<1>1. ASSUME NEW u \in graph_unresolved_refs(graph) PROVE u[1] \in D
  <2> DEFINE A == {<<n, "parent", graph[n].parent>> : n \in {x \in D : graph[x].parent \notin D \cup {NoNode}}}
             B == {<<n, "other", graph[n].parent>> : n \in
                    {x \in D : graph[x].parent \in D /\ x \notin graph[graph[x].parent].children}}
             C == UNION {{<<n, "child", c>> : c \in graph[n].children \ D} : n \in D}
             E == UNION {{<<n, "other", c>> :
                           c \in {y \in graph[n].children \cap D : graph[y].parent # n}} : n \in D}
             F == {LET x == Chain(graph, n)[Min(Returns(graph, n))] IN <<x, "other", x>> :
                     n \in {y \in D : Returns(graph, y) # {}}}
  <2>1. graph_unresolved_refs(graph) = A \cup B \cup C \cup E \cup F
    BY DEF graph_unresolved_refs
  <2>2. \A v \in A : v[1] \in D
    OBVIOUS
  <2>3. \A v \in B : v[1] \in D
    OBVIOUS
  <2>4. \A v \in C : v[1] \in D
    OBVIOUS
  <2>5. \A v \in E : v[1] \in D
    OBVIOUS
  <2>6. \A v \in F : v[1] \in D
    BY FirstReturn
  <2> HIDE DEF A, B, C, E, F
  <2> QED BY <1>1, <2>1, <2>2, <2>3, <2>4, <2>5, <2>6
<1>2. ASSUME NEW u \in active_branch(graph, current).unresolved PROVE u[1] \in D
  <2>1. CASE current = NoNode \/ D = {}
    BY <1>2, <2>1 DEF active_branch
  <2>2. CASE ~(current = NoNode \/ D = {}) /\ current \notin D
    <3>1. u = <<Min(D), "other", current>>
      BY <1>2, <2>2 DEF active_branch
    <3>2. PICK m \in D : \A i \in D : m <= i
      BY <2>2, LeastNumber DEF IsGraph
    <3>3. Min(D) \in D
      <4> HIDE DEF D
      <4> QED BY <3>2 DEF Min
    <3> QED BY <3>1, <3>3
  <2>3. CASE ~(current = NoNode \/ D = {}) /\ current \in D
    <3> DEFINE x == Chain(graph, current)[Min(Returns(graph, current))]
    <3>1. Returns(graph, current) # {} /\ u = <<x, "other", x>>
      BY <1>2, <2>3 DEF active_branch
    <3>2. x \in D
      BY <3>1, FirstReturn
    <3> QED BY <3>1, <3>2
  <2> QED BY <2>1, <2>2, <2>3
<1> QED BY <1>1, <1>2

\* The active branch is of nodes, and with an acyclic graph all that can be
\* unresolved about it is the current node.
LEMMA ActiveBranch ==
  ASSUME NEW graph, NEW current
  PROVE  /\ active_branch(graph, current).path \subseteq DOMAIN graph
         /\ Acyclic(graph) /\ DOMAIN graph # {} =>
              (active_branch(graph, current).unresolved = {}
                 <=> current \in DOMAIN graph \cup {NoNode})
<1> DEFINE D == DOMAIN graph
           a == active_branch(graph, current)
<1>1. CASE current = NoNode \/ D = {}
  <2>1. a = [path |-> {}, unresolved |-> {}]
    BY <1>1 DEF active_branch
  <2> QED BY <1>1, <2>1
<1>2. CASE ~(current = NoNode \/ D = {}) /\ current \notin D
  <2>1. a = [path |-> {}, unresolved |-> {<<Min(D), "other", current>>}]
    BY <1>2 DEF active_branch
  <2> DEFINE u == <<Min(D), "other", current>>
  <2>2. a.path = {} /\ a.unresolved # {}
    <3>1. a = [path |-> {}, unresolved |-> {u}]
      BY <2>1
    <3> HIDE DEF a, u
    <3> QED BY <3>1
  <2> HIDE DEF a
  <2> QED BY <1>2, <2>2 DEF a
<1>3. CASE ~(current = NoNode \/ D = {}) /\ current \in D
  <2>1. a.path \subseteq D
    BY <1>3 DEF active_branch
  <2>2. Acyclic(graph) => a.unresolved = {}
    BY <1>3 DEF active_branch, Acyclic
  <2> QED BY <1>3, <2>1, <2>2
<1> QED BY <1>1, <1>2, <1>3

\* The receipt the builder derives, field by field.
Built(r, graph, current, k) ==
  LET D == DOMAIN graph IN
  /\ r.discovered = D /\ r.accounted = D
  /\ r.messages = {n \in D : graph[n].message} /\ r.roots = Roots(graph)
  /\ r.current = recorded_current(graph, current)
  /\ r.active = active_branch(graph, current).path /\ r.non_active = D \ r.active
  /\ r.unresolved = graph_unresolved_refs(graph) \cup active_branch(graph, current).unresolved
  /\ r.continuation = k
  /\ r.completeness = "complete" <=>
       /\ D # {} /\ r.messages # {} /\ r.roots # {} /\ r.unresolved = {}
       /\ continuation_is_terminal_success(k)

LEMMA ReceiptIsBuilt ==
  ASSUME NEW graph, NEW current, NEW k
  PROVE  Built(build_receipt(graph, current, k), graph, current, k)
BY DEF build_receipt, Built, Roots

\* The validator takes what the builder derives.
LEMMA BuiltIsValid ==
  ASSUME NEW graph, IsGraph(graph), NEW current, NEW k
  PROVE  receipt_is_valid(build_receipt(graph, current, k))
<1> DEFINE r == build_receipt(graph, current, k)
           D == DOMAIN graph
<1>1. Built(r, graph, current, k)
  BY ReceiptIsBuilt
<1> HIDE DEF r
<1>2. r.accounted \cup r.messages \cup r.roots \subseteq r.discovered
  BY <1>1 DEF Built, Roots
<1>3. r.active \cap r.non_active = {} /\ r.active \cup r.non_active = r.discovered
  <2>1. r.active \subseteq D /\ r.non_active = D \ r.active /\ r.discovered = D
    BY <1>1, ActiveBranch DEF Built
  <2> QED BY <2>1
<1>4. r.current \in r.discovered \cup {NoNode}
  BY <1>1 DEF Built, recorded_current
<1>5. \A u \in r.unresolved : u[1] \in r.discovered
  BY <1>1, UnresolvedOfNodes DEF Built
<1>6. r.completeness = "complete" =>
        /\ r.discovered # {} /\ r.messages # {} /\ r.roots # {}
        /\ r.accounted = r.discovered /\ r.unresolved = {}
        /\ continuation_is_terminal_success(r.continuation)
  BY <1>1 DEF Built
<1>7. receipt_is_valid(r)
  BY <1>2, <1>3, <1>4, <1>5, <1>6 DEF receipt_is_valid
<1> QED BY <1>7 DEF r

\* A receipt is complete exactly for a whole conversation.
LEMMA CompleteIsWhole ==
  ASSUME NEW graph, IsGraph(graph), NoNode \notin Nat, NEW current, NEW k
  PROVE  require_complete(build_receipt(graph, current, k)) <=>
           /\ IsForest(graph)
           /\ \E n \in DOMAIN graph : graph[n].message
           /\ current \in DOMAIN graph \cup {NoNode}
           /\ continuation_is_terminal_success(k)
<1> DEFINE r == build_receipt(graph, current, k)
           a == active_branch(graph, current)
           D == DOMAIN graph
<1>1. require_complete(r) <=>
        /\ D # {} /\ {n \in D : graph[n].message} # {} /\ Roots(graph) # {}
        /\ graph_unresolved_refs(graph) \cup a.unresolved = {}
        /\ continuation_is_terminal_success(k)
  <2>1. require_complete(r) <=> r.completeness = "complete"
    BY BuiltIsValid DEF require_complete
  <2>2. Built(r, graph, current, k)
    BY ReceiptIsBuilt
  <2> HIDE DEF r
  <2> QED BY <2>1, <2>2 DEF Built
<1>2. graph_unresolved_refs(graph) \cup a.unresolved = {}
        <=> graph_unresolved_refs(graph) = {} /\ a.unresolved = {}
  OBVIOUS
<1>3. graph_unresolved_refs(graph) = {} <=> IsForest(graph)
  BY ForestIsResolved
<1>4. IsForest(graph) => Acyclic(graph)
  BY <1>3, NothingUnresolved
<1>5. IsForest(graph) /\ D # {} =>
        /\ Roots(graph) # {}
        /\ a.unresolved = {} <=> current \in D \cup {NoNode}
  BY <1>4, ActiveBranch, ForestHasRoot
<1>6. {n \in D : graph[n].message} # {} <=> \E n \in D : graph[n].message
  OBVIOUS
<1> HIDE DEF r, a, D
<1>7. (\E n \in D : graph[n].message) => D # {}
  OBVIOUS
<1> QED BY <1>1, <1>2, <1>3, <1>5, <1>6, <1>7 DEF r, D

\* What is crawled is a graph: one node at a time is discovered.
LEMMA DiscoverGrows ==
  ASSUME IngestInv, IsGraph(nodes), NEW n, NEW node, Discover(n, node)
  PROVE  IsGraph(nodes)'
<1>1. DOMAIN nodes' = DOMAIN nodes \cup {n}
  BY DEF Discover
<1>2. n \in Nat
  <2>1. Len(manifest) \in Nat
    BY TakenIsCounted DEF IngestInv
  <2>2. Len(manifest) + 1 \in 1..MaxVersions
    BY <2>1, ChatAssumption DEF Discover
  <2> QED BY <2>2, ChatAssumption DEF Discover
<1> QED BY <1>1, <1>2, FS_AddElement DEF IsGraph

\* A capture starts the next graph, an import leaves it alone.
LEMMA NextGraph ==
  ASSUME IngestInv, IsGraph(nodes), [IngestNext]_ingest_vars
  PROVE  IsGraph(nodes)'
<1>1. CASE nodes' = nodes
  BY <1>1 DEF IsGraph
<1>2. ASSUME NEW n, NEW node, Discover(n, node) PROVE IsGraph(nodes)'
  BY <1>2, DiscoverGrows
<1>3. ASSUME NEW current, NEW k, NEW d, Capture(current, k, d) PROVE IsGraph(nodes)'
  <2>1. DOMAIN nodes' = {}
    BY <1>3 DEF Capture
  <2> QED BY <2>1, FS_EmptySet DEF IsGraph
<1>4. ASSUME NEW i \in Importers, Import(i) PROVE nodes' = nodes
  BY <1>4 DEF Import, Start, AddSource, PublishReceipt, RequireComplete, CommitEnvelope,
     PublishLineage, CommitEvent, Crash
<1>5. ASSUME NEW v \in Versions, RedactSource(v) PROVE nodes' = nodes
  BY <1>5 DEF RedactSource
<1> QED BY <1>1, <1>2, <1>3, <1>4, <1>5 DEF IngestNext, Crawl, ingest_vars

\* Whatever a page exposes, in whatever order, a receipt says complete exactly
\* for a forest that its roots span, with a message, a discovered current node
\* and continuations that ended well, and the validator takes every receipt
\* that is built (build_shared_chat_capture_receipt, _graph_unresolved_refs,
\* _active_branch and require_complete_shared_chat_capture in
\* application/ingest/shared_chat_capture.py).
THEOREM HonestCaptures == IngestSpec => []CaptureIsHonest
<1>1. IngestInit => IsGraph(nodes)
  <2>1. IngestInit => DOMAIN nodes = {}
    BY DEF IngestInit
  <2> QED BY <2>1, FS_EmptySet DEF IsGraph
<1>2. IngestInv /\ IsGraph(nodes) /\ [IngestNext]_ingest_vars => IngestInv' /\ IsGraph(nodes)'
  BY NextIngest, StutterIngest, NextGraph
<1>3. IsGraph(nodes) => CaptureIsHonest
  <2> SUFFICES ASSUME IsGraph(nodes) PROVE CaptureIsHonest
    OBVIOUS
  <2>1. NoNode \notin Nat
    BY ChatAssumption
  <2>2. CompleteMeansWhole
    BY <2>1, CompleteIsWhole DEF CompleteMeansWhole
  <2>3. BuiltReceiptIsValid
    BY BuiltIsValid DEF BuiltReceiptIsValid
  <2> QED BY <2>2, <2>3 DEF CaptureIsHonest
<1> QED BY <1>1, <1>2, <1>3, InitIngest, PTL DEF IngestSpec
-----------------------------------------------------------------------------
(***************************************************************************)
(* The agent boundary.  An answer is checked where it is made, so the      *)
(* invariant is short: ids tell the events apart, which is what makes a    *)
(* scan an order, and a proposal carries its session's actor.              *)
(***************************************************************************)

\* Events in a scan have a place of their own.
Numbered(S) ==
  IsFiniteSet(S) /\ \A d, e \in S : d.id \in Nat /\ (d.id = e.id => d = e)

ProposalOK ==
  reply # NoReply /\ reply.op = "propose" =>
    reply.items[1].id \in Nat /\ reply.items[1].actor = reply.session.actor

AgentInv == Numbered(events) /\ RepliesStayInScope /\ ProposalOK

LEMMA ScanProperties ==
  ASSUME NEW S, Numbered(S)
  PROVE  /\ Scan(S) \in Seq(S) /\ Len(Scan(S)) = Cardinality(S) /\ Cardinality(S) \in Nat
         /\ \A e \in S : \E i \in 1..Cardinality(S) : Scan(S)[i] = e
         /\ \A i, j \in 1..Cardinality(S) : i < j => Scan(S)[i].id < Scan(S)[j].id
<1> DEFINE key == [e \in S |-> e.id]
           n == Cardinality(S)
<1>1. Keyed(S, key)
  BY DEF Numbered, Keyed
<1>2. Lists(Scan(S), S, key)
  BY <1>1, InOrderLists DEF Scan
<1>3. /\ Scan(S) \in Seq(S) /\ Len(Scan(S)) = n /\ n \in Nat
      /\ \A e \in S : \E i \in 1..n : Scan(S)[i] = e
      /\ \A i, j \in 1..n : i < j => key[Scan(S)[i]] < key[Scan(S)[j]]
  <2> HIDE DEF key
  <2> QED BY <1>2 DEF Lists
<1>4. \A i \in 1..n : Scan(S)[i] \in S
  BY <1>3
<1> QED BY <1>3, <1>4

LEMMA FirstsProperties ==
  ASSUME NEW S, NEW s \in Seq(S), NEW n \in Nat
  PROVE  /\ Firsts(s, n) \in Seq(S)
         /\ Len(Firsts(s, n)) = IF n < Len(s) THEN n ELSE Len(s)
         /\ \A i \in 1..Len(Firsts(s, n)) : Firsts(s, n)[i] = s[i]
<1>1. PICK m \in 0..Len(s) : m = IF n < Len(s) THEN n ELSE Len(s)
  BY LenProperties
<1>2. SubSeq(s, 1, m) \in Seq(S) /\ Len(SubSeq(s, 1, m)) = m /\ \A i \in 1..m : SubSeq(s, 1, m)[i] = s[i]
  BY <1>1
<1>. QED  BY <1>1, <1>2 DEF Firsts

\* What a search may find is numbered as the events are.
LEMMA NumberedSubset ==
  ASSUME NEW S, Numbered(S), NEW T \in SUBSET S
  PROVE  Numbered(T)
BY FS_Subset DEF Numbered

LEMMA AgentInvInit == AgentInit => AgentInv
BY FS_EmptySet DEF AgentInit, AgentInv, Numbered, RepliesStayInScope, ProposalOK

\* An answer of a call that proposes nothing.
LEMMA Answers ==
  ASSUME AgentInv, NEW op, op # "propose", NEW s, NEW scope, NEW items, NEW needle, NEW limit, events' = events,
         reply' = [op |-> op, session |-> s, scope |-> scope, items |-> items, needle |-> needle, limit |-> limit],
         scope \subseteq s.read, \A i \in DOMAIN items : items[i].pack \in scope
  PROVE  AgentInv'
BY DEF AgentInv, Numbered, RepliesStayInScope, ProposalOK

LEMMA ProposalStep ==
  ASSUME AgentInv, NEW s, NEW e, e.pack \in s.write, e.id \in Nat, e.actor = s.actor, events' = events,
         reply' = Answered("propose", s, s.write, <<e>>)
  PROVE  AgentInv'
<1>1. /\ reply'.op = "propose" /\ reply'.session = s /\ reply'.scope = s.write /\ reply'.items = <<e>>
  BY DEF Answered
<1>2. reply'.items[1] = e /\ DOMAIN reply'.items = {1}
  BY <1>1
<1>. QED  BY <1>1, <1>2 DEF AgentInv, Numbered, RepliesStayInScope, ProposalOK

\* A commit adds an event under a new id.
LEMMA CommitStep ==
  ASSUME AgentInv, NEW e, e.id \in Nat, \A d \in events : d.id # e.id,
         events' = events \cup {e}, reply' = reply
  PROVE  AgentInv'
<1>1. Numbered(events)'
  BY FS_AddElement DEF AgentInv, Numbered
<1>. QED  BY <1>1 DEF AgentInv, RepliesStayInScope, ProposalOK

LEMMA StoredTyped ==
  ASSUME NEW e \in StoredEvents
  PROVE  /\ e.id \in Nat
         /\ \A a : /\ [e EXCEPT !.actor = a].id = e.id /\ [e EXCEPT !.actor = a].pack = e.pack
                   /\ [e EXCEPT !.actor = a].actor = a
         /\ \A p, a : /\ [e EXCEPT !.id = @ + 100, !.pack = p, !.actor = a].id = e.id + 100
                      /\ [e EXCEPT !.id = @ + 100, !.pack = p, !.actor = a].pack = p
                      /\ [e EXCEPT !.id = @ + 100, !.pack = p, !.actor = a].actor = a
BY AgentAssumption

LEMMA SearchRetrieverStep ==
  ASSUME AgentInv, NEW s, NEW limit \in 1..MaxResults, NEW items \in SeqOf(Results, MaxResults + 1),
         SearchRetriever(s, limit, items)
  PROVE  AgentInv'
<1>1. items \in Seq(Results)
  BY AgentAssumption DEF SeqOf
<1>2. limit \in Nat
  BY AgentAssumption
<1>3. /\ Firsts(items, limit) \in Seq(Results)
      /\ Len(Firsts(items, limit)) = IF limit < Len(items) THEN limit ELSE Len(items)
      /\ \A i \in 1..Len(Firsts(items, limit)) : Firsts(items, limit)[i] = items[i]
  BY <1>1, <1>2, FirstsProperties
<1>4. \A i \in DOMAIN Firsts(items, limit) : i \in DOMAIN items /\ Firsts(items, limit)[i] = items[i]
  BY <1>1, <1>2, <1>3, LenProperties
<1>5. \A i \in DOMAIN Firsts(items, limit) : Firsts(items, limit)[i].pack \in s.read
  BY <1>4 DEF SearchRetriever, _require_result_scope
<1>6. /\ reply' = [op |-> "search", session |-> s, scope |-> s.read, items |-> Firsts(items, limit),
                   needle |-> "", limit |-> 0]
      /\ events' = events
  BY DEF SearchRetriever, Answered
<1>. QED  BY <1>5, <1>6, Answers

\* The first matches a session can read.
Matches(s, needle) == {e \in events : e.pack \in s.read /\ (needle = "" \/ needle \in e.words)}

LEMMA SearchEventsStep ==
  ASSUME AgentInv, NEW s, NEW needle, NEW limit \in 1..MaxResults, SearchEvents(s, needle, limit)
  PROVE  /\ AgentInv'
         /\ reply'.session = s /\ reply'.needle = needle /\ reply'.limit = limit
         /\ reply'.items = Firsts(Scan(Matches(s, needle)), limit)
<1> DEFINE found == Matches(s, needle)
           items == Firsts(Scan(found), limit)
<1>1. /\ reply' = [op |-> "search", session |-> s, scope |-> s.read, items |-> items,
                   needle |-> needle, limit |-> limit]
      /\ events' = events
  BY DEF SearchEvents, Answered, Matches
<1>2. found \in SUBSET events /\ Numbered(found)
  BY NumberedSubset DEF AgentInv, Matches
<1>3. items \in Seq(found)
  BY <1>2, ScanProperties, FirstsProperties, AgentAssumption
<1>4. \A e \in found : e.pack \in s.read
  BY DEF Matches
<1> HIDE DEF items, found
<1>5. \A i \in DOMAIN items : items[i].pack \in s.read
  BY <1>3, <1>4
<1>6. AgentInv'
  BY <1>1, <1>5, Answers
<1>7. /\ reply'.session = s /\ reply'.needle = needle /\ reply'.limit = limit /\ reply'.items = items
  BY <1>1
<1>. QED  BY <1>6, <1>7 DEF items, found

\* Whatever the limit leaves out comes after what was found.
LEMMA SearchIsComplete ==
  ASSUME AgentInv, NEW s, NEW needle, NEW limit \in 1..MaxResults, SearchEvents(s, needle, limit)
  PROVE  \A e \in Matches(s, needle) \ Range(reply'.items) :
           Len(reply'.items) = limit /\ \A d \in Range(reply'.items) : d.id < e.id
<1> DEFINE found == Matches(s, needle)
           all == Scan(found)
           items == Firsts(all, limit)
           n == Cardinality(found)
<1>1. limit \in Nat /\ reply'.items = items
  BY SearchEventsStep, AgentAssumption
<1>2. Numbered(found)
  BY NumberedSubset DEF AgentInv, Matches
<1>3. /\ all \in Seq(found) /\ Len(all) = n /\ n \in Nat
      /\ \A e \in found : \E i \in 1..n : all[i] = e
      /\ \A i, j \in 1..n : i < j => all[i].id < all[j].id
  BY <1>2, ScanProperties
<1> HIDE DEF all, found, n
<1>4. /\ items \in Seq(found) /\ Len(items) = IF limit < n THEN limit ELSE n
      /\ \A i \in 1..Len(items) : items[i] = all[i]
  BY <1>1, <1>3, FirstsProperties
<1>5. DOMAIN items = 1..Len(items) /\ Len(items) \in Nat
  BY <1>4, LenProperties
<1> HIDE DEF items
<1> SUFFICES ASSUME NEW e \in found, e \notin Range(items)
             PROVE  Len(items) = limit /\ \A d \in Range(items) : d.id < e.id
  BY <1>1 DEF found
<1>6. PICK k \in 1..n : all[k] = e
  BY <1>3
<1>7. k \notin 1..Len(items)
  BY <1>4, <1>5, <1>6 DEF Range
<1>8. Len(items) = limit /\ limit < k
  BY <1>1, <1>3, <1>4, <1>5, <1>7
<1>9. ASSUME NEW d \in Range(items) PROVE d.id < e.id
  <2>1. PICK i \in 1..Len(items) : items[i] = d
    BY <1>5 DEF Range
  <2>2. i \in 1..n /\ i < k
    BY <1>1, <1>3, <1>8
  <2>. QED  BY <1>3, <1>4, <1>6, <2>1, <2>2
<1>. QED  BY <1>8, <1>9

LEMMA ReadStep ==
  ASSUME AgentInv, NEW s,
         \/ \E requested, items : ReadContext(s, requested, items)
         \/ \E e \in events : ReadEvent(s, e)
         \/ \E c : ReadThread(s, c)
  PROVE  AgentInv'
<1>1. CASE \E requested, items : ReadContext(s, requested, items)
  <2>1. PICK requested, items : ReadContext(s, requested, items)
    BY <1>1
  <2>2. PICK scope : scope = _authorized_pack_ids(requested, s)
    OBVIOUS
  <2>3. /\ scope \subseteq s.read /\ \A i \in DOMAIN items : items[i].pack \in scope
        /\ reply' = [op |-> "context", session |-> s, scope |-> scope, items |-> items, needle |-> "", limit |-> 0]
        /\ events' = events
    BY <2>1, <2>2 DEF ReadContext, require_read, _require_result_scope, Answered
  <2>. QED  BY <2>3, Answers
<1>2. CASE \E e \in events : ReadEvent(s, e)
  <2>1. PICK e \in events : ReadEvent(s, e)
    BY <1>2
  <2>2. PICK items : items = <<e>>
    OBVIOUS
  <2>3. PICK scope : scope = {e.pack}
    OBVIOUS
  <2>4. /\ e.pack \in s.read /\ events' = events
        /\ reply' = Answered("read", s, scope, items)
    BY <2>1, <2>2, <2>3 DEF ReadEvent, require_read
  <2>5. scope \subseteq s.read /\ \A i \in DOMAIN items : items[i].pack \in scope
    BY <2>2, <2>3, <2>4
  <2>. QED  BY <2>4, <2>5, Answers DEF Answered
<1>3. CASE \E c : ReadThread(s, c)
  <2>1. PICK c : ReadThread(s, c)
    BY <1>3
  <2>2. PICK items : items = <<[id |-> c, pack |-> Threads[c]]>>
    OBVIOUS
  <2>3. PICK scope : scope = {Threads[c]}
    OBVIOUS
  <2>4. /\ Threads[c] \in s.read /\ events' = events
        /\ reply' = Answered("lineage", s, scope, items)
    BY <2>1, <2>2, <2>3 DEF ReadThread, require_read
  <2>5. scope \subseteq s.read /\ \A i \in DOMAIN items : items[i].pack \in scope
    BY <2>2, <2>3, <2>4
  <2>. QED  BY <2>4, <2>5, Answers DEF Answered
<1>. QED  BY <1>1, <1>2, <1>3

LEMMA ProposeStep ==
  ASSUME AgentInv, NEW s, NEW e \in StoredEvents,
         Propose(s, e) \/ \E target : ProposePromotion(s, e, target)
  PROVE  AgentInv'
<1>1. CASE Propose(s, e)
  <2>1. PICK p : p = [e EXCEPT !.actor = s.actor]
    OBVIOUS
  <2>2. p.id \in Nat /\ p.actor = s.actor /\ p.pack = e.pack
    BY <2>1, StoredTyped
  <2>3. e.pack \in s.write /\ events' = events /\ reply' = Answered("propose", s, s.write, <<p>>)
    BY <1>1, <2>1 DEF Propose, require_write
  <2>. QED  BY <2>2, <2>3, ProposalStep
<1>2. CASE \E target : ProposePromotion(s, e, target)
  <2>1. PICK target : ProposePromotion(s, e, target)
    BY <1>2
  <2>2. PICK p : p = [e EXCEPT !.id = @ + 100, !.pack = target, !.actor = s.actor]
    OBVIOUS
  <2>3. p.id = e.id + 100 /\ p.actor = s.actor /\ p.pack = target /\ e.id \in Nat
    BY <2>2, StoredTyped
  <2>4. target \in s.write /\ events' = events /\ reply' = Answered("propose", s, s.write, <<p>>)
    BY <2>1, <2>2 DEF ProposePromotion, require_write
  <2>5. p.id \in Nat
    BY <2>3
  <2>. QED  BY <2>3, <2>4, <2>5, ProposalStep
<1>. QED  BY <1>1, <1>2

\* The calls of a session.
Call(s) ==
  \/ \E limit \in 1..MaxResults, items \in SeqOf(Results, MaxResults + 1) : SearchRetriever(s, limit, items)
  \/ \E limit \in 1..MaxResults, needle \in Needles : SearchEvents(s, needle, limit)
  \/ \E requested, items : ReadContext(s, requested, items)
  \/ \E e \in events : ReadEvent(s, e)
  \/ \E c : ReadThread(s, c)
  \/ \E e \in StoredEvents : Propose(s, e)
  \/ \E e \in StoredEvents : \E target : ProposePromotion(s, e, target)

\* The writers, and the end of a call.
Others ==
  \/ reply # NoReply /\ reply.op = "propose" /\ \E s \in Sessions : AgentWrite(s, reply.items[1])
  \/ Consume
  \/ \E e \in StoredEvents : OtherWrite(e)
  \/ \E e \in events : Erase(e)

LEMMA AgentSteps == AgentNext => Others \/ \E s \in Sessions : Call(s)
BY DEF AgentNext, Others, Call

LEMMA AgentInvNext == AgentInv /\ [AgentNext]_avars => AgentInv'
<1> SUFFICES ASSUME AgentInv, [AgentNext]_avars PROVE AgentInv'
  OBVIOUS
<1>1. CASE UNCHANGED avars
  BY <1>1 DEF avars, AgentInv, Numbered, RepliesStayInScope, ProposalOK
<1>2. CASE \E s \in Sessions : Call(s)
  BY <1>2, SearchRetrieverStep, SearchEventsStep, ReadStep, ProposeStep DEF Call
<1>3. CASE Others
  <2>1. CASE reply # NoReply /\ reply.op = "propose" /\ \E s \in Sessions : AgentWrite(s, reply.items[1])
    <3>1. reply.items[1].id \in Nat
      BY <2>1 DEF AgentInv, ProposalOK
    <3>. QED  BY <2>1, <3>1, CommitStep DEF AgentWrite
  <2>2. CASE Consume
    BY <2>2 DEF Consume, AgentInv, Numbered, RepliesStayInScope, ProposalOK
  <2>3. CASE \E e \in StoredEvents : OtherWrite(e)
    BY <2>3, StoredTyped, CommitStep DEF OtherWrite
  <2>4. CASE \E e \in events : Erase(e)
    <3>1. PICK e \in events : events' = events \ {e} /\ reply' = reply
      BY <2>4 DEF Erase
    <3>2. Numbered(events')
      BY <3>1, NumberedSubset DEF AgentInv
    <3>. QED  BY <3>1, <3>2 DEF AgentInv, RepliesStayInScope, ProposalOK, Numbered
  <2>. QED  BY <1>3, <2>1, <2>2, <2>3, <2>4 DEF Others
<1>. QED  BY <1>1, <1>2, <1>3, AgentSteps

\* Only search over events sets a limit.
LEMMA OnlySearchCuts ==
  ASSUME NEW s, Call(s), reply'.limit > 0
  PROVE  \E limit \in 1..MaxResults, needle \in Needles : SearchEvents(s, needle, limit)
<1>1. \A op, scope, items : Answered(op, s, scope, items).limit = 0
  BY DEF Answered
<1>2. ASSUME ~\E limit \in 1..MaxResults, needle \in Needles : SearchEvents(s, needle, limit)
      PROVE  \E op, scope, items : reply' = Answered(op, s, scope, items)
  BY <1>2 DEF Call, SearchRetriever, ReadContext, ReadEvent, ReadThread, Propose, ProposePromotion
<1>. QED  BY <1>1, <1>2

\* A session reads and speaks for its own packs and actor, whatever retrievers
\* and providers return, other writers commit and erasures take away
\* (CorpusService's scope checks, _require_actor_match), and a search misses a
\* readable event only for earlier ones that fill its limit.
THEOREM AgentBoundary == AgentSpec => AgentsStayInTheirPacks
<1>1. AgentInv => RepliesStayInScope /\ ProposalsBindTheirActor
  BY DEF AgentInv, ProposalOK, ProposalsBindTheirActor, accepts, _require_actor_match
<1>2. ASSUME AgentInv, [AgentNext]_avars
      PROVE  [reply' \notin {reply, NoReply} /\ reply'.limit > 0 =>
                LET found == Range(reply'.items)
                    readable == {e \in events : e.pack \in reply'.session.read
                                                /\ (reply'.needle = "" \/ reply'.needle \in e.words)}
                IN  \A e \in readable \ found :
                      Len(reply'.items) = reply'.limit /\ \A d \in found : d.id < e.id]_avars
  <2> SUFFICES ASSUME reply' \notin {reply, NoReply}, reply'.limit > 0
               PROVE  \A e \in {e \in events : e.pack \in reply'.session.read
                                  /\ (reply'.needle = "" \/ reply'.needle \in e.words)} \ Range(reply'.items) :
                        Len(reply'.items) = reply'.limit /\ \A d \in Range(reply'.items) : d.id < e.id
    OBVIOUS
  <2>1. PICK s \in Sessions : Call(s)
    BY <1>2, AgentSteps DEF avars, Others, AgentWrite, Consume, OtherWrite, Erase
  <2>2. PICK limit \in 1..MaxResults, needle \in Needles : SearchEvents(s, needle, limit)
    BY <2>1, OnlySearchCuts
  <2>3. reply'.session = s /\ reply'.needle = needle /\ reply'.limit = limit
    BY <1>2, <2>2, SearchEventsStep
  <2>. QED  BY <1>2, <2>2, <2>3, SearchIsComplete DEF Matches
<1>. QED  BY <1>1, <1>2, AgentInvInit, AgentInvNext, PTL
          DEF AgentSpec, AgentsStayInTheirPacks, SearchSkipsNothing

-----------------------------------------------------------------------------
(***************************************************************************)
(* A query: the corpus and what context security does to one item          *)
(***************************************************************************)

\* The mounted documents, by id.
IsCorpus(durable) ==
  \A id \in DOMAIN durable :
    /\ durable[id] \in {d.item : d \in Documents} /\ durable[id].id = id
    /\ id # "" /\ durable[id].type # "untrusted_context"
    /\ \A item \in Items : id # _untrusted_id(item)

LEMMA MountedIsCorpus ==
  ASSUME NEW r
  PROVE  IsCorpus(Mounted(r))
<1> DEFINE here == {d \in Documents : [pack |-> d.item.pack, revision |-> d.revision] \in r.mounts}
<1>1. ASSUME NEW id \in DOMAIN Mounted(r)
      PROVE  \E d \in Documents : Mounted(r)[id] = d.item /\ d.item.id = id
  <2>1. id \in {d.item.id : d \in here} /\ Mounted(r)[id] = (CHOOSE d \in here : d.item.id = id).item
    BY <1>1 DEF Mounted
  <2>2. PICK d \in here : d = CHOOSE e \in here : e.item.id = id
    BY <2>1
  <2>3. d.item.id = id
    BY <2>1, <2>2
  <2> QED BY <2>1, <2>2, <2>3
<1>2. ASSUME NEW id \in DOMAIN Mounted(r)
      PROVE  /\ Mounted(r)[id] \in {d.item : d \in Documents} /\ Mounted(r)[id].id = id
             /\ id # "" /\ Mounted(r)[id].type # "untrusted_context"
             /\ \A item \in Items : id # _untrusted_id(item)
  <2>1. PICK d \in Documents : Mounted(r)[id] = d.item /\ d.item.id = id
    BY <1>1
  <2>2. /\ d.item.id # "" /\ d.item.type # "untrusted_context"
        /\ \A item \in Items : d.item.id # _untrusted_id(item)
    BY QueryAssumption
  <2> QED BY <2>1, <2>2
<1> QED BY <1>2 DEF IsCorpus

\* A mounted document in the scope of the query.
Known(durable, scope, item) ==
  /\ item.type # "untrusted_context" /\ item.pack \in scope
  /\ item.id \in DOMAIN durable /\ item = durable[item.id]

\* Text under a name that no mounted document has, without any authority.
Data(durable, scope, item) ==
  /\ item.type = "untrusted_context" /\ item.pack \in scope
  /\ item.id \notin DOMAIN durable /\ item.cite = "" /\ item.source = ""

\* What context security may hand on.
Forms == {d.item : d \in Documents} \cup {demoted(item) : item \in Items}

Fields == {"secured", "canonicalized", "mismatched", "demoted", "dropped", "deduplicated",
           "prints"}

LEMMA DemotedIsData ==
  ASSUME NEW durable, IsCorpus(durable), NEW scope, NEW item \in Items,
         item.id \notin DOMAIN durable, item.pack \in scope
  PROVE  Data(durable, scope, demoted(item))
<1>1. _untrusted_id(item) \notin DOMAIN durable
  BY DEF IsCorpus
<1>2. /\ demoted(item).id = IF item.id = "" THEN _untrusted_id(item) ELSE item.id
      /\ demoted(item).pack = item.pack /\ demoted(item).type = "untrusted_context"
      /\ demoted(item).cite = "" /\ demoted(item).source = ""
  BY DEF demoted, AbsentItem
<1> QED BY <1>1, <1>2 DEF Data

\* One item is left out, is its document, for the first time, or is data.
HandedOn(durable, scope, s, item, t) ==
  \/ t.secured = s.secured /\ t.canonicalized = s.canonicalized
  \/ /\ item.id \in DOMAIN durable /\ durable[item.id].pack \in scope
     /\ item.id \notin Elements(s.canonicalized)
     /\ t.secured = Append(s.secured, durable[item.id])
     /\ t.canonicalized = Append(s.canonicalized, item.id)
  \/ /\ item.id \notin DOMAIN durable /\ item.pack \in scope
     /\ t.secured = Append(s.secured, demoted(item))
     /\ t.canonicalized = s.canonicalized

LEMMA OneSecured ==
  ASSUME NEW durable, NEW scope, NEW s, DOMAIN s = Fields, NEW item,
         NEW t, t = secure_one(durable, scope, s, item)
  PROVE  DOMAIN t = Fields /\ HandedOn(durable, scope, s, item, t)
<1>1. CASE item.id \in DOMAIN durable /\ durable[item.id].pack \notin scope
  BY <1>1 DEF secure_one, Fields, HandedOn
<1>2. CASE /\ item.id \in DOMAIN durable /\ durable[item.id].pack \in scope
           /\ item.id \in Elements(s.canonicalized)
  BY <1>2 DEF secure_one, Fields, HandedOn
<1>3. CASE /\ item.id \in DOMAIN durable /\ durable[item.id].pack \in scope
           /\ item.id \notin Elements(s.canonicalized)
  BY <1>3 DEF secure_one, Fields, HandedOn
<1>4. CASE item.id \notin DOMAIN durable /\ item.pack \notin scope
  BY <1>4 DEF secure_one, Fields, HandedOn
<1>5. CASE /\ item.id \notin DOMAIN durable /\ item.pack \in scope
           /\ [pack |-> item.pack, text |-> item.text] \in s.prints
  BY <1>5 DEF secure_one, Fields, HandedOn
<1>6. CASE /\ item.id \notin DOMAIN durable /\ item.pack \in scope
           /\ [pack |-> item.pack, text |-> item.text] \notin s.prints
  BY <1>6 DEF secure_one, Fields, HandedOn
<1> QED BY <1>1, <1>2, <1>3, <1>4, <1>5, <1>6

-----------------------------------------------------------------------------
(***************************************************************************)
(* A query: context security over all items                                *)
(***************************************************************************)

\* The results s of context security after 0, 1, .. N of the items.
Securing(s, N, items, durable, scope) ==
  s = [n \in 0..N |-> IF n = 0 THEN NothingSecured
                      ELSE secure_one(durable, scope, s[n - 1], items[n])]

LEMMA SecuringExists ==
  ASSUME NEW items, NEW durable, NEW scope, NEW N \in Nat
  PROVE  \E s : Securing(s, N, items, durable, scope)
<1> DEFINE T == {n \in 0..N : \E s : Securing(s, n, items, durable, scope)}
<1>1. 0 \in T
  <2> DEFINE s == [n \in 0..0 |-> NothingSecured]
  <2>1. Securing(s, 0, items, durable, scope)
    BY DEF Securing
  <2> QED BY <2>1
<1>2. ASSUME NEW n \in 0..N, n \in T, n < N PROVE n + 1 \in T
  <2>1. PICK s : Securing(s, n, items, durable, scope)
    BY <1>2
  <2> DEFINE t == [k \in 0..(n + 1) |->
                     IF k = n + 1 THEN secure_one(durable, scope, s[n], items[n + 1]) ELSE s[k]]
  <2>2. ASSUME NEW k \in 0..(n + 1)
        PROVE  t[k] = IF k = 0 THEN NothingSecured
                      ELSE secure_one(durable, scope, t[k - 1], items[k])
    <3>1. \A j \in 0..n : s[j] = IF j = 0 THEN NothingSecured
                                 ELSE secure_one(durable, scope, s[j - 1], items[j])
      BY <2>1 DEF Securing
    <3>2. CASE k = 0
      BY <3>1, <3>2
    <3>3. CASE k = n + 1
      BY <3>3
    <3>4. CASE k # 0 /\ k # n + 1
      <4>1. k \in 0..n /\ k - 1 \in 0..n /\ k - 1 # n + 1 /\ k - 1 \in 0..(n + 1)
        BY <3>4
      <4> QED BY <4>1, <3>1, <3>4
    <3> QED BY <3>2, <3>3, <3>4
  <2>3. Securing(t, n + 1, items, durable, scope)
    <3>1. t = [k \in 0..(n + 1) |-> t[k]]
      OBVIOUS
    <3> HIDE DEF t
    <3> QED BY <3>1, <2>2 DEF Securing
  <2>4. n + 1 \in 0..N
    BY <1>2
  <2> QED BY <2>3, <2>4
<1>3. 0..N \subseteq T
  <2> HIDE DEF T
  <2> QED BY <1>1, <1>2, Upwards
<1> QED BY <1>3

LEMMA SecuringIs ==
  ASSUME NEW items, Len(items) \in Nat, NEW durable, NEW scope
  PROVE  \E s : /\ Securing(s, Len(items), items, durable, scope)
                /\ canonicalize_untrusted_context(items, durable, scope) = s[Len(items)]
<1>1. \E s : Securing(s, Len(items), items, durable, scope)
  BY SecuringExists
<1> DEFINE s == CHOOSE s : s = [n \in 0..Len(items) |->
                   IF n = 0 THEN NothingSecured
                   ELSE secure_one(durable, scope, s[n - 1], items[n])]
<1>2. s = [n \in 0..Len(items) |->
             IF n = 0 THEN NothingSecured ELSE secure_one(durable, scope, s[n - 1], items[n])]
  BY <1>1 DEF Securing
<1>3. canonicalize_untrusted_context(items, durable, scope) = s[Len(items)]
  BY DEF canonicalize_untrusted_context
<1> QED BY <1>2, <1>3 DEF Securing

\* What context security hands on is a document in the scope, once, or data.
SecuredForm(s, durable) ==
  DOMAIN s = Fields /\ s.secured \in Seq(Forms) /\ s.canonicalized \in Seq(DOMAIN durable)
SecuredItem(s, items, durable, scope, x) ==
  \/ /\ Known(durable, scope, x) /\ x.id \in Elements(s.canonicalized)
     /\ x.id \in Elements(IdsOf(items))
  \/ Data(durable, scope, x)
SecuredItems(s, items, durable, scope) ==
  \A i \in DOMAIN s.secured : SecuredItem(s, items, durable, scope, s.secured[i])
KnownOnce(context, durable, scope) ==
  \A i, j \in DOMAIN context :
    i # j /\ Known(durable, scope, context[i]) /\ Known(durable, scope, context[j])
    => context[i].id # context[j].id
IsSecured(s, items, durable, scope) ==
  /\ SecuredForm(s, durable)
  /\ SecuredItems(s, items, durable, scope)
  /\ KnownOnce(s.secured, durable, scope)

\* Handing on one more item.
LEMMA AppendSecured ==
  ASSUME NEW items, NEW durable, NEW scope, NEW s, IsSecured(s, items, durable, scope),
         NEW x \in Forms, NEW t, DOMAIN t = Fields, t.secured = Append(s.secured, x),
         t.canonicalized \in Seq(DOMAIN durable),
         Elements(s.canonicalized) \subseteq Elements(t.canonicalized),
         \/ /\ Known(durable, scope, x) /\ x.id \in Elements(t.canonicalized)
            /\ x.id \notin Elements(s.canonicalized) /\ x.id \in Elements(IdsOf(items))
         \/ Data(durable, scope, x)
  PROVE  IsSecured(t, items, durable, scope)
<1> DEFINE m == Len(s.secured)
<1>1. /\ s.secured \in Seq(Forms) /\ m \in Nat /\ DOMAIN s.secured = 1..m
      /\ t.secured \in Seq(Forms) /\ DOMAIN t.secured = 1..(m + 1)
      /\ t.secured[m + 1] = x /\ \A i \in 1..m : t.secured[i] = s.secured[i]
  BY DEF IsSecured, SecuredForm
<1>2. ASSUME NEW i \in DOMAIN t.secured
      PROVE  SecuredItem(t, items, durable, scope, t.secured[i])
  <2>1. CASE i = m + 1
    BY <2>1, <1>1 DEF SecuredItem
  <2>2. CASE i # m + 1
    <3>1. i \in 1..m
      BY <2>2, <1>1
    <3>2. SecuredItem(s, items, durable, scope, s.secured[i])
      BY <3>1, <1>1 DEF IsSecured, SecuredItems
    <3>3. t.secured[i] = s.secured[i]
      BY <3>1, <1>1
    <3> QED BY <3>2, <3>3 DEF SecuredItem
  <2> QED BY <2>1, <2>2
<1>3. ASSUME NEW i \in 1..m, Known(durable, scope, s.secured[i]), Known(durable, scope, x)
      PROVE  s.secured[i].id # x.id
  <2>1. SecuredItem(s, items, durable, scope, s.secured[i])
    BY <1>1, <1>3 DEF IsSecured, SecuredItems
  <2>2. s.secured[i].id \in Elements(s.canonicalized)
    BY <2>1, <1>3 DEF SecuredItem, Known, Data
  <2>3. x.id \notin Elements(s.canonicalized)
    BY <1>3 DEF Known, Data
  <2> QED BY <2>2, <2>3
<1>4. ASSUME NEW i \in DOMAIN t.secured, NEW j \in DOMAIN t.secured, i # j,
             Known(durable, scope, t.secured[i]), Known(durable, scope, t.secured[j])
      PROVE  t.secured[i].id # t.secured[j].id
  <2>1. CASE i = m + 1
    <3>1. j \in 1..m
      BY <2>1, <1>1, <1>4
    <3> QED BY <3>1, <2>1, <1>1, <1>3, <1>4
  <2>2. CASE j = m + 1
    <3>1. i \in 1..m
      BY <2>2, <1>1, <1>4
    <3> QED BY <3>1, <2>2, <1>1, <1>3, <1>4
  <2>3. CASE i # m + 1 /\ j # m + 1
    <3>1. i \in 1..m /\ j \in 1..m
      BY <2>3, <1>1
    <3> QED BY <3>1, <1>1, <1>4 DEF IsSecured, KnownOnce
  <2> QED BY <2>1, <2>2, <2>3
<1>5. SecuredForm(t, durable)
  BY <1>1 DEF SecuredForm
<1>6. SecuredItems(t, items, durable, scope)
  BY <1>2 DEF SecuredItems
<1>7. KnownOnce(t.secured, durable, scope)
  BY <1>4 DEF KnownOnce
<1> QED BY <1>5, <1>6, <1>7 DEF IsSecured

LEMMA OneKeepsSecured ==
  ASSUME NEW items, NEW durable, IsCorpus(durable), NEW scope,
         NEW item \in Items, item.id \in Elements(IdsOf(items)),
         NEW s, IsSecured(s, items, durable, scope)
  PROVE  IsSecured(secure_one(durable, scope, s, item), items, durable, scope)
<1>1. PICK t : t = secure_one(durable, scope, s, item)
  OBVIOUS
<1>2. DOMAIN s = Fields /\ s.canonicalized \in Seq(DOMAIN durable)
  BY DEF IsSecured, SecuredForm
<1>3. DOMAIN t = Fields
  BY <1>1, <1>2, OneSecured
<1>4. ASSUME t.secured = s.secured /\ t.canonicalized = s.canonicalized
      PROVE  IsSecured(t, items, durable, scope)
  BY <1>3, <1>4 DEF IsSecured, SecuredForm, SecuredItems, SecuredItem
<1>5. ASSUME
           /\ item.id \in DOMAIN durable /\ durable[item.id].pack \in scope
           /\ item.id \notin Elements(s.canonicalized)
           /\ t.secured = Append(s.secured, durable[item.id])
           /\ t.canonicalized = Append(s.canonicalized, item.id)
      PROVE  IsSecured(t, items, durable, scope)
  <2>1. durable[item.id] \in Forms /\ durable[item.id].id = item.id
    BY <1>5 DEF IsCorpus, Forms
  <2>2. Known(durable, scope, durable[item.id])
    BY <1>5 DEF IsCorpus, Known
  <2>3. /\ t.canonicalized \in Seq(DOMAIN durable)
        /\ Elements(s.canonicalized) \subseteq Elements(t.canonicalized)
        /\ item.id \in Elements(t.canonicalized)
    <3>1. /\ Len(s.canonicalized) \in Nat
          /\ DOMAIN s.canonicalized = 1..Len(s.canonicalized)
          /\ DOMAIN t.canonicalized = 1..(Len(s.canonicalized) + 1)
          /\ t.canonicalized[Len(s.canonicalized) + 1] = item.id
          /\ \A i \in DOMAIN s.canonicalized : t.canonicalized[i] = s.canonicalized[i]
      BY <1>2, <1>5
    <3>2. t.canonicalized \in Seq(DOMAIN durable)
      BY <1>2, <1>5
    <3> QED BY <3>1, <3>2 DEF Elements
  <2> QED BY <1>3, <1>5, <2>1, <2>2, <2>3, AppendSecured
<1>6. ASSUME
           /\ item.id \notin DOMAIN durable /\ item.pack \in scope
           /\ t.secured = Append(s.secured, demoted(item))
           /\ t.canonicalized = s.canonicalized
      PROVE  IsSecured(t, items, durable, scope)
  <2>1. Data(durable, scope, demoted(item)) /\ demoted(item) \in Forms
    BY <1>6, DemotedIsData DEF Forms
  <2> QED BY <1>2, <1>3, <1>6, <2>1, AppendSecured
<1>7. HandedOn(durable, scope, s, item, t)
  BY <1>1, <1>2, OneSecured
<1>8. IsSecured(t, items, durable, scope)
  BY <1>4, <1>5, <1>6, <1>7 DEF HandedOn
<1> QED BY <1>1, <1>8

LEMMA ContextIsSecured ==
  ASSUME NEW items \in Seq(Items), NEW durable, IsCorpus(durable), NEW scope
  PROVE  IsSecured(canonicalize_untrusted_context(items, durable, scope),
                   items, durable, scope)
<1>1. PICK s : /\ Securing(s, Len(items), items, durable, scope)
               /\ canonicalize_untrusted_context(items, durable, scope) = s[Len(items)]
  BY SecuringIs
<1>2. \A n \in 0..Len(items) :
        s[n] = IF n = 0 THEN NothingSecured
               ELSE secure_one(durable, scope, s[n - 1], items[n])
  BY <1>1 DEF Securing
<1> DEFINE T == {n \in 0..Len(items) : IsSecured(s[n], items, durable, scope)}
<1>3. 0 \in T
  <2>1. s[0] = NothingSecured
    BY <1>2
  <2>2. IsSecured(NothingSecured, items, durable, scope)
    <3>1. /\ DOMAIN NothingSecured = Fields /\ NothingSecured.secured = <<>>
          /\ NothingSecured.canonicalized = <<>>
      BY DEF NothingSecured, Fields
    <3> QED BY <3>1 DEF IsSecured, SecuredForm, SecuredItems, KnownOnce
  <2> QED BY <2>1, <2>2
<1>4. ASSUME NEW n \in 0..Len(items), n \in T, n < Len(items) PROVE n + 1 \in T
  <2>1. n + 1 \in 1..Len(items) /\ n + 1 # 0 /\ (n + 1) - 1 = n
    BY <1>4
  <2>2. s[n + 1] = secure_one(durable, scope, s[n], items[n + 1])
    BY <1>2, <2>1
  <2>3. items[n + 1] \in Items /\ items[n + 1].id \in Elements(IdsOf(items))
    BY <2>1 DEF Elements, IdsOf
  <2>4. IsSecured(s[n], items, durable, scope)
    BY <1>4
  <2>5. IsSecured(s[n + 1], items, durable, scope)
    BY <2>2, <2>3, <2>4, OneKeepsSecured
  <2> QED BY <2>1, <2>5
<1>5. 0..Len(items) \subseteq T
  <2> HIDE DEF T
  <2> QED BY <1>3, <1>4, Upwards
<1> QED BY <1>1, <1>5

\* All of the first n items were dropped.
AllDropped(s, items, n) ==
  /\ s.canonicalized = <<>> /\ s.prints = {} /\ s.deduplicated = <<>>
  /\ s.dropped \in Seq(Elements(IdsOf(items))) /\ Len(s.dropped) = n
  /\ \A i \in 1..n : s.dropped[i] = items[i].id

LEMMA OneDropped ==
  ASSUME NEW items \in Seq(Items), NEW n \in 0..Len(items), n < Len(items),
         NEW durable, IsCorpus(durable), NEW scope, NEW s, DOMAIN s = Fields, s.secured \in Seq(Forms),
         s.secured = <<>> => AllDropped(s, items, n),
         NEW t, t = secure_one(durable, scope, s, items[n + 1]), t.secured = <<>>
  PROVE  AllDropped(t, items, n + 1)
<1>1. PICK item : item = items[n + 1]
  OBVIOUS
<1>2. n + 1 \in DOMAIN items /\ item.id \in Elements(IdsOf(items))
  BY <1>1 DEF Elements, IdsOf
<1>3. \A x \in Forms : Append(s.secured, x) # <<>>
  <2>1. ASSUME NEW x \in Forms PROVE Len(Append(s.secured, x)) = Len(s.secured) + 1
    OBVIOUS
  <2>2. Len(s.secured) \in Nat
    OBVIOUS
  <2> QED BY <2>1, <2>2
<1>4. ASSUME t = [s EXCEPT !.dropped = Append(@, item.id)]
      PROVE  AllDropped(t, items, n + 1)
  <2>1. /\ t.secured = s.secured /\ t.canonicalized = s.canonicalized /\ t.prints = s.prints
        /\ t.deduplicated = s.deduplicated /\ t.dropped = Append(s.dropped, item.id)
    BY <1>4 DEF Fields
  <2>2. AllDropped(s, items, n)
    BY <2>1
  <2> DEFINE names == Elements(IdsOf(items))
  <2>3. item.id \in names
    BY <1>2
  <2>4. /\ s.dropped \in Seq(names) /\ Len(s.dropped) = n
        /\ \A i \in 1..n : s.dropped[i] = items[i].id
    BY <2>2 DEF AllDropped
  <2> HIDE DEF names
  <2>5. /\ t.dropped \in Seq(names) /\ Len(t.dropped) = n + 1 /\ t.dropped[n + 1] = item.id
        /\ \A i \in 1..n : t.dropped[i] = s.dropped[i]
    BY <2>1, <2>3, <2>4
  <2>6. ASSUME NEW i \in 1..(n + 1) PROVE t.dropped[i] = items[i].id
    <3>1. i = n + 1 \/ i \in 1..n
      OBVIOUS
    <3> QED BY <3>1, <1>1, <2>4, <2>5
  <2> QED BY <2>1, <2>2, <2>5, <2>6 DEF AllDropped, names
<1>5. CASE item.id \in DOMAIN durable /\ durable[item.id].pack \notin scope
  BY <1>1, <1>4, <1>5 DEF secure_one
<1>6. CASE /\ item.id \in DOMAIN durable /\ durable[item.id].pack \in scope
           /\ item.id \in Elements(s.canonicalized)
  <2>1. t.secured = s.secured
    BY <1>1, <1>6 DEF secure_one, Fields
  <2>2. Elements(s.canonicalized) = {}
    BY <2>1 DEF AllDropped, Elements
  <2> QED BY <1>6, <2>2
<1>7. CASE /\ item.id \in DOMAIN durable /\ durable[item.id].pack \in scope
           /\ item.id \notin Elements(s.canonicalized)
  <2>1. t.secured = Append(s.secured, durable[item.id])
    BY <1>1, <1>7 DEF secure_one, Fields
  <2>2. durable[item.id] \in Forms
    BY <1>7 DEF IsCorpus, Forms
  <2> QED BY <2>1, <2>2, <1>3
<1>8. CASE item.id \notin DOMAIN durable /\ item.pack \notin scope
  BY <1>1, <1>4, <1>8 DEF secure_one
<1>9. CASE /\ item.id \notin DOMAIN durable /\ item.pack \in scope
           /\ [pack |-> item.pack, text |-> item.text] \in s.prints
  <2>1. t.secured = s.secured
    BY <1>1, <1>9 DEF secure_one, Fields
  <2>2. s.prints = {}
    BY <2>1 DEF AllDropped
  <2> QED BY <1>9, <2>2
<1>10. CASE /\ item.id \notin DOMAIN durable /\ item.pack \in scope
            /\ [pack |-> item.pack, text |-> item.text] \notin s.prints
  <2>1. t.secured = Append(s.secured, demoted(item))
    BY <1>1, <1>10 DEF secure_one, Fields
  <2>2. item \in Items
    BY <1>1, <1>2
  <2>3. demoted(item) \in Forms
    BY <2>2 DEF Forms
  <2> QED BY <2>1, <2>3, <1>3
<1> QED BY <1>5, <1>6, <1>7, <1>8, <1>9, <1>10

\* When nothing is handed on, everything was dropped, and nothing else removed.
LEMMA NothingHandedOn ==
  ASSUME NEW items \in Seq(Items), NEW durable, IsCorpus(durable), NEW scope,
         NEW c, c = canonicalize_untrusted_context(items, durable, scope), c.secured = <<>>
  PROVE  c.dropped \o c.deduplicated = IdsOf(items)
<1>1. PICK s : /\ Securing(s, Len(items), items, durable, scope)
               /\ canonicalize_untrusted_context(items, durable, scope) = s[Len(items)]
  BY SecuringIs
<1>2. \A n \in 0..Len(items) :
        s[n] = IF n = 0 THEN NothingSecured
               ELSE secure_one(durable, scope, s[n - 1], items[n])
  BY <1>1 DEF Securing
<1> PICK N \in Nat : N = Len(items) /\ DOMAIN items = 1..N
  OBVIOUS
<1> DEFINE T == {n \in 0..N : /\ IsSecured(s[n], items, durable, scope)
                              /\ s[n].secured = <<>> => AllDropped(s[n], items, n)}
<1>3. 0 \in T
  <2>1. s[0] = NothingSecured
    BY <1>2
  <2>2. IsSecured(NothingSecured, items, durable, scope)
    <3>1. /\ DOMAIN NothingSecured = Fields /\ NothingSecured.secured = <<>>
          /\ NothingSecured.canonicalized = <<>>
      BY DEF NothingSecured, Fields
    <3> QED BY <3>1 DEF IsSecured, SecuredForm, SecuredItems, KnownOnce
  <2>3. AllDropped(NothingSecured, items, 0)
    BY DEF NothingSecured, AllDropped
  <2> QED BY <2>1, <2>2, <2>3
<1>4. ASSUME NEW n \in 0..N, n \in T, n < N PROVE n + 1 \in T
  <2>1. n + 1 \in 1..N /\ n + 1 # 0 /\ (n + 1) - 1 = n
    BY <1>4
  <2>2. s[n + 1] = secure_one(durable, scope, s[n], items[n + 1])
    BY <1>2, <2>1
  <2>3. items[n + 1] \in Items /\ items[n + 1].id \in Elements(IdsOf(items))
    BY <2>1 DEF Elements, IdsOf
  <2>4. /\ IsSecured(s[n], items, durable, scope)
        /\ s[n].secured = <<>> => AllDropped(s[n], items, n)
    BY <1>4
  <2>5. IsSecured(s[n + 1], items, durable, scope)
    BY <2>2, <2>3, <2>4, OneKeepsSecured
  <2>6. DOMAIN s[n] = Fields /\ s[n].secured \in Seq(Forms)
    BY <2>4 DEF IsSecured, SecuredForm
  <2>7. s[n + 1].secured = <<>> => AllDropped(s[n + 1], items, n + 1)
    BY <1>4, <2>2, <2>4, <2>6, OneDropped
  <2> QED BY <2>1, <2>5, <2>7
<1>5. 0..N \subseteq T
  <2> HIDE DEF T
  <2> QED BY <1>3, <1>4, Upwards
<1>6. AllDropped(c, items, N)
  BY <1>1, <1>5
<1> DEFINE names == Elements(IdsOf(items))
<1>7. /\ c.deduplicated = <<>> /\ c.dropped \in Seq(names) /\ Len(c.dropped) = N
      /\ \A i \in 1..N : c.dropped[i] = items[i].id
  BY <1>6 DEF AllDropped
<1> HIDE DEF names
<1>8. c.dropped = [i \in 1..N |-> c.dropped[i]]
  BY <1>7
<1>9. c.dropped = IdsOf(items)
  BY <1>7, <1>8 DEF IdsOf
<1> QED BY <1>7, <1>9

-----------------------------------------------------------------------------
(***************************************************************************)
(* A query: what lineage adds                                              *)
(***************************************************************************)

\* The endpoints found after 0, 1, .. N of the items.
Expanding(s, N, items, durable, scope) ==
  s = [n \in 0..N |-> IF n = 0 THEN [ids |-> <<>>, full |-> FALSE]
                      ELSE expand_one(items, durable, scope, s[n - 1], items[n])]

LEMMA ExpandingExists ==
  ASSUME NEW items, NEW durable, NEW scope, NEW N \in Nat
  PROVE  \E s : Expanding(s, N, items, durable, scope)
<1> DEFINE none == [ids |-> <<>>, full |-> FALSE]
<1> DEFINE T == {n \in 0..N : \E s : Expanding(s, n, items, durable, scope)}
<1>1. 0 \in T
  <2> DEFINE s == [n \in 0..0 |-> none]
  <2>1. Expanding(s, 0, items, durable, scope)
    BY DEF Expanding
  <2> QED BY <2>1
<1>2. ASSUME NEW n \in 0..N, n \in T, n < N PROVE n + 1 \in T
  <2>1. PICK s : Expanding(s, n, items, durable, scope)
    BY <1>2
  <2> DEFINE t == [k \in 0..(n + 1) |->
                     IF k = n + 1 THEN expand_one(items, durable, scope, s[n], items[n + 1])
                     ELSE s[k]]
  <2>2. ASSUME NEW k \in 0..(n + 1)
        PROVE  t[k] = IF k = 0 THEN none
                      ELSE expand_one(items, durable, scope, t[k - 1], items[k])
    <3>1. \A j \in 0..n : s[j] = IF j = 0 THEN none
                                 ELSE expand_one(items, durable, scope, s[j - 1], items[j])
      BY <2>1 DEF Expanding
    <3> HIDE DEF none
    <3>2. CASE k = 0
      BY <3>1, <3>2
    <3>3. CASE k = n + 1
      BY <3>3
    <3>4. CASE k # 0 /\ k # n + 1
      <4>1. k \in 0..n /\ k - 1 \in 0..n /\ k - 1 # n + 1 /\ k - 1 \in 0..(n + 1)
        BY <3>4
      <4> QED BY <4>1, <3>1, <3>4
    <3> QED BY <3>2, <3>3, <3>4
  <2>3. Expanding(t, n + 1, items, durable, scope)
    <3>1. t = [k \in 0..(n + 1) |-> t[k]]
      OBVIOUS
    <3> HIDE DEF t
    <3> QED BY <3>1, <2>2 DEF Expanding
  <2>4. n + 1 \in 0..N
    BY <1>2
  <2> QED BY <2>3, <2>4
<1>3. 0..N \subseteq T
  <2> HIDE DEF T
  <2> QED BY <1>1, <1>2, Upwards
<1> QED BY <1>3

LEMMA ExpandingIs ==
  ASSUME NEW items, Len(items) \in Nat, NEW durable, NEW scope
  PROVE  \E s : /\ Expanding(s, Len(items), items, durable, scope)
                /\ expanded_ids(items, durable, scope) = s[Len(items)].ids
<1>1. \E s : Expanding(s, Len(items), items, durable, scope)
  BY ExpandingExists
<1> DEFINE s == CHOOSE s : s = [n \in 0..Len(items) |->
                   IF n = 0 THEN [ids |-> <<>>, full |-> FALSE]
                   ELSE expand_one(items, durable, scope, s[n - 1], items[n])]
<1>2. s = [n \in 0..Len(items) |->
             IF n = 0 THEN [ids |-> <<>>, full |-> FALSE]
             ELSE expand_one(items, durable, scope, s[n - 1], items[n])]
  BY <1>1 DEF Expanding
<1>3. expanded_ids(items, durable, scope) = s[Len(items)].ids
  BY DEF expanded_ids
<1> QED BY <1>2, <1>3 DEF Expanding

\* An endpoint is mounted, in scope and new, and a relation among the items
\* refers to it.
Endpoint(items, durable, scope, id) ==
  /\ id \in DOMAIN durable /\ durable[id].pack \in scope /\ id \notin Elements(IdsOf(items))
  /\ \E m \in DOMAIN items :
       items[m].type = "relation" /\ id \in {items[m].source, items[m].target}
Endpoints(ids, items, durable, scope) ==
  /\ ids \in Seq(DOMAIN durable)
  /\ \A k \in DOMAIN ids : Endpoint(items, durable, scope, ids[k])
  /\ \A k, l \in DOMAIN ids : k # l => ids[k] # ids[l]

LEMMA WithEndpoint ==
  ASSUME NEW items, NEW durable, NEW scope, NEW ids, Endpoints(ids, items, durable, scope),
         NEW m \in DOMAIN items, items[m].type = "relation",
         NEW ref \in {items[m].source, items[m].target}
  PROVE  Endpoints(with_endpoint(items, durable, scope, ids, ref), items, durable, scope)
<1>1. PICK new : new = with_endpoint(items, durable, scope, ids, ref)
  OBVIOUS
<1>2. CASE new = ids
  BY <1>1, <1>2
<1>3. CASE new # ids
  <2>1. /\ ref \in DOMAIN durable /\ durable[ref].pack \in scope
        /\ ref \notin Elements(IdsOf(items)) /\ ref \notin Elements(ids)
        /\ new = Append(ids, ref)
    BY <1>1, <1>3 DEF with_endpoint
  <2> DEFINE n == Len(ids)
  <2>2. /\ ids \in Seq(DOMAIN durable) /\ n \in Nat /\ DOMAIN ids = 1..n
        /\ new \in Seq(DOMAIN durable) /\ DOMAIN new = 1..(n + 1) /\ new[n + 1] = ref
        /\ \A k \in 1..n : new[k] = ids[k]
    BY <2>1 DEF Endpoints
  <2>3. Endpoint(items, durable, scope, ref)
    BY <2>1 DEF Endpoint
  <2>4. \A k \in 1..n : ids[k] # ref /\ Endpoint(items, durable, scope, ids[k])
    BY <2>1, <2>2 DEF Elements, Endpoints
  <2>5. ASSUME NEW k \in DOMAIN new PROVE Endpoint(items, durable, scope, new[k])
    <3>1. CASE k = n + 1
      BY <3>1, <2>2, <2>3
    <3>2. CASE k # n + 1
      <4>1. k \in 1..n
        BY <3>2, <2>2
      <4> QED BY <4>1, <2>2, <2>4
    <3> QED BY <3>1, <3>2
  <2>6. ASSUME NEW k \in DOMAIN new, NEW l \in DOMAIN new, k # l PROVE new[k] # new[l]
    <3>1. \A i \in 1..n : new[i] # new[n + 1]
      BY <2>2, <2>4
    <3>2. CASE k = n + 1 \/ l = n + 1
      <4>1. k \in 1..n \/ l \in 1..n
        BY <3>2, <2>2, <2>6
      <4> QED BY <4>1, <3>1, <3>2, <2>6
    <3>3. CASE k # n + 1 /\ l # n + 1
      <4>1. k \in 1..n /\ l \in 1..n
        BY <3>3, <2>2
      <4> QED BY <4>1, <2>2, <2>6 DEF Endpoints
    <3> QED BY <3>2, <3>3
  <2>7. Endpoints(new, items, durable, scope)
    BY <2>2, <2>5, <2>6, Zenon DEF Endpoints
  <2> QED BY <1>1, <2>7
<1> QED BY <1>2, <1>3

LEMMA OneExpanded ==
  ASSUME NEW items, NEW durable, NEW scope, NEW s, Endpoints(s.ids, items, durable, scope),
         NEW m \in DOMAIN items
  PROVE  Endpoints(expand_one(items, durable, scope, s, items[m]).ids, items, durable, scope)
<1>1. PICK item : item = items[m]
  OBVIOUS
<1>2. CASE s.full \/ item.type # "relation"
  BY <1>1, <1>2 DEF expand_one
<1>3. CASE ~(s.full \/ item.type # "relation")
  <2>1. PICK source : source = with_endpoint(items, durable, scope, s.ids, item.source)
    OBVIOUS
  <2>2. PICK both : both = with_endpoint(items, durable, scope, source, item.target)
    OBVIOUS
  <2>3. Endpoints(source, items, durable, scope)
    BY <1>1, <1>3, <2>1, WithEndpoint
  <2>4. Endpoints(both, items, durable, scope)
    BY <1>1, <1>3, <2>2, <2>3, WithEndpoint
  <2>5. \/ expand_one(items, durable, scope, s, item).ids = source
        \/ expand_one(items, durable, scope, s, item).ids = both
    BY <1>3, <2>1, <2>2 DEF expand_one
  <2> QED BY <1>1, <2>3, <2>4, <2>5
<1> QED BY <1>2, <1>3

LEMMA LineageIsEndpoints ==
  ASSUME NEW S, NEW items \in Seq(S), NEW durable, NEW scope
  PROVE  Endpoints(expanded_ids(items, durable, scope), items, durable, scope)
<1>1. PICK s : /\ Expanding(s, Len(items), items, durable, scope)
               /\ expanded_ids(items, durable, scope) = s[Len(items)].ids
  BY ExpandingIs
<1>2. \A n \in 0..Len(items) :
        s[n] = IF n = 0 THEN [ids |-> <<>>, full |-> FALSE]
               ELSE expand_one(items, durable, scope, s[n - 1], items[n])
  BY <1>1 DEF Expanding
<1> DEFINE T == {n \in 0..Len(items) : Endpoints(s[n].ids, items, durable, scope)}
<1>3. 0 \in T
  <2>1. s[0].ids = <<>>
    BY <1>2
  <2>2. Endpoints(<<>>, items, durable, scope)
    BY DEF Endpoints
  <2> QED BY <2>1, <2>2
<1>4. ASSUME NEW n \in 0..Len(items), n \in T, n < Len(items) PROVE n + 1 \in T
  <2>1. n + 1 \in 1..Len(items) /\ n + 1 # 0 /\ (n + 1) - 1 = n /\ n + 1 \in DOMAIN items
    BY <1>4
  <2>2. s[n + 1] = expand_one(items, durable, scope, s[n], items[n + 1])
    BY <1>2, <2>1
  <2>3. Endpoints(s[n].ids, items, durable, scope)
    BY <1>4
  <2>4. Endpoints(s[n + 1].ids, items, durable, scope)
    BY <2>1, <2>2, <2>3, OneExpanded
  <2> QED BY <2>1, <2>4
<1>5. 0..Len(items) \subseteq T
  <2> HIDE DEF T
  <2> QED BY <1>3, <1>4, Upwards
<1> QED BY <1>1, <1>5

-----------------------------------------------------------------------------
(***************************************************************************)
(* A query: the context and the answer                                     *)
(***************************************************************************)

\* The context of a query: what security hands on, and after it the
\* documents of the endpoints.
Context(items, durable, scope) ==
  expand_context_with_lineage(
    canonicalize_untrusted_context(items, durable, scope).secured, durable, scope)

\* c is a and after it b.
Joined(c, a, b, S) ==
  /\ c \in Seq(S) /\ Len(c) = Len(a) + Len(b)
  /\ \A i \in 1..Len(a) : c[i] = a[i]
  /\ \A k \in 1..Len(b) : c[Len(a) + k] = b[k]

LEMMA BothParts ==
  ASSUME NEW S, NEW a \in Seq(S), NEW b \in Seq(S)
  PROVE  Joined(a \o b, a, b, S)
<1>1. a \o b \in Seq(S) /\ Len(a \o b) = Len(a) + Len(b)
  OBVIOUS
<1>2. \A i \in 1..Len(a) : (a \o b)[i] = a[i]
  OBVIOUS
<1>3. \A k \in 1..Len(b) : (a \o b)[Len(a) + k] = b[k]
  OBVIOUS
<1> QED BY <1>1, <1>2, <1>3 DEF Joined

\* The context is the secured items, and after them the documents of ids.
Consists(context, secured, ids, durable, scope) ==
  /\ secured \in Seq(Forms) /\ ids \in Seq(DOMAIN durable) /\ context \in Seq(Forms)
  /\ Len(context) = Len(secured) + Len(ids)
  /\ \A i \in 1..Len(secured) : context[i] = secured[i]
  /\ \A k \in 1..Len(ids) : context[Len(secured) + k] = durable[ids[k]]
  /\ Endpoints(ids, secured, durable, scope)

LEMMA ContextParts ==
  ASSUME NEW items \in Seq(Items), NEW durable, IsCorpus(durable), NEW scope,
         NEW secured, NEW ids, NEW context,
         secured = canonicalize_untrusted_context(items, durable, scope).secured,
         ids = expanded_ids(secured, durable, scope),
         context = Context(items, durable, scope)
  PROVE  Consists(context, secured, ids, durable, scope)
<1>1. secured \in Seq(Forms)
  BY ContextIsSecured DEF IsSecured, SecuredForm
<1>2. Endpoints(ids, secured, durable, scope)
  BY <1>1, LineageIsEndpoints
<1>3. ids \in Seq(DOMAIN durable)
  BY <1>2 DEF Endpoints
<1> DEFINE docs == [k \in DOMAIN ids |-> durable[ids[k]]]
<1>4. \A k \in DOMAIN ids : durable[ids[k]] \in Forms
  <2>1. ASSUME NEW k \in DOMAIN ids PROVE ids[k] \in DOMAIN durable
    BY <1>3
  <2> QED BY <2>1 DEF IsCorpus, Forms
<1>5. docs \in Seq(Forms) /\ Len(docs) = Len(ids)
  BY <1>3, <1>4
<1>6. context = secured \o docs
  BY DEF Context, expand_context_with_lineage
<1>7. \A k \in 1..Len(ids) : docs[k] = durable[ids[k]]
  BY <1>3
<1>8. PICK tail : /\ tail \in Seq(Forms) /\ Len(tail) = Len(ids) /\ context = secured \o tail
                  /\ \A k \in 1..Len(ids) : tail[k] = durable[ids[k]]
  BY <1>5, <1>6, <1>7
<1>9. Joined(context, secured, tail, Forms)
  BY <1>1, <1>8, BothParts
<1> QED BY <1>1, <1>2, <1>3, <1>8, <1>9 DEF Consists, Joined

\* Every part of the context is a document in the scope, or data; no document
\* is there twice; and a document was retrieved or hangs on an earlier
\* relation that is one.
Reached(context, items, durable, scope, i) ==
  \/ context[i].id \in Elements(IdsOf(items))
  \/ \E j \in DOMAIN context :
       /\ Known(durable, scope, context[j]) /\ j < i
       /\ context[i].id \in {context[j].source, context[j].target}

LEMMA ContextIsGrounded ==
  ASSUME NEW items \in Seq(Items), NEW durable, IsCorpus(durable), NEW scope,
         NEW context, context = Context(items, durable, scope)
  PROVE  /\ \A i \in DOMAIN context :
              Known(durable, scope, context[i]) \/ Data(durable, scope, context[i])
         /\ KnownOnce(context, durable, scope)
         /\ \A i \in DOMAIN context :
              Known(durable, scope, context[i]) => Reached(context, items, durable, scope, i)
<1>1. PICK s : s = canonicalize_untrusted_context(items, durable, scope)
  OBVIOUS
<1>2. PICK secured : secured = s.secured
  OBVIOUS
<1>3. PICK ids : ids = expanded_ids(secured, durable, scope)
  OBVIOUS
<1>4. IsSecured(s, items, durable, scope)
  BY <1>1, ContextIsSecured
<1>5. /\ secured \in Seq(Forms) /\ ids \in Seq(DOMAIN durable) /\ context \in Seq(Forms)
      /\ Len(context) = Len(secured) + Len(ids)
      /\ \A i \in 1..Len(secured) : context[i] = secured[i]
      /\ \A k \in 1..Len(ids) : context[Len(secured) + k] = durable[ids[k]]
      /\ Endpoints(ids, secured, durable, scope)
  <2>1. Consists(context, secured, ids, durable, scope)
    BY <1>1, <1>2, <1>3, ContextParts
  <2> QED BY <2>1 DEF Consists
<1> DEFINE p == Len(secured)
<1>6. /\ p \in Nat /\ Len(ids) \in Nat /\ DOMAIN secured = 1..p /\ DOMAIN ids = 1..Len(ids)
      /\ DOMAIN context = 1..(p + Len(ids))
  BY <1>5
<1>7. ASSUME NEW i \in DOMAIN context, ~(i <= p)
      PROVE  \E k \in DOMAIN ids : i = p + k /\ context[i] = durable[ids[k]]
  <2>1. i - p \in 1..Len(ids) /\ i = p + (i - p)
    BY <1>6, <1>7
  <2> QED BY <2>1, <1>5, <1>6
<1>8. ASSUME NEW k \in DOMAIN ids
      PROVE  /\ Known(durable, scope, durable[ids[k]]) /\ durable[ids[k]].id = ids[k]
             /\ Endpoint(secured, durable, scope, ids[k])
  <2>1. Endpoint(secured, durable, scope, ids[k])
    BY <1>5 DEF Endpoints
  <2> QED BY <2>1 DEF Endpoint, Known, IsCorpus
<1>9. ASSUME NEW i \in 1..p PROVE SecuredItem(s, items, durable, scope, context[i])
  BY <1>2, <1>4, <1>5, <1>6 DEF IsSecured, SecuredItems
<1>10. ASSUME NEW i \in DOMAIN context
       PROVE  Known(durable, scope, context[i]) \/ Data(durable, scope, context[i])
  <2>1. CASE i <= p
    <3>1. i \in 1..p
      BY <2>1, <1>6
    <3> QED BY <3>1, <1>9 DEF SecuredItem
  <2>2. CASE ~(i <= p)
    BY <2>2, <1>7, <1>8
  <2> QED BY <2>1, <2>2
<1>11. ASSUME NEW i \in 1..p, NEW k \in DOMAIN ids PROVE context[i].id # durable[ids[k]].id
  <2>1. context[i].id \in Elements(IdsOf(secured))
    BY <1>5, <1>6 DEF Elements, IdsOf
  <2>2. ids[k] \notin Elements(IdsOf(secured)) /\ durable[ids[k]].id = ids[k]
    BY <1>8 DEF Endpoint
  <2> QED BY <2>1, <2>2
<1>12. ASSUME NEW i \in DOMAIN context, NEW j \in DOMAIN context, i # j,
              Known(durable, scope, context[i]), Known(durable, scope, context[j])
       PROVE  context[i].id # context[j].id
  <2>1. CASE i <= p /\ j <= p
    <3>1. i \in 1..p /\ j \in 1..p
      BY <2>1, <1>6
    <3>2. KnownOnce(secured, durable, scope)
      BY <1>2, <1>4 DEF IsSecured
    <3> QED BY <3>1, <3>2, <1>5, <1>6, <1>12 DEF KnownOnce
  <2>2. CASE i <= p /\ ~(j <= p)
    <3>1. i \in 1..p
      BY <2>2, <1>6
    <3> QED BY <3>1, <2>2, <1>7, <1>11
  <2>3. CASE ~(i <= p) /\ j <= p
    <3>1. j \in 1..p
      BY <2>3, <1>6
    <3> QED BY <3>1, <2>3, <1>7, <1>11
  <2>4. CASE ~(i <= p) /\ ~(j <= p)
    <3>1. PICK k \in DOMAIN ids : i = p + k /\ context[i] = durable[ids[k]]
      BY <2>4, <1>7
    <3>2. PICK l \in DOMAIN ids : j = p + l /\ context[j] = durable[ids[l]]
      BY <2>4, <1>7
    <3>3. ids[k] # ids[l]
      BY <3>1, <3>2, <1>5, <1>12 DEF Endpoints
    <3> QED BY <3>1, <3>2, <3>3, <1>8
  <2> QED BY <2>1, <2>2, <2>3, <2>4
<1>13. ASSUME NEW i \in DOMAIN context, Known(durable, scope, context[i])
       PROVE  Reached(context, items, durable, scope, i)
  <2>1. CASE i <= p
    <3>1. i \in 1..p
      BY <2>1, <1>6
    <3> QED BY <3>1, <1>9, <1>13 DEF SecuredItem, Known, Data, Reached
  <2>2. CASE ~(i <= p)
    <3>1. PICK k \in DOMAIN ids : i = p + k /\ context[i] = durable[ids[k]]
      BY <2>2, <1>7
    <3>2. PICK m \in 1..p : /\ secured[m].type = "relation"
                            /\ ids[k] \in {secured[m].source, secured[m].target}
      BY <1>6, <1>8 DEF Endpoint
    <3>3. m \in DOMAIN context /\ m < i /\ context[m] = secured[m]
      <4>1. m \in Nat /\ k \in Nat /\ k >= 1 /\ m <= p /\ i = p + k
        BY <3>1, <1>6
      <4>2. m < i
        BY <4>1, <1>6
      <4>3. m \in DOMAIN context
        BY <4>1, <1>6
      <4>4. context[m] = secured[m]
        BY <1>5
      <4> QED BY <4>2, <4>3, <4>4
    <3>4. Known(durable, scope, context[m])
      BY <3>2, <3>3, <1>10 DEF Data
    <3>5. context[i].id = ids[k]
      BY <3>1, <1>8
    <3> QED BY <3>2, <3>3, <3>4, <3>5 DEF Reached
  <2> QED BY <2>1, <2>2
<1>14. KnownOnce(context, durable, scope)
  BY <1>12 DEF KnownOnce
<1> QED BY <1>10, <1>13, <1>14

\* The ids of the claims among the first n that do not resolve.
LEMMA NothingInvalid ==
  ASSUME NEW output \in Outputs, NEW durable, NEW scope,
         \A i \in DOMAIN output.claims : Resolves(output.claims[i], durable, scope)
  PROVE  invalid_ids(output, durable, scope) = <<>>
<1> DEFINE among == [n \in 0..Len(output.claims) |-> <<>>]
           Step(f, n) == IF n = 0 THEN <<>>
                         ELSE IF Resolves(output.claims[n], durable, scope) THEN f[n - 1]
                         ELSE Append(f[n - 1], output.claims[n].id)
<1> PICK N \in Nat : N = Len(output.claims) /\ DOMAIN output.claims = 1..N
  <2>1. output.claims \in Seq(Elements(output.claims))
    BY QueryAssumption
  <2> QED BY <2>1
<1>1. among = [n \in 0..Len(output.claims) |->
                 IF n = 0 THEN <<>>
                 ELSE IF Resolves(output.claims[n], durable, scope) THEN among[n - 1]
                 ELSE Append(among[n - 1], output.claims[n].id)]
  <2>1. ASSUME NEW n \in 0..N, n # 0
        PROVE  Resolves(output.claims[n], durable, scope) /\ n - 1 \in 0..N
    BY <2>1
  <2> QED BY <2>1
<1> DEFINE f == CHOOSE f : f = [n \in 0..Len(output.claims) |->
                 IF n = 0 THEN <<>>
                 ELSE IF Resolves(output.claims[n], durable, scope) THEN f[n - 1]
                 ELSE Append(f[n - 1], output.claims[n].id)]
<1>2. f = [n \in 0..Len(output.claims) |->
                 IF n = 0 THEN <<>>
                 ELSE IF Resolves(output.claims[n], durable, scope) THEN f[n - 1]
                 ELSE Append(f[n - 1], output.claims[n].id)]
  <2> HIDE DEF among
  <2> QED BY <1>1
<1>3. invalid_ids(output, durable, scope) = f[N]
  BY DEF invalid_ids
<1> HIDE DEF f
<1> DEFINE T == {n \in 0..N : f[n] = <<>>}
<1>4. 0 \in T
  BY <1>2
<1>5. ASSUME NEW n \in 0..N, n \in T, n < N PROVE n + 1 \in T
  <2>1. n + 1 \in 1..N /\ n + 1 \in 0..N /\ n + 1 # 0 /\ (n + 1) - 1 = n
    BY <1>5
  <2>2. Resolves(output.claims[n + 1], durable, scope)
    BY <2>1
  <2>3. f[n + 1] = f[n]
    BY <2>1, <2>2, <1>2
  <2> QED BY <2>1, <2>3, <1>5
<1>6. 0..N \subseteq T
  <2> HIDE DEF T
  <2> QED BY <1>4, <1>5, Upwards
<1> QED BY <1>3, <1>6

-----------------------------------------------------------------------------
(***************************************************************************)
(* A query: the inductive invariant.  Whatever the retriever and the model *)
(* return, the context and the answer of a run are what the wrappers make  *)
(* of them, and a receipt is built from that run; a kept one from another. *)
(***************************************************************************)

\* What a run answers to what the model returned.
Answer(items, durable, scope, output, model) ==
  LET security == canonicalize_untrusted_context(items, durable, scope)
  IN  [output |-> resolve_output(output, durable, scope), security |-> security,
       expanded |-> expanded_ids(security.secured, durable, scope),
       blocked |-> output.tools, invalid |-> invalid_ids(output, durable, scope),
       service |-> model]

\* The context and the answer of a run of request r on the items.
Ran(r, items, context, answer) ==
  /\ items \in Seq(Items)
  /\ context = Context(items, Mounted(r), r.scope)
  /\ \E output \in Outputs, model \in Models :
       answer = Answer(items, Mounted(r), r.scope, output, model)

QueryInv ==
  /\ pc \in {"idle", "retrieved", "answered", "done", "failed"}
  /\ pc = "retrieved" => candidates \in Seq(Items)
  /\ pc \in {"answered", "done"} => Ran(request, candidates, seen, response)
  /\ pc = "done" => query_receipt = build_query_execution_receipt(request, candidates, response)
  /\ query_receipt # Absent => pc = "done"
  /\ kept # Absent =>
       \E r, items : /\ Ran(r, items, kept.seen, kept.response)
                     /\ kept.receipt = build_query_execution_receipt(r, items, kept.response)

LEMMA RetrievedItems ==
  ASSUME NEW r \in Requests, NEW items \in SeqOf(Items, r.limit)
  PROVE  items \in Seq(Items)
<1>1. PICK m \in 0..r.limit : items \in [1..m -> Items]
  BY DEF SeqOf
<1>2. m \in Nat
  <2>1. r.limit \in Int
    BY QueryAssumption
  <2> QED BY <2>1
<1> QED BY <1>1, <1>2

LEMMA InitQuery ==
  ASSUME QueryInit
  PROVE  QueryInv
BY DEF QueryInit, QueryInv

LEMMA RetrieveKeeps ==
  ASSUME QueryInv, NEW r \in Requests, NEW items \in SeqOf(Items, r.limit), Retrieve(r, items)
  PROVE  QueryInv'
<1>1. items \in Seq(Items)
  BY RetrievedItems
<1> QED BY <1>1 DEF Retrieve, QueryInv

LEMMA RunModelKeeps ==
  ASSUME QueryInv, NEW output \in Outputs, NEW model \in Models, RunModel(output, model)
  PROVE  QueryInv'
<1>1. /\ pc = "retrieved" /\ pc' = "answered"
      /\ UNCHANGED <<request, candidates, query_receipt, kept>>
      /\ seen' = Context(candidates, Mounted(request), request.scope)
      /\ response' = Answer(candidates, Mounted(request), request.scope, output, model)
  BY DEF RunModel, Context, Answer, LineageResolvedModelService
<1>2. Ran(request, candidates, seen', response')
  BY <1>1 DEF Ran, QueryInv
<1>3. Ran(request', candidates', seen', response')
  BY <1>1, <1>2
<1>4. kept' # Absent =>
       \E r, items : /\ Ran(r, items, kept'.seen, kept'.response)
                     /\ kept'.receipt = build_query_execution_receipt(r, items, kept'.response)
  BY <1>1 DEF QueryInv
<1>5. query_receipt' = Absent
  BY <1>1 DEF QueryInv
<1> QED BY <1>1, <1>3, <1>4, <1>5 DEF QueryInv

LEMMA RecordKeeps ==
  ASSUME QueryInv, Record
  PROVE  QueryInv'
<1>1. /\ pc = "answered" /\ UNCHANGED <<request, candidates, seen, response, kept>>
      /\ \/ /\ pc' = "done"
            /\ query_receipt' = build_query_execution_receipt(request, candidates, response)
         \/ pc' = "failed" /\ query_receipt' = query_receipt
  BY DEF Record
<1>2. query_receipt = Absent
  BY <1>1 DEF QueryInv
<1> QED BY <1>1, <1>2 DEF QueryInv

LEMMA KeepKeeps ==
  ASSUME QueryInv, Keep
  PROVE  QueryInv'
<1>1. /\ pc = "done" /\ pc' = "idle" /\ query_receipt' = Absent
      /\ kept' = [receipt |-> query_receipt, seen |-> seen, response |-> response]
  BY DEF Keep
<1>2. \E r, items : /\ Ran(r, items, kept'.seen, kept'.response)
                    /\ kept'.receipt = build_query_execution_receipt(r, items, kept'.response)
  <2>1. /\ Ran(request, candidates, seen, response)
        /\ query_receipt = build_query_execution_receipt(request, candidates, response)
    BY <1>1 DEF QueryInv
  <2>2. kept'.receipt = query_receipt /\ kept'.seen = seen /\ kept'.response = response
    BY <1>1
  <2> QED BY <2>1, <2>2
<1> QED BY <1>1, <1>2 DEF QueryInv

\* The invariant holds in every reachable state of a query and its replay.
LEMMA QueryInvariant == QuerySpec => []QueryInv
<1>1. ASSUME QueryInv, [QueryNext]_qvars PROVE QueryInv'
  <2>1. CASE \E r \in Requests : \E items \in SeqOf(Items, r.limit) : Retrieve(r, items)
    BY <1>1, <2>1, RetrieveKeeps
  <2>2. CASE \E output \in Outputs, model \in Models : RunModel(output, model)
    BY <1>1, <2>2, RunModelKeeps
  <2>3. CASE Record
    BY <1>1, <2>3, RecordKeeps
  <2>4. CASE Keep
    BY <1>1, <2>4, KeepKeeps
  <2>5. CASE UNCHANGED qvars
    BY <1>1, <2>5 DEF qvars, QueryInv, Ran
  <2> QED BY <1>1, <2>1, <2>2, <2>3, <2>4, <2>5 DEF QueryNext
<1> QED BY <1>1, InitQuery, PTL DEF QuerySpec

-----------------------------------------------------------------------------
(***************************************************************************)
(* A query: what the model is told and what it may answer                  *)
(***************************************************************************)

LEMMA ToldRight ==
  ASSUME QueryInv
  PROVE  ContextIsDurableOrData
<1> SUFFICES ASSUME pc \in {"answered", "done"}
             PROVE  ContextIsDurableOrData
  BY DEF ContextIsDurableOrData
<1>1. PICK durable : durable = Mounted(request)
  OBVIOUS
<1>2. PICK scope : scope = request.scope
  OBVIOUS
<1>3. candidates \in Seq(Items) /\ seen = Context(candidates, durable, scope)
  BY <1>1, <1>2 DEF QueryInv, Ran
<1>4. IsCorpus(durable)
  BY <1>1, MountedIsCorpus
<1> DEFINE known == {i \in DOMAIN seen : seen[i].type # "untrusted_context"}
<1>5. PICK context : context = seen
  OBVIOUS
<1>6. PICK items \in Seq(Items) : items = candidates
  BY <1>3
<1>7. context = Context(items, durable, scope)
  BY <1>3, <1>5, <1>6
<1>8. /\ \A i \in DOMAIN context :
           Known(durable, scope, context[i]) \/ Data(durable, scope, context[i])
      /\ KnownOnce(context, durable, scope)
      /\ \A i \in DOMAIN context :
           Known(durable, scope, context[i]) => Reached(context, items, durable, scope, i)
  BY <1>4, <1>7, ContextIsGrounded
<1>9. \A i \in known : i \in DOMAIN context /\ Known(durable, scope, context[i])
  BY <1>5, <1>8 DEF Data
<1>10. \A i \in DOMAIN seen \ known : Data(durable, scope, context[i])
  BY <1>5, <1>8 DEF Known
<1>11. \A i \in DOMAIN seen : seen[i].pack \in request.scope
  BY <1>2, <1>5, <1>8 DEF Known, Data
<1>12. \A i \in known : seen[i] = durable[seen[i].id]
  BY <1>5, <1>9 DEF Known
<1>13. \A i, j \in known : i # j => seen[i].id # seen[j].id
  BY <1>5, <1>8, <1>9 DEF KnownOnce
<1>14. \A i \in DOMAIN seen \ known : seen[i].cite = "" /\ seen[i].source = ""
  BY <1>5, <1>10 DEF Data
<1>15. ASSUME NEW i \in known
       PROVE  \/ seen[i].id \in Elements(IdsOf(candidates))
              \/ \E j \in known : j < i /\ seen[i].id \in {seen[j].source, seen[j].target}
  <2>1. Reached(context, items, durable, scope, i)
    BY <1>8, <1>9
  <2>2. ASSUME NEW j \in DOMAIN context, Known(durable, scope, context[j]) PROVE j \in known
    BY <1>5, <2>2 DEF Known
  <2> QED BY <1>5, <1>6, <2>1, <2>2 DEF Reached
<1> QED BY <1>1, <1>11, <1>12, <1>13, <1>14, <1>15 DEF ContextIsDurableOrData

LEMMA AnsweredRight ==
  ASSUME QueryInv
  PROVE  AnswerIsGrounded
<1> SUFFICES ASSUME pc \in {"answered", "done"}
             PROVE  AnswerIsGrounded
  BY DEF AnswerIsGrounded
<1>1. PICK durable : durable = Mounted(request)
  OBVIOUS
<1>2. PICK scope : scope = request.scope
  OBVIOUS
<1>3. PICK output \in Outputs, model \in Models :
        response = Answer(candidates, durable, scope, output, model)
  BY <1>1, <1>2 DEF QueryInv, Ran
<1>4. /\ response.output = resolve_output(output, durable, scope)
      /\ response.invalid = invalid_ids(output, durable, scope)
  BY <1>3 DEF Answer
<1>5. CASE \E i \in DOMAIN output.claims : ~Resolves(output.claims[i], durable, scope)
  <2>1. response.output = Abstention
    BY <1>4, <1>5 DEF resolve_output
  <2>2. Abstention.claims = <<>>
    BY DEF Abstention
  <2>3. Elements(<<>>) = {}
    BY DEF Elements
  <2> QED BY <2>1, <2>2, <2>3 DEF AnswerIsGrounded
<1>6. CASE \A i \in DOMAIN output.claims : Resolves(output.claims[i], durable, scope)
  <2>1. response.invalid = <<>>
    BY <1>4, <1>6, NothingInvalid
  <2>2. ASSUME NEW c \in Elements(response.output.claims)
        PROVE  /\ Resolves(c, durable, scope) /\ c.text = durable[c.id].text
               /\ c.cite = durable[c.id].cite
    <3>1. PICK i \in DOMAIN output.claims :
            c = [id |-> output.claims[i].id, text |-> durable[output.claims[i].id].text,
                 cite |-> durable[output.claims[i].id].cite]
      BY <1>4, <1>6 DEF resolve_output, Elements
    <3>2. c.id = output.claims[i].id
      BY <3>1
    <3>3. Resolves(c, durable, scope)
      BY <1>6, <3>2 DEF Resolves
    <3> QED BY <3>1, <3>2, <3>3
  <2> QED BY <1>1, <1>2, <2>1, <2>2 DEF AnswerIsGrounded
<1> QED BY <1>5, <1>6

\* Whatever the retriever and the model return, the model is told documents of
\* the mounted revisions, word for word, in scope and once, or plain data, and
\* an answer it gives consists of mounted claims in their own words
\* (canonicalize_untrusted_context, UntrustedContextModelService.run).
THEOREM GroundedAnswers == QuerySpec => []AnswersRestOnTheCorpus
<1>1. QueryInv => AnswersRestOnTheCorpus
  BY ToldRight, AnsweredRight DEF AnswersRestOnTheCorpus
<1> QED BY <1>1, QueryInvariant, PTL

-----------------------------------------------------------------------------
(***************************************************************************)
(* A query: what a receipt tells                                           *)
(***************************************************************************)

LEMMA ContextIsSequence ==
  ASSUME NEW r, NEW items, NEW context, NEW answer, Ran(r, items, context, answer)
  PROVE  context \in Seq(Forms)
<1>1. PICK secured : secured = canonicalize_untrusted_context(items, Mounted(r), r.scope).secured
  OBVIOUS
<1>2. PICK ids : ids = expanded_ids(secured, Mounted(r), r.scope)
  OBVIOUS
<1>3. Consists(context, secured, ids, Mounted(r), r.scope)
  BY <1>1, <1>2, MountedIsCorpus, ContextParts DEF Ran
<1> QED BY <1>3 DEF Consists

\* Lineage's record names the context, in its order.
LEMMA LineageRecordsContext ==
  ASSUME NEW r, NEW items, NEW context, NEW answer, Ran(r, items, context, answer)
  PROVE  /\ DOMAIN _resolver_records(answer) = {1, 2}
         /\ _resolver_records(answer)[2].final = IdsOf(context)
<1>1. PICK durable : durable = Mounted(r)
  OBVIOUS
<1>2. PICK scope : scope = r.scope
  OBVIOUS
<1>3. items \in Seq(Items) /\ context = Context(items, durable, scope) /\ IsCorpus(durable)
  BY <1>1, <1>2, MountedIsCorpus DEF Ran
<1>4. PICK secured : secured = canonicalize_untrusted_context(items, durable, scope).secured
  OBVIOUS
<1>5. PICK ids : ids = expanded_ids(secured, durable, scope)
  OBVIOUS
<1>6. Consists(context, secured, ids, durable, scope)
  BY <1>3, <1>4, <1>5, ContextParts
<1>7. answer.security.secured = secured /\ answer.expanded = ids
  BY <1>1, <1>2, <1>4, <1>5 DEF Ran, Answer
<1>8. DOMAIN _resolver_records(answer) = {1, 2}
  BY DEF _resolver_records
<1>9. _resolver_records(answer)[2].final = IdsOf(secured) \o ids
  BY <1>7 DEF _resolver_records
<1> DEFINE names == {x.id : x \in Forms} \cup DOMAIN durable
<1>10. /\ secured \in Seq(Forms) /\ ids \in Seq(DOMAIN durable) /\ context \in Seq(Forms)
       /\ Len(context) = Len(secured) + Len(ids)
       /\ \A i \in 1..Len(secured) : context[i] = secured[i]
       /\ \A k \in 1..Len(ids) : context[Len(secured) + k] = durable[ids[k]]
  BY <1>6 DEF Consists
<1>11. /\ IdsOf(secured) \in Seq(names) /\ Len(IdsOf(secured)) = Len(secured)
       /\ \A i \in 1..Len(secured) : IdsOf(secured)[i] = secured[i].id
  BY <1>10 DEF IdsOf
<1>12. ids \in Seq(names)
  <2>1. \A k \in 1..Len(ids) : ids[k] \in names
    BY <1>10
  <2> QED BY <2>1, <1>10
<1> HIDE DEF names
<1>13. PICK named : named = IdsOf(secured) \o ids
  OBVIOUS
<1>14. Joined(named, IdsOf(secured), ids, names)
  BY <1>11, <1>12, <1>13, BothParts
<1>15. /\ named \in Seq(names) /\ Len(named) = Len(context)
       /\ \A i \in 1..Len(secured) : named[i] = secured[i].id
       /\ \A k \in 1..Len(ids) : named[Len(secured) + k] = ids[k]
  BY <1>10, <1>11, <1>14 DEF Joined
<1>16. ASSUME NEW i \in 1..Len(context) PROVE named[i] = context[i].id
  <2>1. Len(secured) \in Nat /\ Len(ids) \in Nat
    BY <1>10
  <2>2. CASE i <= Len(secured)
    BY <2>1, <2>2, <1>10, <1>15
  <2>3. CASE ~(i <= Len(secured))
    <3>1. i - Len(secured) \in 1..Len(ids) /\ i = Len(secured) + (i - Len(secured))
      BY <2>1, <2>3, <1>10
    <3>2. PICK k \in 1..Len(ids) : i = Len(secured) + k
      BY <3>1
    <3>3. ids[k] \in DOMAIN durable
      BY <1>10
    <3>4. durable[ids[k]].id = ids[k]
      BY <3>3, <1>3 DEF IsCorpus
    <3> QED BY <3>2, <3>4, <1>10, <1>15
  <2> QED BY <2>2, <2>3
<1>17. named = IdsOf(context)
  <2>1. DOMAIN named = 1..Len(context) /\ DOMAIN context = 1..Len(context)
    BY <1>10, <1>15
  <2>2. named = [i \in 1..Len(context) |-> named[i]]
    BY <2>1, <1>15
  <2> QED BY <2>1, <2>2, <1>16 DEF IdsOf
<1> QED BY <1>8, <1>9, <1>13, <1>17

\* When the model is given nothing, security's record has all that was
\* retrieved as removed, and nothing as handed on.
LEMMA NothingGiven ==
  ASSUME NEW r, NEW items, NEW answer, Ran(r, items, <<>>, answer)
  PROVE  /\ _resolver_records(answer)[1].final = <<>>
         /\ _resolver_records(answer)[1].removed = IdsOf(items)
<1>1. PICK durable : durable = Mounted(r)
  OBVIOUS
<1>2. PICK scope : scope = r.scope
  OBVIOUS
<1>3. items \in Seq(Items) /\ <<>> = Context(items, durable, scope) /\ IsCorpus(durable)
  BY <1>1, <1>2, MountedIsCorpus DEF Ran
<1>4. PICK security : security = canonicalize_untrusted_context(items, durable, scope)
  OBVIOUS
<1>5. PICK ids : ids = expanded_ids(security.secured, durable, scope)
  OBVIOUS
<1>6. Consists(<<>>, security.secured, ids, durable, scope)
  BY <1>3, <1>4, <1>5, ContextParts
<1>7. security.secured = <<>>
  <2>1. /\ security.secured \in Seq(Forms) /\ ids \in Seq(DOMAIN durable)
        /\ 0 = Len(security.secured) + Len(ids)
    BY <1>6 DEF Consists
  <2>2. Len(security.secured) \in Nat /\ Len(ids) \in Nat
    BY <2>1
  <2>3. Len(security.secured) = 0
    BY <2>1, <2>2
  <2> QED BY <2>1, <2>3
<1>8. answer.security = security
  BY <1>1, <1>2, <1>4 DEF Ran, Answer
<1>9. security.dropped \o security.deduplicated = IdsOf(items)
  BY <1>3, <1>4, <1>7, NothingHandedOn
<1>10. IdsOf(<<>>) = <<>>
  BY DEF IdsOf
<1>11. /\ _resolver_records(answer)[1].final = IdsOf(answer.security.secured)
       /\ _resolver_records(answer)[1].removed
            = answer.security.dropped \o answer.security.deduplicated
  BY DEF _resolver_records
<1> QED BY <1>7, <1>8, <1>9, <1>10, <1>11

LEMMA NamedRight ==
  ASSUME QueryInv
  PROVE  ReceiptNamesTheContext
<1> SUFFICES ASSUME pc = "done"
             PROVE  ReceiptNamesTheContext
  BY DEF ReceiptNamesTheContext
<1>1. PICK records : records = _resolver_records(response)
  OBVIOUS
<1>2. Ran(request, candidates, seen, response)
  BY DEF QueryInv
<1>3. DOMAIN records = {1, 2} /\ records[2].final = IdsOf(seen)
  BY <1>1, <1>2, LineageRecordsContext
<1>4. query_receipt = build_query_execution_receipt(request, candidates, response)
  BY DEF QueryInv
<1>5. /\ query_receipt.resolvers = records
      /\ query_receipt.context.ids = _final_context_ids(candidates, records)
  BY <1>1, <1>4 DEF build_query_execution_receipt
<1> DEFINE named == {i \in DOMAIN records : records[i].final # <<>>}
<1>6. ASSUME seen # <<>>
      PROVE  _final_context_ids(candidates, records) = IdsOf(seen)
  <2>1. IdsOf(seen) # <<>>
    <3>1. seen \in Seq(Forms)
      BY <1>2, ContextIsSequence
    <3>2. Len(seen) \in Nat /\ Len(seen) # 0 /\ DOMAIN seen = 1..Len(seen)
      BY <1>6, <3>1
    <3>3. 1 \in DOMAIN IdsOf(seen)
      BY <3>2 DEF IdsOf
    <3> QED BY <3>3
  <2>2. 2 \in named /\ named \subseteq {1, 2}
    BY <1>3, <2>1
  <2>3. Max(named) = 2
    <3> HIDE DEF named
    <3>1. 2 \in named /\ \A y \in named : 2 >= y
      BY <2>2
    <3>2. PICK m : m = Max(named)
      OBVIOUS
    <3>3. m \in named /\ \A y \in named : m >= y
      BY <3>1, <3>2 DEF Max
    <3> QED BY <2>2, <3>1, <3>2, <3>3
  <2> QED BY <1>3, <2>2, <2>3 DEF _final_context_ids
<1>7. ASSUME seen = <<>>
      PROVE  _final_context_ids(candidates, records) = _nonempty(records[1].removed)
  <2>1. Ran(request, candidates, <<>>, response)
    BY <1>2, <1>7
  <2>2. records[1].final = <<>> /\ records[1].removed = IdsOf(candidates)
    BY <1>1, <2>1, NothingGiven
  <2>3. records[2].final = <<>>
    BY <1>3, <1>7 DEF IdsOf
  <2>4. named = {}
    BY <1>3, <2>2, <2>3
  <2> QED BY <2>2, <2>4 DEF _final_context_ids
<1> QED BY <1>3, <1>5, <1>6, <1>7 DEF ReceiptNamesTheContext

\* Every service of a receipt is recorded with its metadata sanitized.
LEMMA ServicesAreSanitized ==
  ASSUME NEW r, NEW items, NEW model, NEW i \in DOMAIN _services(r, items, model)
  PROVE  \E metadata :
           _services(r, items, model)[i].actual.metadata = sanitize_diagnostics(metadata)
<1>1. PICK asked : asked = build_service_invocation("retriever", r.retriever)
  OBVIOUS
<1>2. PICK ranked : ranked = build_service_invocation("reranker", r.reranker)
  OBVIOUS
<1>3. PICK answered : answered = build_service_invocation("model", model)
  OBVIOUS
<1> DEFINE S == {asked, ranked, answered}
<1>4. _services(r, items, model) \in Seq(S)
  <2>1. <<asked>> \in Seq(S) /\ <<ranked>> \in Seq(S) /\ <<answered>> \in Seq(S)
    OBVIOUS
  <2>2. PICK middle : middle = IF items = <<>> \/ r.reranker = Absent THEN <<>> ELSE <<ranked>>
    OBVIOUS
  <2>3. _services(r, items, model) = <<asked>> \o middle \o <<answered>>
    BY <1>1, <1>2, <1>3, <2>2 DEF _services
  <2> HIDE DEF S
  <2>4. middle \in Seq(S)
    BY <2>1, <2>2
  <2> QED BY <2>1, <2>3, <2>4
<1>5. _services(r, items, model)[i] \in S
  <2> HIDE DEF S
  <2> QED BY <1>4
<1>6. /\ asked.actual.metadata = sanitize_diagnostics(r.retriever.metadata)
      /\ ranked.actual.metadata = sanitize_diagnostics(r.reranker.metadata)
      /\ answered.actual.metadata = sanitize_diagnostics(model.metadata)
  BY <1>1, <1>2, <1>3 DEF build_service_invocation
<1> QED BY <1>5, <1>6

LEMMA NothingLeaks ==
  ASSUME QueryInv
  PROVE  ReceiptHoldsNoSecret
<1> SUFFICES ASSUME query_receipt # Absent
             PROVE  ReceiptHoldsNoSecret
  BY DEF ReceiptHoldsNoSecret
<1>1. query_receipt = build_query_execution_receipt(request, candidates, response)
  BY DEF QueryInv
<1>2. query_receipt.services = _services(request, candidates, response.service)
  BY <1>1 DEF build_query_execution_receipt
<1>3. ASSUME NEW i \in DOMAIN query_receipt.services,
             NEW leaf \in query_receipt.services[i].actual.metadata
      PROVE  Elements(leaf.path) \cap SecretKeys = {}
  <2>1. PICK metadata : query_receipt.services[i].actual.metadata = sanitize_diagnostics(metadata)
    BY <1>2, <1>3, ServicesAreSanitized
  <2> QED BY <1>3, <2>1 DEF sanitize_diagnostics
<1> QED BY <1>3 DEF ReceiptHoldsNoSecret

\* The claims of an answer are determined by their ids.
InWords(claims, durable) ==
  claims = [i \in DOMAIN claims |-> [id |-> claims[i].id, text |-> durable[claims[i].id].text,
                                    cite |-> durable[claims[i].id].cite]]

LEMMA AnswerInWords ==
  ASSUME NEW output, NEW durable, NEW scope
  PROVE  InWords(resolve_output(output, durable, scope).claims, durable)
<1>1. CASE \E i \in DOMAIN output.claims : ~Resolves(output.claims[i], durable, scope)
  <2>1. resolve_output(output, durable, scope).claims = <<>>
    BY <1>1 DEF resolve_output, Abstention
  <2>2. InWords(<<>>, durable)
    BY DEF InWords
  <2> QED BY <2>1, <2>2
<1>2. CASE ~\E i \in DOMAIN output.claims : ~Resolves(output.claims[i], durable, scope)
  <2> DEFINE words == [i \in DOMAIN output.claims |->
                         [id |-> output.claims[i].id,
                          text |-> durable[output.claims[i].id].text,
                          cite |-> durable[output.claims[i].id].cite]]
  <2>1. resolve_output(output, durable, scope).claims = words
    BY <1>2 DEF resolve_output
  <2>2. DOMAIN words = DOMAIN output.claims
    OBVIOUS
  <2>3. \A i \in DOMAIN words : words[i].id = output.claims[i].id
    OBVIOUS
  <2>4. words = [i \in DOMAIN words |->
                   [id |-> words[i].id, text |-> durable[words[i].id].text,
                    cite |-> durable[words[i].id].cite]]
    BY <2>2, <2>3
  <2> HIDE DEF words
  <2> QED BY <2>1, <2>4 DEF InWords
<1> QED BY <1>1, <1>2

LEMMA SameWords ==
  ASSUME NEW one, NEW other, NEW durable, InWords(one, durable), InWords(other, durable),
         IdsOf(one) = IdsOf(other)
  PROVE  one = other
<1>1. DOMAIN one = DOMAIN other
  BY DEF IdsOf
<1>2. \A i \in DOMAIN one : one[i].id = other[i].id
  BY <1>1 DEF IdsOf
<1> DEFINE words(claims) == [i \in DOMAIN claims |->
                               [id |-> claims[i].id, text |-> durable[claims[i].id].text,
                                cite |-> durable[claims[i].id].cite]]
<1>3. words(one) = words(other)
  BY <1>1, <1>2
<1>4. one = words(one) /\ other = words(other)
  BY DEF InWords
<1> HIDE DEF words
<1> QED BY <1>3, <1>4

\* Two contexts over one corpus with the same ids agree item by item.
Alike(one, other) ==
  \A i \in DOMAIN other :
    IF other[i].type = "untrusted_context"
    THEN one[i].type = "untrusted_context" /\ one[i].id = other[i].id
    ELSE one[i] = other[i]

LEMMA SameContext ==
  ASSUME NEW durable, NEW scope, NEW one, NEW other, IdsOf(one) = IdsOf(other),
         \A i \in DOMAIN one : Known(durable, scope, one[i]) \/ Data(durable, scope, one[i]),
         \A i \in DOMAIN other : Known(durable, scope, other[i]) \/ Data(durable, scope, other[i])
  PROVE  DOMAIN one = DOMAIN other /\ Alike(one, other)
<1>1. DOMAIN one = DOMAIN other
  BY DEF IdsOf
<1>2. \A i \in DOMAIN other : one[i].id = other[i].id
  BY <1>1 DEF IdsOf
<1>3. ASSUME NEW i \in DOMAIN other, other[i].type = "untrusted_context"
      PROVE  one[i].type = "untrusted_context" /\ one[i].id = other[i].id
  BY <1>1, <1>2, <1>3 DEF Known, Data
<1>4. ASSUME NEW i \in DOMAIN other, other[i].type # "untrusted_context"
      PROVE  one[i] = other[i]
  BY <1>1, <1>2, <1>4 DEF Known, Data
<1> QED BY <1>1, <1>3, <1>4 DEF Alike

\* Two runs whose receipts agree on mounts, scope, resolvers and result agree.
Agree(one, other, oneAnswer, otherAnswer) ==
  /\ oneAnswer.output.outcome = otherAnswer.output.outcome
  /\ oneAnswer.output.claims = otherAnswer.output.claims
  /\ oneAnswer.output.confidence = otherAnswer.output.confidence
  /\ Len(one) = Len(other) /\ Alike(one, other)

LEMMA SameBound ==
  ASSUME NEW m \in Nat, NEW n \in Nat, 1..m = 1..n
  PROVE  m = n
<1>1. CASE m < n
  <2>1. n \in 1..n /\ n \notin 1..m
    BY <1>1
  <2> QED BY <2>1
<1>2. CASE n < m
  <2>1. m \in 1..m /\ m \notin 1..n
    BY <1>2
  <2> QED BY <2>1
<1> QED BY <1>1, <1>2

LEMMA SameReceipts ==
  ASSUME NEW r, NEW items, NEW one, NEW oneAnswer, Ran(r, items, one, oneAnswer),
         NEW s, NEW others, NEW other, NEW otherAnswer, Ran(s, others, other, otherAnswer),
         NEW before, before = build_query_execution_receipt(r, items, oneAnswer),
         NEW after, after = build_query_execution_receipt(s, others, otherAnswer),
         before.packs = after.packs, before.scope = after.scope,
         before.resolvers = after.resolvers, before.result = after.result
  PROVE  Agree(one, other, oneAnswer, otherAnswer)
<1>1. r.mounts = s.mounts /\ r.scope = s.scope
  BY DEF build_query_execution_receipt
<1>2. PICK durable : durable = Mounted(r)
  OBVIOUS
<1>3. Mounted(s) = durable
  BY <1>1, <1>2 DEF Mounted
<1>4. PICK scope : scope = r.scope
  OBVIOUS
<1>5. IsCorpus(durable)
  BY <1>2, MountedIsCorpus
<1>6. /\ before.resolvers = _resolver_records(oneAnswer)
      /\ after.resolvers = _resolver_records(otherAnswer)
  BY DEF build_query_execution_receipt
<1>7. IdsOf(one) = IdsOf(other)
  <2>1. _resolver_records(oneAnswer)[2].final = IdsOf(one)
    BY LineageRecordsContext
  <2>2. _resolver_records(otherAnswer)[2].final = IdsOf(other)
    BY LineageRecordsContext
  <2> QED BY <1>6, <2>1, <2>2
<1>8. /\ \A i \in DOMAIN one : Known(durable, scope, one[i]) \/ Data(durable, scope, one[i])
      /\ \A i \in DOMAIN other : Known(durable, scope, other[i]) \/ Data(durable, scope, other[i])
  <2>1. items \in Seq(Items) /\ one = Context(items, durable, scope)
    BY <1>2, <1>4 DEF Ran
  <2>2. others \in Seq(Items) /\ other = Context(others, durable, scope)
    BY <1>1, <1>3, <1>4 DEF Ran
  <2>3. \A i \in DOMAIN one : Known(durable, scope, one[i]) \/ Data(durable, scope, one[i])
    BY <1>5, <2>1, ContextIsGrounded
  <2>4. \A i \in DOMAIN other : Known(durable, scope, other[i]) \/ Data(durable, scope, other[i])
    BY <1>5, <2>2, ContextIsGrounded
  <2> QED BY <2>3, <2>4
<1>9. DOMAIN one = DOMAIN other /\ Alike(one, other)
  BY <1>7, <1>8, SameContext
<1>10. Len(one) = Len(other)
  <2>1. one \in Seq(Forms) /\ other \in Seq(Forms)
    BY ContextIsSequence
  <2>2. /\ Len(one) \in Nat /\ DOMAIN one = 1..Len(one)
        /\ Len(other) \in Nat /\ DOMAIN other = 1..Len(other)
    BY <2>1
  <2>3. 1..Len(one) = 1..Len(other)
    BY <1>9, <2>2
  <2> QED BY <2>2, <2>3, SameBound
<1>11. oneAnswer.output.claims = otherAnswer.output.claims
  <2>1. InWords(oneAnswer.output.claims, durable)
    <3>1. PICK output \in Outputs, model \in Models :
            oneAnswer = Answer(items, durable, r.scope, output, model)
      BY <1>2 DEF Ran
    <3>2. oneAnswer.output = resolve_output(output, durable, r.scope)
      BY <3>1 DEF Answer
    <3> QED BY <3>2, AnswerInWords
  <2>2. InWords(otherAnswer.output.claims, durable)
    <3>1. PICK output \in Outputs, model \in Models :
            otherAnswer = Answer(others, durable, s.scope, output, model)
      BY <1>3 DEF Ran
    <3>2. otherAnswer.output = resolve_output(output, durable, s.scope)
      BY <3>1 DEF Answer
    <3> QED BY <3>2, AnswerInWords
  <2>3. /\ before.result.claims = IdsOf(oneAnswer.output.claims)
        /\ after.result.claims = IdsOf(otherAnswer.output.claims)
    BY DEF build_query_execution_receipt
  <2> QED BY <2>1, <2>2, <2>3, SameWords
<1>12. /\ oneAnswer.output.outcome = otherAnswer.output.outcome
       /\ oneAnswer.output.confidence = otherAnswer.output.confidence
  <2>1. /\ before.result.outcome = oneAnswer.output.outcome
        /\ after.result.outcome = otherAnswer.output.outcome
        /\ before.result.confidence = oneAnswer.output.confidence
        /\ after.result.confidence = otherAnswer.output.confidence
    BY DEF build_query_execution_receipt
  <2> QED BY <2>1
<1> QED BY <1>9, <1>10, <1>11, <1>12 DEF Agree

\* The comparison of two receipts: no dimension has changed exactly when both
\* identities match.
LEMMA Comparison ==
  ASSUME NEW before, NEW after,
         NEW c, c = compare_query_execution_receipts(before, after)
  PROVE  /\ c.changed = {} <=> c.execution_identity_match /\ c.result_identity_match
         /\ c.corpus_revision_changed => "packs" \in c.changed /\ ~c.execution_identity_match
         /\ c.changed = {} => /\ before.packs = after.packs /\ before.scope = after.scope
                              /\ before.resolvers = after.resolvers
                              /\ before.result = after.result
<1>1. c.changed = changed_dimensions(before, after)
  BY DEF compare_query_execution_receipts
<1>2. /\ c.execution_identity_match <=> _execution_identity(before) = _execution_identity(after)
      /\ c.result_identity_match <=> _result_identity(before) = _result_identity(after)
      /\ c.corpus_revision_changed => before.packs # after.packs
  BY DEF compare_query_execution_receipts
<1>3. c.changed = {} <=>
        /\ before.query = after.query /\ before.packs = after.packs
        /\ before.scope = after.scope /\ before.policy = after.policy
        /\ before.services = after.services /\ before.retrieval = after.retrieval
        /\ before.resolvers = after.resolvers /\ before.context = after.context
        /\ before.result = after.result
  BY <1>1 DEF changed_dimensions, Dimensions
<1>4. before.packs # after.packs => "packs" \in c.changed
  BY <1>1 DEF changed_dimensions, Dimensions
<1> DEFINE resolvers(x) == [i \in DOMAIN x.resolvers |-> x.resolvers[i].resolver]
<1>5. _execution_identity(before) = _execution_identity(after) <=>
        /\ before.query = after.query /\ before.packs = after.packs
        /\ before.scope = after.scope /\ before.policy = after.policy
        /\ before.services = after.services /\ resolvers(before) = resolvers(after)
  BY DEF _execution_identity
<1>6. _result_identity(before) = _result_identity(after) <=>
        /\ before.retrieval = after.retrieval /\ before.resolvers = after.resolvers
        /\ before.context = after.context /\ before.result = after.result
  BY DEF _result_identity
<1>7. before.resolvers = after.resolvers => resolvers(before) = resolvers(after)
  OBVIOUS
<1> HIDE DEF resolvers
<1> QED BY <1>2, <1>3, <1>4, <1>5, <1>6, <1>7

LEMMA ReplaysAgree ==
  ASSUME QueryInv
  PROVE  UnchangedReplayAgrees
<1> SUFFICES ASSUME pc = "done", kept # Absent
             PROVE  UnchangedReplayAgrees
  BY DEF UnchangedReplayAgrees
<1>1. PICK c : c = compare_query_execution_receipts(kept.receipt, query_receipt)
  OBVIOUS
<1>2. PICK r, items : /\ Ran(r, items, kept.seen, kept.response)
                      /\ kept.receipt = build_query_execution_receipt(r, items, kept.response)
  BY DEF QueryInv
<1>3. /\ Ran(request, candidates, seen, response)
      /\ query_receipt = build_query_execution_receipt(request, candidates, response)
  BY DEF QueryInv
<1>4. /\ c.changed = {} <=> c.execution_identity_match /\ c.result_identity_match
      /\ c.corpus_revision_changed => "packs" \in c.changed /\ ~c.execution_identity_match
  BY <1>1, Comparison
<1>5. ASSUME c.changed = {}
      PROVE  Agree(kept.seen, seen, kept.response, response)
  <2>1. /\ kept.receipt.packs = query_receipt.packs /\ kept.receipt.scope = query_receipt.scope
        /\ kept.receipt.resolvers = query_receipt.resolvers
        /\ kept.receipt.result = query_receipt.result
    BY <1>1, <1>5, Comparison
  <2> QED BY <1>2, <1>3, <2>1, SameReceipts
<1> QED BY <1>1, <1>4, <1>5 DEF UnchangedReplayAgrees, Agree, Alike

\* A receipt names the context the model was given, and what security removed
\* when it was given nothing; it holds no credential of a service's metadata;
\* and against the receipt of another run no dimension has changed only if the
\* two agree on the context and on the outcome, claims and confidence of the
\* answer (build_query_execution_receipt, compare_query_execution_receipts).
THEOREM TrueReceipts == QuerySpec => []ReceiptTellsTheRun
<1>1. QueryInv => ReceiptTellsTheRun
  BY NamedRight, NothingLeaks, ReplaysAgree DEF ReceiptTellsTheRun
<1> QED BY <1>1, QueryInvariant, PTL

-----------------------------------------------------------------------------
(***************************************************************************)
(* Conversations: an envelope that passed the store's check                *)
(***************************************************************************)

LEMMA NamedIs ==
  ASSUME NEW S, NEW id \in Ids(S)
  PROVE  Named(S, id) \in S /\ Named(S, id).id = id
BY DEF Ids, Named

\* What Unique checks by counting.
LEMMA UniqueTellsApart ==
  ASSUME NEW S, IsFiniteSet(S), Unique(S)
  PROVE  \A x, y \in S : x.id = y.id => x = y
<1> DEFINE f == [x \in S |-> x.id]
<1>1. f \in Surjection(S, Ids(S))
  BY DEF Surjection, Ids
<1>2. f \in Injection(S, Ids(S))
  <2> HIDE DEF f
  <2> QED BY <1>1, FS_Surjection DEF Unique
<1> QED BY <1>2 DEF Injection, IsInjective

LEMMA SequenceTellsApart ==
  ASSUME NEW S, IsFiniteSet(S), Cardinality({m.sequence : m \in S}) = Cardinality(S)
  PROVE  \A x, y \in S : x.sequence = y.sequence => x = y
<1> DEFINE f == [x \in S |-> x.sequence]
           V == {m.sequence : m \in S}
<1>1. f \in Surjection(S, V)
  BY DEF Surjection
<1>2. f \in Injection(S, V)
  <2> HIDE DEF f, V
  <2>1. Cardinality(V) = Cardinality(S)
    BY DEF V
  <2> QED BY <1>1, <2>1, FS_Surjection
<1> QED BY <1>2 DEF Injection, IsInjective

\* A text that resolves is the bytes the span covers.
LEMMA ResolvedIsCovered ==
  ASSUME NEW file, NEW id, resolve_span_text(file, id) # Nil
  PROVE  /\ resolve_span_text(file, id) = Covered(file, id)
         /\ resolve_span_bytes(file, id) # Nil
<1> DEFINE bytes == resolve_span_bytes(file, id)
<1>1. bytes # Nil /\ resolve_span_text(file, id) = bytes
  BY DEF resolve_span_text
<1>2. bytes = Covered(file, id)
  BY <1>1 DEF resolve_span_bytes, Covered
<1> QED BY <1>1, <1>2

\* Bytes that resolve are there.
LEMMA ResolvedIsThere ==
  ASSUME NEW file, NEW id, resolve_span_bytes(file, id) # Nil
  PROVE  Named(file.sources, Named(file.spans, id).source).artifact \notin erased
BY DEF resolve_span_bytes

\* What VerbatimIsQuoted says of the envelope alone.
Quoted(file) ==
  LET quoted == {m \in file.messages : m.status = "verbatim"} IN
  /\ \A m \in quoted :
       /\ m.text = FlattenSeq([i \in DOMAIN m.refs |-> Covered(file, m.refs[i])])
       /\ \A i \in DOMAIN m.refs :
            Named(file.sources, Named(file.spans, m.refs[i]).source).status = "verbatim"
  /\ file.status = "verbatim" => quoted = file.messages
  /\ file.status = "reconstructed" => quoted = {}

LEMMA ValidIsQuoted ==
  ASSUME NEW file, file.sources \in Sources, _validate_provenance(file)
  PROVE  Quoted(file)
<1> DEFINE quoted == {m \in file.messages : m.status = "verbatim"}
<1>1. ASSUME NEW m \in quoted
      PROVE  m.text = FlattenSeq([i \in DOMAIN m.refs |-> Covered(file, m.refs[i])])
  <2>1. \A i \in DOMAIN m.refs : resolve_span_text(file, m.refs[i]) # Nil
    BY DEF _validate_provenance, MessagesAreSound, MessageIsExact
  <2>2. m.text = FlattenSeq([i \in DOMAIN m.refs |-> resolve_span_text(file, m.refs[i])])
    BY DEF _validate_provenance, MessagesAreSound, MessageIsExact
  <2>3. [i \in DOMAIN m.refs |-> resolve_span_text(file, m.refs[i])]
          = [i \in DOMAIN m.refs |-> Covered(file, m.refs[i])]
    BY <2>1, ResolvedIsCovered
  <2> QED BY <2>2, <2>3
<1>2. ASSUME NEW m \in quoted, NEW i \in DOMAIN m.refs
      PROVE  Named(file.sources, Named(file.spans, m.refs[i]).source).status = "verbatim"
  <2> DEFINE span == Named(file.spans, m.refs[i])
  <2>1. m.refs[i] \in Ids(file.spans) /\ span.status = "verbatim"
    BY DEF _validate_provenance, MessagesAreSound, MessageIsExact, Range
  <2>2. span \in file.spans
    BY <2>1, NamedIs
  <2> HIDE DEF span
  <2>3. span.source \in Ids(file.sources)
        /\ Named(file.sources, span.source).status # "reconstructed"
    BY <2>1, <2>2 DEF _validate_provenance, SpansAreSound, span
  <2>4. Named(file.sources, span.source) \in file.sources
    BY <2>3, NamedIs
  <2>5. Named(file.sources, span.source).status \in {"verbatim", "reconstructed"}
    BY <2>4, ConversationAssumption
  <2> QED BY <2>3, <2>5 DEF span
<1>3. file.status = "verbatim" => quoted = file.messages
  BY DEF _validate_provenance
<1>4. file.status = "reconstructed" => quoted = {}
  BY DEF _validate_provenance
<1> QED BY <1>1, <1>2, <1>3, <1>4 DEF Quoted

\* What RepliesFollowTheirParents says of the envelope.
Threaded(file) ==
  LET ids == build_ingested_event(file).message_ids IN
  /\ Range(ids) = Ids(file.messages) /\ Len(ids) = Cardinality(file.messages)
  /\ \A i \in DOMAIN ids : LET parent == Named(file.messages, ids[i]).parent
                           IN  parent # Nil => \E j \in 1..(i - 1) : ids[j] = parent

LEMMA ValidIsThreaded ==
  ASSUME NEW file, IsFiniteSet(file.messages), file.messages \subseteq Messages,
         _validate_provenance(file)
  PROVE  Threaded(file)
<1> DEFINE M == file.messages
           key == [m \in M |-> m.sequence]
           s == ordered_messages(file)
           n == Cardinality(M)
           ids == build_ingested_event(file).message_ids
<1>1. Unique(M) /\ Cardinality({m.sequence : m \in M}) = Cardinality(M)
  BY DEF _validate_provenance, MessagesAreSound
<1>2. Keyed(M, key)
  <2>1. \A x, y \in M : x.sequence = y.sequence => x = y
    BY <1>1, SequenceTellsApart
  <2>2. key \in [M -> Int]
    BY ConversationAssumption
  <2> QED BY <2>1, <2>2 DEF Keyed
<1>3. Lists(s, M, key)
  BY <1>2, InOrderLists DEF ordered_messages
<1>4. ids = [i \in DOMAIN s |-> s[i].id]
  BY DEF build_ingested_event
<1> HIDE DEF s, ids
<1>5. n \in Nat /\ DOMAIN s = 1..n /\ \A i \in 1..n : s[i] \in M
  BY <1>3 DEF Lists
<1>6. DOMAIN ids = 1..n /\ \A i \in 1..n : ids[i] = s[i].id
  BY <1>4, <1>5
<1>7. Len(ids) = n
  BY <1>4, <1>5
<1>8. Range(ids) = Ids(M)
  <2>1. ASSUME NEW id \in Ids(M) PROVE id \in Range(ids)
    <3>1. PICK m \in M : m.id = id
      BY DEF Ids
    <3>2. PICK i \in 1..n : s[i] = m
      BY <1>3 DEF Lists
    <3> QED BY <1>6, <3>1, <3>2 DEF Range
  <2>2. ASSUME NEW id \in Range(ids) PROVE id \in Ids(M)
    BY <1>5, <1>6, <2>2 DEF Range, Ids
  <2> QED BY <2>1, <2>2
<1>9. ASSUME NEW i \in 1..n, Named(M, ids[i]).parent # Nil
      PROVE  \E j \in 1..(i - 1) : ids[j] = Named(M, ids[i]).parent
  <2> DEFINE m == s[i]
             p == Named(M, m.parent)
  <2>1. Named(M, ids[i]) = m
    <3>1. m \in M /\ ids[i] = m.id /\ ids[i] \in Ids(M)
      BY <1>5, <1>6 DEF Ids
    <3>2. \A x, y \in M : x.id = y.id => x = y
      BY <1>1, UniqueTellsApart
    <3>3. Named(M, ids[i]) \in M /\ Named(M, ids[i]).id = ids[i]
      BY <3>1, NamedIs
    <3> QED BY <3>1, <3>2, <3>3
  <2>2. m \in M /\ m.parent # Nil
    BY <1>5, <1>9, <2>1
  <2>3. m.parent \in Ids(M) /\ p.sequence < m.sequence
    BY <2>2 DEF _validate_provenance, MessagesAreSound
  <2>4. p \in M /\ p.id = m.parent
    BY <2>3, NamedIs
  <2>5. PICK j \in 1..n : s[j] = p
    BY <1>3, <2>4 DEF Lists
  <2>6. key[s[j]] < key[s[i]] /\ key[s[j]] \in Int /\ key[s[i]] \in Int
    BY <1>5, <2>2, <2>3, <2>4, <2>5, ConversationAssumption
  <2>7. j < i
    <3>1. j # i
      BY <2>6
    <3>2. ~(i < j)
      <4> SUFFICES ASSUME i < j PROVE FALSE
        OBVIOUS
      <4>1. key[s[i]] < key[s[j]]
        BY <1>3 DEF Lists
      <4> HIDE DEF key
      <4> QED BY <2>6, <4>1
    <3> QED BY <1>5, <3>1, <3>2
  <2>8. j \in 1..(i - 1) /\ ids[j] = m.parent
    BY <1>5, <1>6, <2>4, <2>5, <2>7
  <2> QED BY <2>1, <2>8
<1> QED BY <1>6, <1>7, <1>8, <1>9 DEF Threaded, ids

-----------------------------------------------------------------------------
(***************************************************************************)
(* Conversations: the occurrences of a text                                *)
(***************************************************************************)

\* Where a text of so many bytes is in the data.
Offsets(data, needle) ==
  {n \in 0..(Len(data) - Len(needle)) : SubSeq(data, n + 1, n + Len(needle)) = needle}

Find(at, cursor) ==
  LET later == {n \in at : n >= cursor} IN IF later = {} THEN -1 ELSE Min(later)

LEMMA FindIs ==
  ASSUME NEW at \in SUBSET Nat, NEW cursor
  PROVE  Find(at, cursor) # -1 => Find(at, cursor) \in at /\ Find(at, cursor) >= cursor
<1> DEFINE later == {n \in at : n >= cursor}
<1>1. ASSUME later # {} PROVE Min(later) \in later
  <2>1. later \in SUBSET Nat
    OBVIOUS
  <2> HIDE DEF later
  <2>2. PICK m \in later : \A n \in later : m <= n
    BY <1>1, <2>1, LeastNumber
  <2> QED BY <2>2 DEF Min
<1> QED BY <1>1 DEF Find

\* The offset of each occurrence up to the N-th, -1 past the last.
Searching(start, N, at, len) ==
  start = [k \in 0..N |-> IF k = 0 THEN Find(at, 0)
                          ELSE IF start[k - 1] = -1 THEN -1
                          ELSE Find(at, start[k - 1] + len)]

LEMMA SearchingExists ==
  ASSUME NEW at, NEW len, NEW N \in Nat
  PROVE  \E start : Searching(start, N, at, len)
<1> DEFINE T == {m \in 0..N : \E start : Searching(start, m, at, len)}
<1>1. 0 \in T /\ 0 \in 0..N
  <2> DEFINE start == [k \in 0..0 |-> Find(at, 0)]
  <2>1. Searching(start, 0, at, len)
    BY DEF Searching
  <2> QED BY <2>1
<1>2. ASSUME NEW m \in 0..N, m \in T, m < N PROVE m + 1 \in T
  <2>1. PICK start : Searching(start, m, at, len)
    BY <1>2
  <2> DEFINE next == IF start[m] = -1 THEN -1 ELSE Find(at, start[m] + len)
             longer == [k \in 0..(m + 1) |-> IF k = m + 1 THEN next ELSE start[k]]
  <2>2. ASSUME NEW k \in 0..(m + 1)
        PROVE  longer[k] = IF k = 0 THEN Find(at, 0)
                           ELSE IF longer[k - 1] = -1 THEN -1
                           ELSE Find(at, longer[k - 1] + len)
    <3>1. \A j \in 0..m : start[j] = IF j = 0 THEN Find(at, 0)
                                     ELSE IF start[j - 1] = -1 THEN -1
                                     ELSE Find(at, start[j - 1] + len)
      BY <2>1 DEF Searching
    <3>2. CASE k = 0
      BY <3>1, <3>2
    <3>3. CASE k = m + 1
      BY <3>3
    <3>4. CASE k # 0 /\ k # m + 1
      <4>1. k \in 0..m /\ k - 1 \in 0..m /\ k - 1 # m + 1 /\ k - 1 \in 0..(m + 1)
        BY <3>4
      <4> QED BY <4>1, <3>1, <3>4
    <3> QED BY <3>2, <3>3, <3>4
  <2>3. Searching(longer, m + 1, at, len)
    <3>1. longer = [k \in 0..(m + 1) |-> longer[k]]
      OBVIOUS
    <3> HIDE DEF longer
    <3> QED BY <3>1, <2>2 DEF Searching
  <2>4. m + 1 \in 0..N
    BY <1>2
  <2> QED BY <2>3, <2>4
<1>3. 0..N \subseteq T
  <2> HIDE DEF T
  <2> QED BY <1>1, <1>2, Onwards
<1> QED BY <1>3

\* A longer search finds the same occurrences first.
LEMMA SearchingAgrees ==
  ASSUME NEW at, NEW len, NEW N \in Nat, NEW s, Searching(s, N, at, len),
         NEW t, Searching(t, N + 1, at, len)
  PROVE  t[N] = s[N]
<1> DEFINE T == {k \in 0..N : t[k] = s[k]}
<1>1. /\ \A k \in 0..N : s[k] = IF k = 0 THEN Find(at, 0)
                                ELSE IF s[k - 1] = -1 THEN -1 ELSE Find(at, s[k - 1] + len)
      /\ \A k \in 0..N : t[k] = IF k = 0 THEN Find(at, 0)
                                ELSE IF t[k - 1] = -1 THEN -1 ELSE Find(at, t[k - 1] + len)
  <2>1. \A k \in 0..N : k \in 0..(N + 1)
    OBVIOUS
  <2> QED BY <2>1 DEF Searching
<1>2. 0 \in T /\ 0 \in 0..N
  BY <1>1
<1>3. ASSUME NEW k \in 0..N, k \in T, k < N PROVE k + 1 \in T
  <2>1. k + 1 \in 0..N /\ (k + 1) - 1 = k /\ k + 1 # 0
    BY <1>3
  <2> QED BY <1>1, <1>3, <2>1
<1>4. 0..N \subseteq T
  <2> HIDE DEF T
  <2> QED BY <1>2, <1>3, Onwards
<1> QED BY <1>4

\* start has the offsets of the occurrences, and span_for_text finds the n-th.
Occurs(start, source, needle, n, status) ==
  /\ Searching(start, n, Offsets(ArtifactBytes[source.artifact], needle), Len(needle))
  /\ span_for_text(source, needle, n, status) =
       IF start[n] = -1 THEN Nil ELSE Span(source, start[n], start[n] + Len(needle), status)

LEMMA OccurrenceIs ==
  ASSUME NEW source, NEW needle, NEW n \in Nat, NEW status
  PROVE  \E start : Occurs(start, source, needle, n, status)
<1> DEFINE data == ArtifactBytes[source.artifact]
           at == {i \in 0..(Len(data) - Len(needle)) : SubSeq(data, i + 1, i + Len(needle)) = needle}
           find(cursor) == LET later == {i \in at : i >= cursor} IN IF later = {} THEN -1 ELSE Min(later)
           start == CHOOSE start : start =
                      [k \in 0..n |-> IF k = 0 THEN find(0)
                                      ELSE IF start[k - 1] = -1 THEN -1
                                      ELSE find(start[k - 1] + Len(needle))]
<1>1. \E s : Searching(s, n, at, Len(needle))
  <2> HIDE DEF at
  <2> QED BY SearchingExists
<1>2. start = [k \in 0..n |-> IF k = 0 THEN find(0)
                              ELSE IF start[k - 1] = -1 THEN -1
                              ELSE find(start[k - 1] + Len(needle))]
  BY <1>1 DEF Searching, Find
<1>3. span_for_text(source, needle, n, status) =
        IF start[n] = -1 THEN Nil ELSE Span(source, start[n], start[n] + Len(needle), status)
  BY DEF span_for_text
<1> HIDE DEF start
<1>4. Searching(start, n, Offsets(data, needle), Len(needle))
  BY <1>2 DEF Searching, Find, Offsets
<1> QED BY <1>3, <1>4 DEF Occurs

\* An occurrence is the text, and the next one starts after it.
LEMMA OccurrencesFollow ==
  ASSUME NEW S \in Sources, NEW source \in S, NEW m \in Messages, NEW n \in Nat
  PROVE  LET here == span_for_text(source, m.text, n, source.status)
             next == span_for_text(source, m.text, n + 1, source.status)
         IN  /\ here # Nil =>
                  SubSeq(ArtifactBytes[source.artifact], here.start + 1, here.end) = m.text
             /\ next # Nil => here # Nil /\ here.end <= next.start
<1> DEFINE data == ArtifactBytes[source.artifact]
           len == Len(m.text)
           at == Offsets(data, m.text)
           here == span_for_text(source, m.text, n, source.status)
           next == span_for_text(source, m.text, n + 1, source.status)
<1>1. len \in Nat /\ Len(data) \in Nat
  BY ConversationAssumption
<1>2. at \in SUBSET Nat
        /\ \A i \in at : SubSeq(data, i + 1, i + len) = m.text /\ i + len \in 0..Len(data) /\ i \in 0..Len(data)
  <2> HIDE DEF data
  <2> QED BY <1>1 DEF Offsets
<1>3. PICK s : Occurs(s, source, m.text, n, source.status)
  BY OccurrenceIs
<1>4. PICK t : Occurs(t, source, m.text, n + 1, source.status)
  <2>1. n + 1 \in Nat
    OBVIOUS
  <2> QED BY <2>1, OccurrenceIs
<1>5. Searching(s, n, at, len)
  BY <1>3 DEF Occurs
<1>6. here = IF s[n] = -1 THEN Nil ELSE Span(source, s[n], s[n] + len, source.status)
  BY <1>3 DEF Occurs
<1>7. Searching(t, n + 1, at, len)
  BY <1>4 DEF Occurs
<1>8. next = IF t[n + 1] = -1 THEN Nil
             ELSE Span(source, t[n + 1], t[n + 1] + len, source.status)
  BY <1>4 DEF Occurs
<1> HIDE DEF at, len, here, next
<1>9. t[n] = s[n]
  BY <1>5, <1>7, SearchingAgrees
<1>10. s[n] # -1 => s[n] \in at
  <2>1. s[n] = IF n = 0 THEN Find(at, 0)
               ELSE IF s[n - 1] = -1 THEN -1 ELSE Find(at, s[n - 1] + len)
    BY <1>5 DEF Searching
  <2> QED BY <2>1, <1>2, FindIs
<1>11. t[n + 1] # -1 => t[n] # -1 /\ t[n + 1] \in at /\ t[n + 1] >= t[n] + len
  <2>1. t[n + 1] = IF t[n] = -1 THEN -1 ELSE Find(at, t[n] + len)
    <3>1. n + 1 \in 0..(n + 1) /\ n + 1 # 0 /\ (n + 1) - 1 = n
      OBVIOUS
    <3> QED BY <1>7, <3>1 DEF Searching
  <2> QED BY <2>1, <1>2, FindIs
<1>12. here # Nil => SubSeq(data, here.start + 1, here.end) = m.text
  <2> SUFFICES ASSUME here # Nil PROVE SubSeq(data, here.start + 1, here.end) = m.text
    OBVIOUS
  <2>1. s[n] \in at /\ here = Span(source, s[n], s[n] + len, source.status)
    BY <1>6, <1>10
  <2>2. here.start = s[n] /\ here.end = s[n] + len
    BY <2>1 DEF Span
  <2> HIDE DEF data
  <2> QED BY <1>2, <2>1, <2>2
<1>13. next # Nil => here # Nil /\ here.end <= next.start
  <2> SUFFICES ASSUME next # Nil PROVE here # Nil /\ here.end <= next.start
    OBVIOUS
  <2>1. t[n + 1] # -1 /\ next = Span(source, t[n + 1], t[n + 1] + len, source.status)
    BY <1>8
  <2>2. s[n] # -1 /\ t[n + 1] \in at /\ s[n] \in at /\ t[n + 1] >= s[n] + len
    BY <1>9, <1>10, <1>11, <2>1
  <2>3. here = Span(source, s[n], s[n] + len, source.status)
    BY <1>6, <2>2
  <2>4. here # Nil
    <3>1. s[n] \in 0..Len(data) /\ s[n] + len \in 0..Len(data)
      <4> HIDE DEF data
      <4> QED BY <1>2, <2>2
    <3> QED BY <2>3, <3>1, ConversationAssumption
  <2>5. here.end = s[n] + len /\ next.start = t[n + 1]
    BY <2>1, <2>3 DEF Span
  <2> QED BY <2>2, <2>4, <2>5
<1> QED BY <1>12, <1>13 DEF here, next, len

-----------------------------------------------------------------------------
(***************************************************************************)
(* Conversations: what an envelope says was said was said                  *)
(***************************************************************************)

\* A position that calls itself verbatim refers to verbatim messages.
Grounded(file, positions) ==
  \A n \in positions.nodes : n.status = "verbatim" =>
    n.messages \subseteq Ids({m \in file.messages : m.status = "verbatim"})

\* What was checked when the envelope was published and when the lineage was
\* read stays so: artifacts are erased, the envelope is not.
EnvelopeInv ==
  /\ draft \in [sources : Sources, spans : SUBSET Spans, messages : SUBSET Messages,
                status : Statuses]
  /\ IsFiniteSet(draft.messages)
  /\ committed # Nil => Quoted(committed) /\ Threaded(committed)
  /\ view # Nil => committed # Nil /\ Grounded(committed, view)

LEMMA InitEnvelope == ConversationInit => EnvelopeInv
<1> SUFFICES ASSUME ConversationInit PROVE EnvelopeInv
  OBVIOUS
<1>1. PICK s \in Sources :
        draft = [sources |-> s, spans |-> {}, messages |-> {}, status |-> "mixed"]
  BY DEF ConversationInit
<1>2. draft.messages = {} /\ IsFiniteSet({})
  BY <1>1, FS_EmptySet
<1>3. committed = Nil /\ view = Nil
  BY DEF ConversationInit
<1> QED BY <1>1, <1>2, <1>3 DEF EnvelopeInv, Statuses

LEMMA AddSpanStep ==
  ASSUME EnvelopeInv, NEW span \in Spans, AddSpan(span)
  PROVE  EnvelopeInv'
<1>1. /\ draft' \in [sources : Sources, spans : SUBSET Spans, messages : SUBSET Messages,
                     status : Statuses]
      /\ draft'.messages = draft.messages
  BY DEF EnvelopeInv, AddSpan
<1>2. UNCHANGED <<committed, view>>
  BY DEF AddSpan
<1> QED BY <1>1, <1>2 DEF EnvelopeInv, Quoted, Threaded, Grounded, Covered

LEMMA AddMessageStep ==
  ASSUME EnvelopeInv, NEW message \in Messages, AddMessage(message)
  PROVE  EnvelopeInv'
<1>1. /\ draft' \in [sources : Sources, spans : SUBSET Spans, messages : SUBSET Messages,
                     status : Statuses]
      /\ draft'.messages = draft.messages \cup {message}
  BY DEF EnvelopeInv, AddMessage
<1>2. IsFiniteSet(draft'.messages)
  BY <1>1, FS_AddElement DEF EnvelopeInv
<1>3. UNCHANGED <<committed, view>>
  BY DEF AddMessage
<1>4. (committed # Nil => Quoted(committed) /\ Threaded(committed))'
  BY <1>3 DEF EnvelopeInv, Quoted, Threaded, Covered
<1>5. (view # Nil => committed # Nil /\ Grounded(committed, view))'
  BY <1>3 DEF EnvelopeInv, Grounded
<1> QED BY <1>1, <1>2, <1>4, <1>5 DEF EnvelopeInv

LEMMA CommitConversationStep ==
  ASSUME EnvelopeInv, NEW status \in Statuses, CommitConversation(status)
  PROVE  EnvelopeInv'
<1> DEFINE candidate == [draft EXCEPT !.status = status]
<1>1. /\ _validate_provenance(candidate) /\ committed = Nil /\ committed' = candidate
      /\ UNCHANGED <<draft, view>>
  BY DEF CommitConversation
<1>2. candidate.sources \in Sources /\ candidate.messages \subseteq Messages
      /\ candidate.messages = draft.messages
  BY DEF EnvelopeInv
<1> HIDE DEF candidate
<1>3. Quoted(candidate) /\ Threaded(candidate)
  BY <1>1, <1>2, ValidIsQuoted, ValidIsThreaded DEF EnvelopeInv
<1>4. Quoted(committed)' /\ Threaded(committed)'
  BY <1>1, <1>3 DEF Quoted, Threaded, Covered
<1>5. view' = Nil
  BY <1>1 DEF EnvelopeInv
<1> QED BY <1>1, <1>4, <1>5 DEF EnvelopeInv

LEMMA ReadLineageStep ==
  ASSUME EnvelopeInv, NEW positions, ReadLineage(positions)
  PROVE  EnvelopeInv'
<1>1. /\ committed # Nil /\ _validate_references(committed, positions) /\ view' = positions
      /\ UNCHANGED <<draft, committed>>
  BY DEF ReadLineage
<1>2. Grounded(committed, positions)
  <2> SUFFICES ASSUME NEW n \in positions.nodes, n.status = "verbatim", NEW id \in n.messages
               PROVE  id \in Ids({m \in committed.messages : m.status = "verbatim"})
    BY DEF Grounded
  <2>1. id \in Ids(committed.messages) /\ Named(committed.messages, id).status = "verbatim"
    BY <1>1 DEF _validate_references, NodeIsGrounded
  <2>2. Named(committed.messages, id) \in committed.messages
        /\ Named(committed.messages, id).id = id
    BY <2>1, NamedIs
  <2> QED BY <2>1, <2>2 DEF Ids
<1> QED BY <1>1, <1>2 DEF EnvelopeInv, Quoted, Threaded, Grounded, Covered

LEMMA NextEnvelope == EnvelopeInv /\ [ConversationNext]_convars => EnvelopeInv'
<1>1. ASSUME EnvelopeInv, UNCHANGED <<draft, committed, view>> PROVE EnvelopeInv'
  BY <1>1 DEF EnvelopeInv, Quoted, Threaded, Grounded, Covered
<1>2. ASSUME NEW a, EraseArtifact(a) PROVE UNCHANGED <<draft, committed, view>>
  BY <1>2 DEF EraseArtifact
<1> QED BY <1>1, <1>2, AddSpanStep, AddMessageStep, CommitConversationStep, ReadLineageStep
        DEF ConversationNext, convars

\* Whatever an import composes, the store publishes and policy erases: a
\* message that calls itself verbatim is bytes of verbatim sources, a position
\* that does refers to such messages, the announced ids list each message
\* after its parent, and occurrences of a text are that text, one after the
\* other (_validate_provenance, _validate_references, ordered_messages and
\* span_for_text in conversation.py).
THEOREM FaithfulEnvelopes == ConversationSpec => []EnvelopeIsFaithful
<1>1. EnvelopeInv => EnvelopeIsFaithful
  <2> SUFFICES ASSUME EnvelopeInv PROVE EnvelopeIsFaithful
    OBVIOUS
  <2>1. VerbatimIsQuoted
    BY DEF EnvelopeInv, VerbatimIsQuoted, Quoted, Grounded
  <2>2. RepliesFollowTheirParents
    BY DEF EnvelopeInv, RepliesFollowTheirParents, Threaded
  <2>3. OccurrencesAreDisjoint
    <3> SUFFICES ASSUME NEW source \in draft.sources, NEW m \in draft.messages, NEW n \in 0..1
                 PROVE  LET here == span_for_text(source, m.text, n, source.status)
                            next == span_for_text(source, m.text, n + 1, source.status)
                        IN  /\ here # Nil =>
                                 SubSeq(ArtifactBytes[source.artifact], here.start + 1, here.end)
                                   = m.text
                            /\ next # Nil => here # Nil /\ here.end <= next.start
      BY DEF OccurrencesAreDisjoint
    <3>1. draft.sources \in Sources /\ m \in Messages /\ n \in Nat
      BY DEF EnvelopeInv
    <3> QED BY <3>1, OccurrencesFollow
  <2> QED BY <2>1, <2>2, <2>3 DEF EnvelopeIsFaithful
<1> QED BY <1>1, InitEnvelope, NextEnvelope, PTL DEF ConversationSpec

-----------------------------------------------------------------------------
(***************************************************************************)
(* Conversations: breadth first search                                     *)
(***************************************************************************)

Points(E, start) == {start} \cup {e.target : e \in E}
Leads(E, v, t) == \E e \in E : e.source = v /\ e.target = t

\* The walks over the edges from the start, as sequences of nodes.
Trails(E, start) ==
  {w \in Seq(Points(E, start)) :
     /\ Len(w) >= 1 /\ w[1] = start
     /\ \A i \in 1..(Len(w) - 1) : Leads(E, w[i], w[i + 1])}

\* No other walk to where it ends is shorter, and it meets no node twice.
Direct(E, start, p) ==
  /\ p \in Trails(E, start)
  /\ \A i, j \in 1..Len(p) : i # j => p[i] # p[j]
  /\ \A w \in Trails(E, start) : Last(w) = Last(p) => Len(p) <= Len(w)

LEMMA TrailLast ==
  ASSUME NEW P, NEW w \in Seq(P), Len(w) >= 1
  PROVE  Last(w) = w[Len(w)] /\ Last(w) \in P
BY DEF Last

LEMMA TrailGrows ==
  ASSUME NEW E, NEW start, NEW w \in Trails(E, start), NEW e \in E, e.source = Last(w)
  PROVE  /\ Append(w, e.target) \in Trails(E, start)
         /\ Len(Append(w, e.target)) = Len(w) + 1
         /\ Last(Append(w, e.target)) = e.target
         /\ \A i \in 1..Len(w) : Append(w, e.target)[i] = w[i]
         /\ Append(w, e.target)[Len(w) + 1] = e.target
<1> DEFINE P == Points(E, start)
           u == Append(w, e.target)
<1>1. w \in Seq(P) /\ Len(w) >= 1 /\ w[1] = start /\ Len(w) \in Nat
      /\ \A i \in 1..(Len(w) - 1) : Leads(E, w[i], w[i + 1])
  BY DEF Trails
<1>2. e.target \in P
  BY DEF Points
<1> HIDE DEF P
<1>3. /\ u \in Seq(P) /\ Len(u) = Len(w) + 1
      /\ \A i \in 1..Len(w) : u[i] = w[i]
      /\ u[Len(w) + 1] = e.target
  BY <1>1, <1>2
<1> HIDE DEF u
<1>4. Last(u) = e.target
  BY <1>1, <1>3 DEF Last
<1>5. ASSUME NEW i \in 1..(Len(u) - 1) PROVE Leads(E, u[i], u[i + 1])
  <2>1. CASE i = Len(w)
    <3>1. w[Len(w)] = e.source
      BY <1>1, TrailLast
    <3>2. u[i] = e.source /\ u[i + 1] = e.target
      BY <1>1, <1>3, <2>1, <3>1
    <3> QED BY <3>2 DEF Leads
  <2>2. CASE i # Len(w)
    <3>1. i \in 1..(Len(w) - 1) /\ i \in 1..Len(w) /\ i + 1 \in 1..Len(w)
      BY <1>1, <1>3, <2>2
    <3>2. u[i] = w[i] /\ u[i + 1] = w[i + 1]
      BY <1>3, <3>1
    <3> QED BY <1>1, <3>1, <3>2
  <2> QED BY <2>1, <2>2
<1>6. u[1] = start
  BY <1>1, <1>3
<1>7. u \in Trails(E, start)
  <2>1. Len(u) >= 1
    BY <1>1, <1>3
  <2> QED BY <1>3, <1>5, <1>6, <2>1 DEF Trails, P
<1> QED BY <1>3, <1>4, <1>7 DEF u

\* A walk of two nodes and more is a shorter one and an edge.
LEMMA TrailShrinks ==
  ASSUME NEW E, NEW start, NEW u \in Trails(E, start), Len(u) # 1
  PROVE  \E w \in Trails(E, start), e \in E :
           /\ Len(w) + 1 = Len(u) /\ e.source = Last(w) /\ e.target = Last(u)
           /\ u = Append(w, e.target)
<1> DEFINE P == Points(E, start)
           n == Len(u) - 1
<1>1. u \in Seq(P) /\ Len(u) >= 1 /\ u[1] = start /\ Len(u) \in Nat
      /\ \A i \in 1..(Len(u) - 1) : Leads(E, u[i], u[i + 1])
  BY DEF Trails
<1> HIDE DEF P
<1>2. n \in Nat /\ n >= 1 /\ Len(u) = n + 1
  <2>1. Len(u) \in Nat /\ Len(u) >= 1 /\ Len(u) # 1
    BY <1>1
  <2>2. \A k \in Nat : k >= 1 /\ k # 1 => k - 1 \in Nat /\ k - 1 >= 1 /\ k = (k - 1) + 1
    OBVIOUS
  <2> QED BY ONLY <2>1, <2>2
<1> DEFINE w == SubSeq(u, 1, n)
<1>3. w \in Seq(P) /\ Len(w) = n /\ \A i \in 1..n : w[i] = u[i]
  BY <1>1, <1>2
<1>4. PICK e \in E : e.source = u[n] /\ e.target = u[n + 1]
  BY <1>1, <1>2 DEF Leads
<1> HIDE DEF n, w
<1>5. w \in Trails(E, start)
  <2>1. \A i \in 1..(Len(w) - 1) : Leads(E, w[i], w[i + 1])
    <3> SUFFICES ASSUME NEW i \in 1..(Len(w) - 1) PROVE Leads(E, w[i], w[i + 1])
      OBVIOUS
    <3>1. i \in 1..n /\ i + 1 \in 1..n /\ i \in 1..(Len(u) - 1)
      BY <1>2, <1>3
    <3>2. w[i] = u[i] /\ w[i + 1] = u[i + 1]
      BY <1>3, <3>1
    <3> QED BY <1>1, <3>1, <3>2
  <2>2. Len(w) >= 1 /\ w[1] = start
    BY <1>1, <1>2, <1>3
  <2> QED BY <1>3, <2>1, <2>2 DEF Trails, P
<1>6. Last(w) = u[n] /\ Last(u) = u[n + 1]
  BY <1>1, <1>2, <1>3, TrailLast
<1>7. u = Append(w, e.target)
  <2>1. u[n + 1] \in P
    BY <1>1, <1>2
  <2>2. Append(w, u[n + 1]) \in Seq(P) /\ Len(Append(w, u[n + 1])) = n + 1
        /\ \A i \in 1..(n + 1) : Append(w, u[n + 1])[i] = u[i]
    BY <1>2, <1>3, <2>1
  <2>3. Append(w, u[n + 1]) = u
    BY <1>1, <1>2, <2>2, SeqEqual
  <2> QED BY <1>4, <2>3
<1> QED BY <1>2, <1>3, <1>4, <1>5, <1>6, <1>7

\* The queue of the search and the nodes it has marked: the paths of the queue
\* are direct, over marked nodes, in the order of their lengths, which differ
\* by one at most; what is no further than the first of them is marked; and a
\* marked node is the end of a path of the queue, or not the end of the search
\* and all it leads to is marked.
Frontier(E, start, end, q, visited) ==
  /\ q \in Seq(Seq(Points(E, start))) /\ visited \in SUBSET Points(E, start)
  /\ \A k \in 1..Len(q) : /\ Direct(E, start, q[k])
                          /\ \A i \in 1..Len(q[k]) : q[k][i] \in visited
  /\ \A k, l \in 1..Len(q) : k <= l => Len(q[k]) <= Len(q[l]) /\ Len(q[l]) <= Len(q[k]) + 1
  /\ q # <<>> => \A w \in Trails(E, start) : Len(w) <= Len(q[1]) => Last(w) \in visited
  /\ \A v \in visited : \/ \E k \in 1..Len(q) : Last(q[k]) = v
                        \/ v # end /\ \A e \in E : e.source = v => e.target \in visited

LEMMA FrontierStarts ==
  ASSUME NEW E, NEW start, NEW end
  PROVE  Frontier(E, start, end, <<<<start>>>>, {start})
<1> DEFINE P == Points(E, start)
           w == <<start>>
           q == <<w>>
<1>1. start \in P
  BY DEF Points
<1> HIDE DEF P
<1>2. w \in Seq(P) /\ Len(w) = 1 /\ w[1] = start
  BY <1>1
<1> HIDE DEF w
<1>3. q \in Seq(Seq(P)) /\ Len(q) = 1 /\ q[1] = w
  BY <1>2
<1> HIDE DEF q
<1>4. \A u \in Trails(E, start) : Len(u) \in Nat /\ Len(u) >= 1 /\ u[1] = start
  BY DEF Trails
<1>5. w \in Trails(E, start)
  <2>1. \A i \in 1..(Len(w) - 1) : Leads(E, w[i], w[i + 1])
    BY <1>2
  <2>2. Len(w) >= 1 /\ w \in Seq(Points(E, start))
    BY <1>2 DEF P
  <2> QED BY <1>2, <2>1, <2>2 DEF Trails
<1>6. Direct(E, start, w)
  BY <1>2, <1>4, <1>5 DEF Direct
<1>7. ASSUME NEW u \in Trails(E, start), Len(u) <= Len(q[1]) PROVE Last(u) \in {start}
  <2>1. Len(q[1]) = 1 /\ Len(u) \in Nat /\ Len(u) >= 1 /\ u[1] = start
    BY <1>2, <1>3, <1>4
  <2>2. Len(u) = 1
    BY <1>7, <2>1
  <2> QED BY <2>1, <2>2 DEF Last
<1>8. Last(w) = start
  BY <1>2 DEF Last
<1>9. /\ q \in Seq(Seq(P)) /\ {start} \in SUBSET P
      /\ \A k \in 1..Len(q) : Direct(E, start, q[k]) /\ \A i \in 1..Len(q[k]) : q[k][i] \in {start}
      /\ \A k, l \in 1..Len(q) : k <= l => Len(q[k]) <= Len(q[l]) /\ Len(q[l]) <= Len(q[k]) + 1
  BY <1>1, <1>2, <1>3, <1>6
<1>10. \A v \in {start} : \E k \in 1..Len(q) : Last(q[k]) = v
  BY <1>3, <1>8
<1>11. Frontier(E, start, end, q, {start})
  BY <1>7, <1>9, <1>10 DEF Frontier, P
<1> QED BY <1>11 DEF q, w

LEMMA FrontierGrows ==
  ASSUME NEW E, NEW start, NEW end, NEW q, NEW visited,
         Frontier(E, start, end, q, visited), q # <<>>,
         NEW e \in E, e.source = Last(q[1]), e.target \notin visited
  PROVE  Frontier(E, start, end, Append(q, Append(q[1], e.target)), visited \cup {e.target})
<1> DEFINE P == Points(E, start)
           p == q[1]
           r == Append(p, e.target)
           s == Append(q, r)
           marked == visited \cup {e.target}
<1>1. /\ q \in Seq(Seq(P)) /\ visited \in SUBSET P /\ Len(q) \in Nat /\ 1 \in 1..Len(q)
      /\ \A k \in 1..Len(q) : q[k] \in Seq(P) /\ Len(q[k]) \in Nat
  BY DEF Frontier
<1>2. Direct(E, start, p) /\ p \in Trails(E, start) /\ \A i \in 1..Len(p) : p[i] \in visited
  BY <1>1 DEF Frontier, Direct
<1>3. e.target \in P
  BY DEF Points
<1>4. /\ r \in Trails(E, start) /\ Len(r) = Len(p) + 1 /\ Last(r) = e.target
      /\ (\A i \in 1..Len(p) : r[i] = p[i]) /\ r[Len(p) + 1] = e.target
  BY <1>2, TrailGrows
<1>5. Len(p) \in Nat /\ r \in Seq(P)
  BY <1>1, <1>4 DEF Trails
<1> HIDE DEF P, p, r
<1>6. /\ s \in Seq(Seq(P)) /\ Len(s) = Len(q) + 1
      /\ \A k \in 1..Len(q) : s[k] = q[k]
      /\ s[Len(q) + 1] = r
  BY <1>1, <1>5
<1>7. q[1] = p
  BY DEF p
<1> HIDE DEF s
<1>8. \A w \in Trails(E, start) : Len(w) <= Len(p) => Last(w) \in visited
  BY <1>7 DEF Frontier
<1>9. Direct(E, start, r)
  <2>1. ASSUME NEW w \in Trails(E, start), Last(w) = Last(r) PROVE Len(r) <= Len(w)
    <3>1. Len(w) \in Nat
      BY DEF Trails
    <3>2. ~(Len(w) <= Len(p))
      BY <1>4, <1>8, <2>1
    <3> QED BY <1>4, <1>5, <3>1, <3>2
  <2>2. ASSUME NEW i \in 1..Len(r), NEW j \in 1..Len(r), i # j PROVE r[i] # r[j]
    <3>1. \A x, y \in 1..Len(p) : x # y => p[x] # p[y]
      BY <1>2 DEF Direct
    <3>2. CASE i # Len(r) /\ j # Len(r)
      <4>1. i \in 1..Len(p) /\ j \in 1..Len(p)
        BY <1>4, <1>5, <3>2
      <4> QED BY <1>4, <2>2, <3>1, <4>1
    <3>3. CASE i = Len(r)
      <4>1. j \in 1..Len(p) /\ r[i] = e.target
        BY <1>4, <1>5, <2>2, <3>3
      <4> QED BY <1>2, <1>4, <4>1
    <3>4. CASE j = Len(r)
      <4>1. i \in 1..Len(p) /\ r[j] = e.target
        BY <1>4, <1>5, <2>2, <3>4
      <4> QED BY <1>2, <1>4, <4>1
    <3> QED BY <3>2, <3>3, <3>4
  <2> QED BY <1>4, <2>1, <2>2 DEF Direct
<1>10. \A i \in 1..Len(r) : r[i] \in marked
  <2> SUFFICES ASSUME NEW i \in 1..Len(r) PROVE r[i] \in marked
    OBVIOUS
  <2>1. i \in 1..Len(p) \/ i = Len(p) + 1
    BY <1>4, <1>5
  <2> QED BY <1>2, <1>4, <2>1
<1>11. ASSUME NEW k \in 1..Len(s)
       PROVE  /\ k \in 1..Len(q) \/ k = Len(q) + 1
              /\ Direct(E, start, s[k])
              /\ \A i \in 1..Len(s[k]) : s[k][i] \in marked
  <2>1. k \in 1..Len(q) \/ k = Len(q) + 1
    BY <1>1, <1>6
  <2>2. CASE k \in 1..Len(q)
    BY <1>6, <2>1, <2>2 DEF Frontier
  <2>3. CASE k = Len(q) + 1
    BY <1>6, <1>9, <1>10, <2>1, <2>3
  <2> QED BY <2>1, <2>2, <2>3
<1>12. ASSUME NEW k \in 1..Len(s), NEW l \in 1..Len(s), k <= l
       PROVE  Len(s[k]) <= Len(s[l]) /\ Len(s[l]) <= Len(s[k]) + 1
  <2>1. CASE l \in 1..Len(q)
    <3>1. k \in 1..Len(q)
      BY <1>1, <1>12, <2>1
    <3> QED BY <1>6, <1>12, <2>1, <3>1 DEF Frontier
  <2>2. CASE l = Len(q) + 1 /\ k \in 1..Len(q)
    <3>1. Len(q[1]) <= Len(q[k]) /\ Len(q[k]) <= Len(q[1]) + 1
      BY <1>1, <2>2 DEF Frontier
    <3>2. s[k] = q[k] /\ s[l] = r /\ Len(q[k]) \in Nat /\ Len(q[1]) = Len(p)
      BY <1>1, <1>6, <1>7, <2>2
    <3> QED BY <1>4, <1>5, <3>1, <3>2
  <2>3. CASE l = Len(q) + 1 /\ k = Len(q) + 1
    <3>1. s[k] = r /\ s[l] = r /\ Len(r) \in Nat
      BY <1>4, <1>5, <1>6, <2>3
    <3> QED BY <3>1
  <2> QED BY <1>11, <2>1, <2>2, <2>3
<1>13. ASSUME NEW w \in Trails(E, start), Len(w) <= Len(s[1]) PROVE Last(w) \in marked
  BY <1>1, <1>6, <1>7, <1>8, <1>13
<1>14. ASSUME NEW v \in marked
       PROVE  \/ \E k \in 1..Len(s) : Last(s[k]) = v
              \/ v # end /\ \A d \in E : d.source = v => d.target \in marked
  <2>1. CASE v = e.target
    <3>1. Len(s) \in 1..Len(s) /\ Last(s[Len(s)]) = v
      BY <1>1, <1>4, <1>6, <2>1
    <3> QED BY <3>1
  <2>2. CASE v \in visited /\ \E k \in 1..Len(q) : Last(q[k]) = v
    <3>1. PICK k \in 1..Len(q) : Last(q[k]) = v
      BY <2>2
    <3>2. k \in 1..Len(s) /\ s[k] = q[k]
      BY <1>1, <1>6
    <3> QED BY <3>1, <3>2
  <2>3. CASE v \in visited /\ ~ \E k \in 1..Len(q) : Last(q[k]) = v
    <3>1. v # end /\ \A d \in E : d.source = v => d.target \in visited
      BY <2>3 DEF Frontier
    <3> QED BY <3>1
  <2> QED BY <2>1, <2>2, <2>3
<1>15. marked \in SUBSET P
  BY <1>1, <1>3
<1> HIDE DEF marked
<1>16. Frontier(E, start, end, s, marked)
  BY <1>6, <1>11, <1>12, <1>13, <1>14, <1>15 DEF Frontier, P
<1> QED BY <1>16 DEF s, marked, r, p

LEMMA FrontierMoves ==
  ASSUME NEW E, NEW start, NEW end, NEW q, NEW visited,
         Frontier(E, start, end, q, visited), q # <<>>, Last(q[1]) # end,
         \A e \in E : e.source = Last(q[1]) => e.target \in visited
  PROVE  Frontier(E, start, end, Tail(q), visited)
<1> DEFINE P == Points(E, start)
           s == Tail(q)
<1>1. /\ q \in Seq(Seq(P)) /\ visited \in SUBSET P /\ Len(q) \in Nat /\ 1 \in 1..Len(q)
      /\ \A k \in 1..Len(q) : q[k] \in Seq(P) /\ Len(q[k]) \in Nat
  BY DEF Frontier
<1> HIDE DEF P
<1>2. /\ s \in Seq(Seq(P)) /\ Len(s) = Len(q) - 1 /\ Len(s) \in Nat
      /\ \A k \in 1..Len(s) : s[k] = q[k + 1] /\ k + 1 \in 1..Len(q)
  BY <1>1
<1> HIDE DEF s
<1>3. \A k \in 1..Len(s) : Direct(E, start, s[k]) /\ \A i \in 1..Len(s[k]) : s[k][i] \in visited
  BY <1>2 DEF Frontier
<1>4. ASSUME NEW k \in 1..Len(s), NEW l \in 1..Len(s), k <= l
      PROVE  Len(s[k]) <= Len(s[l]) /\ Len(s[l]) <= Len(s[k]) + 1
  <2>1. k + 1 \in 1..Len(q) /\ l + 1 \in 1..Len(q) /\ k + 1 <= l + 1
    BY <1>2, <1>4
  <2> QED BY <1>2, <2>1 DEF Frontier
<1>5. ASSUME NEW v \in visited
      PROVE  \/ \E k \in 1..Len(s) : Last(s[k]) = v
             \/ v # end /\ \A e \in E : e.source = v => e.target \in visited
  <2>1. CASE \E k \in 1..Len(q) : Last(q[k]) = v
    <3>1. PICK k \in 1..Len(q) : Last(q[k]) = v
      BY <2>1
    <3>2. CASE k = 1
      BY <3>1, <3>2
    <3>3. CASE k # 1
      <4>1. k - 1 \in 1..Len(s) /\ (k - 1) + 1 = k
        BY <1>1, <1>2, <3>3
      <4>2. s[k - 1] = q[k]
        BY <1>2, <4>1
      <4> QED BY <3>1, <4>1, <4>2
    <3> QED BY <3>2, <3>3
  <2>2. CASE ~ \E k \in 1..Len(q) : Last(q[k]) = v
    BY <2>2 DEF Frontier
  <2> QED BY <2>1, <2>2
<1>6. ASSUME s # <<>>, NEW w \in Trails(E, start), Len(w) <= Len(s[1])
      PROVE  Last(w) \in visited
  <2>1. 1 \in 1..Len(s) /\ s[1] = q[2] /\ 2 \in 1..Len(q)
    BY <1>1, <1>2, <1>6
  <2>2. Len(w) \in Nat /\ Len(q[1]) \in Nat /\ Len(q[2]) \in Nat /\ Len(q[2]) <= Len(q[1]) + 1
        /\ Len(q[1]) <= Len(q[2])
    BY <1>1, <2>1 DEF Frontier, Trails
  <2>3. CASE Len(w) <= Len(q[1])
    BY <1>1, <2>3 DEF Frontier
  <2>4. CASE ~(Len(w) <= Len(q[1]))
    <3>1. Len(w) = Len(q[1]) + 1 /\ Len(q[2]) = Len(w)
      BY <1>6, <2>1, <2>2, <2>4
    <3>2. Len(w) # 1
      <4>1. Direct(E, start, q[1])
        BY <1>1 DEF Frontier
      <4>2. Len(q[1]) >= 1
        BY <4>1 DEF Direct, Trails
      <4> QED BY <2>2, <3>1, <4>2
    <3>3. PICK u \in Trails(E, start), e \in E :
            /\ Len(u) + 1 = Len(w) /\ e.source = Last(u) /\ e.target = Last(w)
      BY <3>2, TrailShrinks
    <3>4. Len(u) \in Nat
      BY DEF Trails
    <3>5. Last(u) \in visited
      <4>1. Len(u) <= Len(q[1])
        BY <2>2, <3>1, <3>3, <3>4
      <4> QED BY <1>1, <4>1 DEF Frontier
    <3>6. ASSUME NEW k \in 1..Len(s) PROVE Last(s[k]) # Last(u)
      <4>1. Len(s[1]) <= Len(s[k]) /\ Len(s[k]) \in Nat
        <5>1. Len(s[k]) \in Nat
          BY <1>1, <1>2
        <5>2. 1 <= k
          OBVIOUS
        <5> QED BY <1>4, <2>1, <5>1, <5>2
      <4>2. Last(s[k]) = Last(u) => Len(s[k]) <= Len(u)
        BY <1>3 DEF Direct
      <4>3. Len(s[1]) = Len(q[1]) + 1 /\ Len(u) = Len(q[1])
        BY <2>1, <2>2, <3>1, <3>3, <3>4
      <4> QED BY <2>2, <4>1, <4>2, <4>3
    <3>7. \A d \in E : d.source = Last(u) => d.target \in visited
      BY <1>5, <3>5, <3>6
    <3> QED BY <3>3, <3>7
  <2> QED BY <2>3, <2>4
<1>7. Frontier(E, start, end, s, visited)
  BY <1>1, <1>2, <1>3, <1>4, <1>5, <1>6 DEF Frontier, P
<1> QED BY <1>7 DEF s

\* When the queue is empty the end cannot be reached.
LEMMA FrontierEnds ==
  ASSUME NEW E, NEW start, NEW end, NEW visited, start \in visited,
         Frontier(E, start, end, <<>>, visited), NEW w \in Trails(E, start)
  PROVE  Last(w) # end
<1> DEFINE T == {i \in 1..Len(w) : w[i] \in visited}
           q == <<>>
<1>1. w[1] = start /\ Len(w) \in Nat /\ Len(w) >= 1
  BY DEF Trails
<1>2. ASSUME NEW v \in visited PROVE v # end /\ \A e \in E : e.source = v => e.target \in visited
  <2>1. Len(q) = 0
    OBVIOUS
  <2>2. Frontier(E, start, end, q, visited)
    OBVIOUS
  <2> HIDE DEF q
  <2>3. ~ \E k \in 1..Len(q) : Last(q[k]) = v
    BY <2>1
  <2> QED BY <2>2, <2>3 DEF Frontier
<1>3. 1 \in T /\ 1 \in 0..Len(w)
  BY <1>1
<1>4. ASSUME NEW n \in 1..Len(w), n \in T, n < Len(w) PROVE n + 1 \in T
  <2>1. n \in 1..(Len(w) - 1) /\ n + 1 \in 1..Len(w)
    BY <1>1, <1>4
  <2>2. PICK e \in E : e.source = w[n] /\ e.target = w[n + 1]
    BY <2>1 DEF Trails, Leads
  <2> QED BY <1>2, <1>4, <2>1, <2>2
<1>5. 1..Len(w) \subseteq T
  <2> HIDE DEF T
  <2> QED BY <1>1, <1>3, <1>4, Onwards
<1>6. w[Len(w)] \in visited
  BY <1>1, <1>5
<1> QED BY <1>2, <1>6 DEF Last

\* Edges as the lineage has them.
Edged(E) ==
  IsFiniteSet(E) /\ (\A e \in E : e.id \in Int) /\ \A d, e \in E : d.id = e.id => d = e

LEMMA EdgesFrom ==
  ASSUME NEW E, Edged(E), NEW v
  PROVE  /\ edges_from(E, v) \in Seq(E)
         /\ \A i \in 1..Len(edges_from(E, v)) : edges_from(E, v)[i].source = v
         /\ \A e \in E : e.source = v => \E i \in 1..Len(edges_from(E, v)) : edges_from(E, v)[i] = e
<1> DEFINE out == {e \in E : e.source = v}
           key == [e \in out |-> e.id]
<1>1. Keyed(out, key)
  <2>1. IsFiniteSet(out)
    BY FS_Subset DEF Edged
  <2> QED BY <2>1 DEF Keyed, Edged
<1>2. Lists(edges_from(E, v), out, key)
  BY <1>1, InOrderLists DEF edges_from
<1>3. /\ edges_from(E, v) \in Seq(out)
      /\ \A e \in out : \E i \in 1..Len(edges_from(E, v)) : edges_from(E, v)[i] = e
  <2> HIDE DEF out, key
  <2> QED BY <1>2 DEF Lists
<1> QED BY <1>3

\* While the targets of the edges out of the end of p are queued: p is still
\* the first of the queue, c paths were taken, and what is marked was queued.
Middle(E, start, end, p, c, s) ==
  /\ \E q : /\ q # <<>> /\ q[1] = p /\ s.queue = Tail(q)
            /\ Frontier(E, start, end, q, s.visited)
  /\ IsFiniteSet(s.visited) /\ start \in s.visited
  /\ c + Len(s.queue) = Cardinality(s.visited)
  /\ s.found = <<>>

LEMMA EnqueueOne ==
  ASSUME NEW E, NEW start, NEW end, NEW p, NEW c \in Nat, NEW s, Middle(E, start, end, p, c, s),
         NEW e \in E, e.source = Last(p)
  PROVE  /\ Middle(E, start, end, p, c, enqueue_one(s, p, e))
         /\ e.target \in enqueue_one(s, p, e).visited
         /\ s.visited \subseteq enqueue_one(s, p, e).visited
<1>1. CASE e.target \in s.visited
  BY <1>1 DEF enqueue_one
<1>2. CASE e.target \notin s.visited
  <2> DEFINE r == Append(p, e.target)
             t == enqueue_one(s, p, e)
             P == Seq(Points(E, start))
  <2>1. PICK q : /\ q # <<>> /\ q[1] = p /\ s.queue = Tail(q)
                 /\ Frontier(E, start, end, q, s.visited)
    BY DEF Middle
  <2>2. t.queue = Append(s.queue, r) /\ t.visited = s.visited \cup {e.target} /\ t.found = <<>>
    BY <1>2 DEF enqueue_one, Middle
  <2>3. Frontier(E, start, end, Append(q, r), t.visited)
    <3>1. e.source = Last(q[1]) /\ r = Append(q[1], e.target)
      BY <2>1
    <3> HIDE DEF r
    <3>2. Frontier(E, start, end, Append(q, Append(q[1], e.target)), s.visited \cup {e.target})
      BY <1>2, <2>1, <3>1, FrontierGrows
    <3> QED BY <2>2, <3>1, <3>2
  <2> HIDE DEF r, t, P
  <2>4. q \in Seq(P) /\ Append(q, r) \in Seq(P) /\ Len(q) \in Nat /\ 1 \in 1..Len(q)
    BY <2>1, <2>3 DEF Frontier, P
  <2>5. r \in P
    <3>1. Append(q, r)[Len(q) + 1] = r /\ Len(Append(q, r)) = Len(q) + 1
      BY <2>4
    <3> QED BY <2>4, <3>1
  <2>6. /\ Append(q, r) # <<>> /\ Append(q, r)[1] = p
        /\ Tail(Append(q, r)) = Append(s.queue, r)
        /\ Len(Append(s.queue, r)) = Len(s.queue) + 1 /\ Len(s.queue) \in Nat
    <3>1. Tail(q) \in Seq(P)
      BY <2>4
    <3>2. Append(q, r)[1] = q[1] /\ Append(q, r) # <<>>
      BY <2>4, <2>5
    <3>3. Len(Append(s.queue, r)) = Len(s.queue) + 1 /\ Len(s.queue) \in Nat
      BY <2>1, <2>5, <3>1
    <3>4. Tail(Append(q, r)) = Append(Tail(q), r)
      <4>1. /\ Tail(Append(q, r)) \in Seq(P) /\ Append(Tail(q), r) \in Seq(P)
            /\ Len(Tail(Append(q, r))) = Len(q) /\ Len(Append(Tail(q), r)) = Len(q)
        BY <2>4, <2>5, <3>1
      <4>2. ASSUME NEW i \in 1..Len(q) PROVE Tail(Append(q, r))[i] = Append(Tail(q), r)[i]
        <5>1. Tail(Append(q, r))[i] = Append(q, r)[i + 1]
          BY <2>4, <2>5
        <5>2. CASE i = Len(q)
          <6>1. Append(Tail(q), r)[i] = r
            BY <2>4, <2>5, <3>1, <5>2
          <6>2. Append(q, r)[i + 1] = r
            BY <2>4, <2>5, <5>2
          <6> QED BY <5>1, <6>1, <6>2
        <5>3. CASE i # Len(q)
          <6>1. i \in 1..Len(Tail(q)) /\ i + 1 \in 1..Len(q)
            BY <2>4, <5>3
          <6>2. Append(Tail(q), r)[i] = Tail(q)[i] /\ Tail(q)[i] = q[i + 1]
            BY <2>4, <2>5, <3>1, <6>1
          <6>3. Append(q, r)[i + 1] = q[i + 1]
            BY <2>4, <2>5, <6>1
          <6> QED BY <5>1, <6>2, <6>3
        <5> QED BY <5>2, <5>3
      <4> QED BY <4>1, <4>2, SeqEqual
    <3> QED BY <2>1, <3>2, <3>3, <3>4
  <2>7. IsFiniteSet(t.visited) /\ Cardinality(t.visited) = Cardinality(s.visited) + 1
    BY <1>2, <2>2, FS_AddElement DEF Middle
  <2>8. c + Len(t.queue) = Cardinality(t.visited)
    <3>1. Cardinality(s.visited) \in Nat
      BY FS_CardinalityType DEF Middle
    <3> QED BY <2>2, <2>6, <2>7, <3>1 DEF Middle
  <2>9. Middle(E, start, end, p, c, t)
    BY <2>2, <2>3, <2>6, <2>7, <2>8 DEF Middle
  <2> QED BY <2>2, <2>9 DEF t
<1> QED BY <1>1, <1>2

Enqueuing(f, N, s, p, out) ==
  f = [i \in 0..N |-> IF i = 0 THEN s ELSE enqueue_one(f[i - 1], p, out[i])]

LEMMA EnqueuingExists ==
  ASSUME NEW s, NEW p, NEW out, NEW N \in Nat
  PROVE  \E f : Enqueuing(f, N, s, p, out)
<1> DEFINE T == {m \in 0..N : \E f : Enqueuing(f, m, s, p, out)}
<1>1. 0 \in T
  <2> DEFINE f == [i \in 0..0 |-> s]
  <2>1. Enqueuing(f, 0, s, p, out)
    BY DEF Enqueuing
  <2> QED BY <2>1
<1>2. ASSUME NEW m \in 0..N, m \in T, m < N PROVE m + 1 \in T
  <2>1. PICK f : Enqueuing(f, m, s, p, out)
    BY <1>2
  <2> DEFINE longer == [i \in 0..(m + 1) |-> IF i = m + 1 THEN enqueue_one(f[m], p, out[m + 1])
                                             ELSE f[i]]
  <2>2. ASSUME NEW i \in 0..(m + 1)
        PROVE  longer[i] = IF i = 0 THEN s ELSE enqueue_one(longer[i - 1], p, out[i])
    <3>1. \A j \in 0..m : f[j] = IF j = 0 THEN s ELSE enqueue_one(f[j - 1], p, out[j])
      BY <2>1 DEF Enqueuing
    <3>2. CASE i = 0
      BY <3>1, <3>2
    <3>3. CASE i = m + 1
      BY <3>3
    <3>4. CASE i # 0 /\ i # m + 1
      <4>1. i \in 0..m /\ i - 1 \in 0..m /\ i - 1 # m + 1 /\ i - 1 \in 0..(m + 1)
        BY <3>4
      <4> QED BY <4>1, <3>1, <3>4
    <3> QED BY <3>2, <3>3, <3>4
  <2>3. Enqueuing(longer, m + 1, s, p, out)
    <3>1. longer = [i \in 0..(m + 1) |-> longer[i]]
      OBVIOUS
    <3> HIDE DEF longer
    <3> QED BY <3>1, <2>2 DEF Enqueuing
  <2>4. m + 1 \in 0..N
    BY <1>2
  <2> QED BY <2>3, <2>4
<1>3. 0..N \subseteq T
  <2> HIDE DEF T
  <2> QED BY <1>1, <1>2, Upwards
<1> QED BY <1>3

LEMMA EnqueueIs ==
  ASSUME NEW s, NEW p, NEW out, Len(out) \in Nat
  PROVE  \E f : Enqueuing(f, Len(out), s, p, out) /\ enqueue(s, p, out) = f[Len(out)]
<1>1. \E f : Enqueuing(f, Len(out), s, p, out)
  BY EnqueuingExists
<1> DEFINE f == CHOOSE f : f = [i \in 0..Len(out) |->
                   IF i = 0 THEN s ELSE enqueue_one(f[i - 1], p, out[i])]
<1>2. f = [i \in 0..Len(out) |-> IF i = 0 THEN s ELSE enqueue_one(f[i - 1], p, out[i])]
  BY <1>1 DEF Enqueuing
<1>3. enqueue(s, p, out) = f[Len(out)]
  BY DEF enqueue
<1> QED BY <1>2, <1>3 DEF Enqueuing

LEMMA Enqueued ==
  ASSUME NEW E, NEW start, NEW end, NEW p, NEW c \in Nat, NEW s, Middle(E, start, end, p, c, s),
         NEW out \in Seq(E), \A i \in 1..Len(out) : out[i].source = Last(p)
  PROVE  /\ Middle(E, start, end, p, c, enqueue(s, p, out))
         /\ \A i \in 1..Len(out) : out[i].target \in enqueue(s, p, out).visited
<1>1. Len(out) \in Nat
  OBVIOUS
<1>2. PICK f : Enqueuing(f, Len(out), s, p, out) /\ enqueue(s, p, out) = f[Len(out)]
  BY <1>1, EnqueueIs
<1> DEFINE T == {n \in 0..Len(out) :
                   /\ Middle(E, start, end, p, c, f[n])
                   /\ \A i \in 1..n : out[i].target \in f[n].visited}
<1>3. 0 \in T
  BY <1>1, <1>2 DEF Enqueuing
<1>4. ASSUME NEW n \in 0..Len(out), n \in T, n < Len(out) PROVE n + 1 \in T
  <2>1. n + 1 \in 1..Len(out) /\ n + 1 \in 0..Len(out) /\ n + 1 # 0 /\ (n + 1) - 1 = n
    BY <1>1, <1>4
  <2>2. f[n + 1] = enqueue_one(f[n], p, out[n + 1])
    BY <1>2, <2>1 DEF Enqueuing
  <2>3. out[n + 1] \in E /\ out[n + 1].source = Last(p)
    BY <2>1
  <2>4. /\ Middle(E, start, end, p, c, f[n + 1])
        /\ out[n + 1].target \in f[n + 1].visited
        /\ f[n].visited \subseteq f[n + 1].visited
    <3>1. Middle(E, start, end, p, c, f[n])
      BY <1>4
    <3>2. \A e \in E : e.source = Last(p) =>
            /\ Middle(E, start, end, p, c, enqueue_one(f[n], p, e))
            /\ e.target \in enqueue_one(f[n], p, e).visited
            /\ f[n].visited \subseteq enqueue_one(f[n], p, e).visited
      <4> HIDE DEF T
      <4> QED BY <3>1, EnqueueOne
    <3> QED BY <2>2, <2>3, <3>2
  <2>5. \A i \in 1..(n + 1) : i \in 1..n \/ i = n + 1
    BY <1>1
  <2> QED BY <1>4, <2>1, <2>4, <2>5
<1>5. 0..Len(out) \subseteq T
  <2> HIDE DEF T
  <2> QED BY <1>1, <1>3, <1>4, Upwards
<1> QED BY <1>1, <1>2, <1>5

\* After n rounds: a direct path to the end was found, or the queue is the
\* frontier and every round so far took one of the paths queued.
Round(E, start, end, n, s) ==
  \/ s.found # <<>> /\ Direct(E, start, s.found) /\ Last(s.found) = end
  \/ /\ s.found = <<>> /\ Frontier(E, start, end, s.queue, s.visited)
     /\ IsFiniteSet(s.visited) /\ start \in s.visited
     /\ s.queue # <<>> => n + Len(s.queue) = Cardinality(s.visited)

LEMMA TakeStep ==
  ASSUME NEW E, Edged(E), NEW start, NEW end, NEW n \in Nat, NEW s, Round(E, start, end, n, s)
  PROVE  Round(E, start, end, n + 1, take(E, end, s))
<1> DEFINE p == Head(s.queue)
           out == edges_from(E, Last(p))
           base == [queue |-> Tail(s.queue), visited |-> s.visited, found |-> s.found]
           t == take(E, end, s)
           P == Seq(Points(E, start))
<1>1. CASE Over(s)
  <2>1. t = s
    BY <1>1 DEF take
  <2>2. s.found # <<>> \/ s.queue = <<>>
    BY <1>1 DEF Over
  <2> HIDE DEF t
  <2> QED BY <2>1, <2>2 DEF Round, t
<1>2. CASE ~Over(s)
  <2>1. /\ s.found = <<>> /\ s.queue # <<>> /\ Frontier(E, start, end, s.queue, s.visited)
        /\ IsFiniteSet(s.visited) /\ start \in s.visited
        /\ n + Len(s.queue) = Cardinality(s.visited)
    BY <1>2 DEF Over, Round
  <2>2. s.queue \in Seq(P) /\ p = s.queue[1] /\ Len(s.queue) \in Nat /\ 1 \in 1..Len(s.queue)
    BY <2>1 DEF Frontier
  <2>3. Direct(E, start, p)
    BY <2>1, <2>2 DEF Frontier
  <2>4. p # <<>>
    <3>1. Len(p) >= 1
      BY <2>3 DEF Direct, Trails
    <3>2. Len(<<>>) = 0
      OBVIOUS
    <3> HIDE DEF p
    <3> QED BY <3>1, <3>2
  <2>5. CASE Last(p) = end
    <3>1. t.found = p
      BY <1>2, <2>5 DEF take
    <3> HIDE DEF p, t
    <3> QED BY <2>3, <2>4, <2>5, <3>1 DEF Round, t
  <2>6. CASE Last(p) # end
    <3>1. t = enqueue(base, p, out)
      BY <1>2, <2>6 DEF take
    <3>2. /\ base.queue = Tail(s.queue) /\ base.visited = s.visited /\ base.found = <<>>
          /\ Len(Tail(s.queue)) = Len(s.queue) - 1
      BY <2>1, <2>2
    <3> HIDE DEF base, out, p, t, P
    <3>3. (n + 1) + Len(base.queue) = Cardinality(base.visited)
      <4>1. Cardinality(s.visited) \in Nat
        BY <2>1, FS_CardinalityType
      <4>2. PICK k \in Nat : k = Len(s.queue)
        BY <2>2
      <4>3. Len(base.queue) = k - 1 /\ Cardinality(base.visited) = Cardinality(s.visited)
        BY <3>2, <4>2
      <4>4. n + k = Cardinality(s.visited)
        BY <2>1, <4>2
      <4> QED BY <4>1, <4>3, <4>4
    <3>4. Middle(E, start, end, p, n + 1, base)
      BY <2>1, <2>2, <3>2, <3>3 DEF Middle
    <3>5. /\ out \in Seq(E) /\ \A i \in 1..Len(out) : out[i].source = Last(p)
          /\ \A e \in E : e.source = Last(p) => \E i \in 1..Len(out) : out[i] = e
      BY EdgesFrom DEF out
    <3>6. /\ Middle(E, start, end, p, n + 1, t)
          /\ \A i \in 1..Len(out) : out[i].target \in t.visited
      <4>1. n + 1 \in Nat
        OBVIOUS
      <4> QED BY <3>1, <3>4, <3>5, <4>1, Enqueued
    <3>7. PICK q : /\ q # <<>> /\ q[1] = p /\ t.queue = Tail(q)
                   /\ Frontier(E, start, end, q, t.visited)
      BY <3>6 DEF Middle
    <3>8. \A e \in E : e.source = Last(q[1]) => e.target \in t.visited
      BY <3>5, <3>6, <3>7
    <3>9. Frontier(E, start, end, t.queue, t.visited)
      <4>1. Last(q[1]) # end
        BY <2>6, <3>7
      <4>2. Frontier(E, start, end, Tail(q), t.visited)
        BY <3>7, <3>8, <4>1, FrontierMoves
      <4> QED BY <3>7, <4>2
    <3>10. Round(E, start, end, n + 1, t)
      BY <3>6, <3>9 DEF Round, Middle
    <3> QED BY <3>10 DEF t
  <2> QED BY <2>5, <2>6
<1> QED BY <1>1, <1>2

Rounds(f, N, E, start, end) ==
  f = [n \in 0..N |-> IF n = 0
                      THEN [queue |-> <<<<start>>>>, visited |-> {start}, found |-> <<>>]
                      ELSE take(E, end, f[n - 1])]

LEMMA RoundsExist ==
  ASSUME NEW E, NEW start, NEW end, NEW N \in Nat
  PROVE  \E f : Rounds(f, N, E, start, end)
<1> DEFINE T == {m \in 0..N : \E f : Rounds(f, m, E, start, end)}
           first == [queue |-> <<<<start>>>>, visited |-> {start}, found |-> <<>>]
<1>1. 0 \in T
  <2> DEFINE f == [n \in 0..0 |-> first]
  <2>1. Rounds(f, 0, E, start, end)
    BY DEF Rounds
  <2> QED BY <2>1
<1>2. ASSUME NEW m \in 0..N, m \in T, m < N PROVE m + 1 \in T
  <2>1. PICK f : Rounds(f, m, E, start, end)
    BY <1>2
  <2> DEFINE longer == [n \in 0..(m + 1) |-> IF n = m + 1 THEN take(E, end, f[m]) ELSE f[n]]
  <2>2. ASSUME NEW n \in 0..(m + 1)
        PROVE  longer[n] = IF n = 0 THEN first ELSE take(E, end, longer[n - 1])
    <3>1. \A j \in 0..m : f[j] = IF j = 0 THEN first ELSE take(E, end, f[j - 1])
      BY <2>1 DEF Rounds
    <3> HIDE DEF first
    <3>2. CASE n = 0
      BY <3>1, <3>2
    <3>3. CASE n = m + 1
      BY <3>3
    <3>4. CASE n # 0 /\ n # m + 1
      <4>1. n \in 0..m /\ n - 1 \in 0..m /\ n - 1 # m + 1 /\ n - 1 \in 0..(m + 1)
        BY <3>4
      <4> QED BY <4>1, <3>1, <3>4
    <3> QED BY <3>2, <3>3, <3>4
  <2>3. Rounds(longer, m + 1, E, start, end)
    <3>1. longer = [n \in 0..(m + 1) |-> longer[n]]
      OBVIOUS
    <3> HIDE DEF longer
    <3> QED BY <3>1, <2>2 DEF Rounds
  <2>4. m + 1 \in 0..N
    BY <1>2
  <2> QED BY <2>3, <2>4
<1>3. 0..N \subseteq T
  <2> HIDE DEF T
  <2> QED BY <1>1, <1>2, Upwards
<1> QED BY <1>3

LEMMA SearchIs ==
  ASSUME NEW E, NEW start, NEW end, NEW N \in Nat, N = Cardinality(E) + 1
  PROVE  \E f : Rounds(f, N, E, start, end) /\ search(E, start, end) = f[N].found
<1>1. \E f : Rounds(f, N, E, start, end)
  BY RoundsExist
<1> DEFINE f == CHOOSE f : f = [n \in 0..(Cardinality(E) + 1) |->
                   IF n = 0 THEN [queue |-> <<<<start>>>>, visited |-> {start}, found |-> <<>>]
                   ELSE take(E, end, f[n - 1])]
<1>2. f = [n \in 0..(Cardinality(E) + 1) |->
             IF n = 0 THEN [queue |-> <<<<start>>>>, visited |-> {start}, found |-> <<>>]
             ELSE take(E, end, f[n - 1])]
  BY <1>1 DEF Rounds
<1>3. search(E, start, end) = f[Cardinality(E) + 1].found
  BY DEF search
<1> QED BY <1>2, <1>3 DEF Rounds

\* There are no more nodes to mark than edges, and the start.
LEMMA PointsAreFew ==
  ASSUME NEW E, IsFiniteSet(E), NEW start
  PROVE  /\ IsFiniteSet(Points(E, start)) /\ Cardinality(E) \in Nat
         /\ Cardinality(Points(E, start)) <= Cardinality(E) + 1
<1> DEFINE T == {e.target : e \in E}
           f == [e \in E |-> e.target]
<1>1. f \in Surjection(E, T)
  BY DEF Surjection
<1>2. IsFiniteSet(T) /\ Cardinality(T) <= Cardinality(E)
  <2> HIDE DEF f, T
  <2> QED BY <1>1, FS_Surjection
<1>3. /\ IsFiniteSet(T \cup {start})
      /\ Cardinality(T \cup {start}) = IF start \in T THEN Cardinality(T) ELSE Cardinality(T) + 1
  <2> HIDE DEF T
  <2> QED BY <1>2, FS_AddElement
<1>4. Points(E, start) = T \cup {start}
  BY DEF Points
<1>5. Cardinality(T) \in Nat /\ Cardinality(E) \in Nat
  BY <1>2, FS_CardinalityType
<1> HIDE DEF T
<1>6. Cardinality(T \cup {start}) <= Cardinality(E) + 1
  BY <1>2, <1>3, <1>5
<1> QED BY <1>3, <1>4, <1>5, <1>6

\* The search finds a direct path, and nothing only when there is no walk.
LEMMA SearchFinds ==
  ASSUME NEW E, Edged(E), NEW start, NEW end
  PROVE  LET found == search(E, start, end) IN
         \/ found # <<>> /\ Direct(E, start, found) /\ Last(found) = end
         \/ found = <<>> /\ \A w \in Trails(E, start) : Last(w) # end
<1> DEFINE N == Cardinality(E) + 1
<1>1. N \in Nat /\ N > Cardinality(E) /\ IsFiniteSet(E)
  BY FS_CardinalityType DEF Edged
<1>2. PICK f : Rounds(f, N, E, start, end) /\ search(E, start, end) = f[N].found
  BY <1>1, SearchIs
<1> HIDE DEF N
<1> DEFINE T == {n \in 0..N : Round(E, start, end, n, f[n])}
<1>3. 0 \in T
  <2> DEFINE s == [queue |-> <<<<start>>>>, visited |-> {start}, found |-> <<>>]
  <2>1. f[0] = s
    BY <1>1, <1>2 DEF Rounds
  <2>2. s.queue = <<<<start>>>> /\ s.visited = {start} /\ s.found = <<>>
    OBVIOUS
  <2>3. IsFiniteSet({start}) /\ Cardinality({start}) = 1
    BY FS_Singleton
  <2>4. 0 + Len(<<<<start>>>>) = 1
    OBVIOUS
  <2> HIDE DEF s
  <2>5. Round(E, start, end, 0, s)
    BY <2>2, <2>3, <2>4, FrontierStarts DEF Round
  <2> QED BY <1>1, <2>1, <2>5
<1>4. ASSUME NEW n \in 0..N, n \in T, n < N PROVE n + 1 \in T
  <2>1. n + 1 \in 0..N /\ n + 1 # 0 /\ (n + 1) - 1 = n /\ n \in Nat
    BY <1>1, <1>4
  <2>2. f[n + 1] = take(E, end, f[n])
    BY <1>2, <2>1 DEF Rounds
  <2>3. Round(E, start, end, n, f[n])
    BY <1>4
  <2>4. Round(E, start, end, n + 1, take(E, end, f[n]))
    BY <2>1, <2>3, TakeStep
  <2> QED BY <2>1, <2>2, <2>4
<1>5. 0..N \subseteq T
  <2> HIDE DEF T
  <2> QED BY <1>1, <1>3, <1>4, Upwards
<1>6. Round(E, start, end, N, f[N])
  BY <1>1, <1>5
<1>7. CASE f[N].found # <<>>
  BY <1>2, <1>6, <1>7 DEF Round
<1>8. CASE f[N].found = <<>>
  <2> DEFINE s == f[N]
  <2>1. /\ Frontier(E, start, end, s.queue, s.visited)
        /\ IsFiniteSet(s.visited) /\ start \in s.visited
        /\ s.queue # <<>> => N + Len(s.queue) = Cardinality(s.visited)
    BY <1>6, <1>8 DEF Round
  <2> HIDE DEF s
  <2>2. s.queue = <<>>
    <3> SUFFICES ASSUME s.queue # <<>> PROVE FALSE
      OBVIOUS
    <3>1. s.visited \in SUBSET Points(E, start) /\ Len(s.queue) \in Nat /\ Len(s.queue) >= 1
      BY <2>1 DEF Frontier
    <3>2. Cardinality(s.visited) <= Cardinality(Points(E, start))
      BY <1>1, <3>1, PointsAreFew, FS_Subset
    <3>3. /\ Cardinality(Points(E, start)) <= Cardinality(E) + 1
          /\ Cardinality(E) \in Nat /\ Cardinality(Points(E, start)) \in Nat
          /\ Cardinality(s.visited) \in Nat
      BY <1>1, <2>1, PointsAreFew, FS_CardinalityType
    <3>4. N + Len(s.queue) = Cardinality(s.visited) /\ N = Cardinality(E) + 1
      BY <2>1 DEF N
    <3> QED BY <3>1, <3>2, <3>3, <3>4
  <2>3. \A w \in Trails(E, start) : Last(w) # end
    BY <2>1, <2>2, FrontierEnds
  <2> QED BY <1>2, <1>8, <2>3
<1> QED BY <1>7, <1>8

\* What Walks enumerates: the walks of at most so many nodes.
Walking(f, N, E, start) ==
  f = [n \in 1..N |-> IF n = 1 THEN {<<start>>} ELSE Longer(E, f[n - 1])]

LEMMA WalkingExists ==
  ASSUME NEW E, NEW start, NEW N \in Nat \ {0}
  PROVE  \E f : Walking(f, N, E, start)
<1> DEFINE T == {m \in 1..N : \E f : Walking(f, m, E, start)}
<1>1. 1 \in T
  <2> DEFINE f == [n \in 1..1 |-> {<<start>>}]
  <2>1. Walking(f, 1, E, start)
    BY DEF Walking
  <2> QED BY <2>1
<1>2. ASSUME NEW m \in 1..N, m \in T, m < N PROVE m + 1 \in T
  <2>1. PICK f : Walking(f, m, E, start)
    BY <1>2
  <2> DEFINE longer == [n \in 1..(m + 1) |-> IF n = m + 1 THEN Longer(E, f[m]) ELSE f[n]]
  <2>2. ASSUME NEW n \in 1..(m + 1)
        PROVE  longer[n] = IF n = 1 THEN {<<start>>} ELSE Longer(E, longer[n - 1])
    <3>1. \A j \in 1..m : f[j] = IF j = 1 THEN {<<start>>} ELSE Longer(E, f[j - 1])
      BY <2>1 DEF Walking
    <3>2. CASE n = 1
      BY <3>1, <3>2
    <3>3. CASE n = m + 1
      BY <3>3
    <3>4. CASE n # 1 /\ n # m + 1
      <4>1. n \in 1..m /\ n - 1 \in 1..m /\ n - 1 # m + 1 /\ n - 1 \in 1..(m + 1)
        BY <3>4
      <4> QED BY <4>1, <3>1, <3>4
    <3> QED BY <3>2, <3>3, <3>4
  <2>3. Walking(longer, m + 1, E, start)
    <3>1. longer = [n \in 1..(m + 1) |-> longer[n]]
      OBVIOUS
    <3> HIDE DEF longer
    <3> QED BY <3>1, <2>2 DEF Walking
  <2>4. m + 1 \in 1..N
    BY <1>2
  <2> QED BY <2>3, <2>4
<1>3. 1..N \subseteq T
  <2> HIDE DEF T
  <2>1. N \in Nat /\ 1 \in 0..N
    OBVIOUS
  <2> QED BY <1>1, <1>2, <2>1, Onwards
<1> QED BY <1>3

LEMMA LongerIs ==
  ASSUME NEW E, NEW start, NEW n \in Nat \ {0},
         NEW W, W = {w \in Trails(E, start) : Len(w) <= n}
  PROVE  Longer(E, W) = {w \in Trails(E, start) : Len(w) <= n + 1}
<1>1. ASSUME NEW u \in Longer(E, W) PROVE u \in Trails(E, start) /\ Len(u) <= n + 1
  <2>1. CASE u \in W
    <3>1. Len(u) \in Nat /\ Len(u) <= n /\ u \in Trails(E, start)
      BY <2>1 DEF Trails
    <3> QED BY <3>1
  <2>2. CASE u \notin W
    <3>1. PICK w \in W : u \in {Append(w, e.target) : e \in {d \in E : d.source = Last(w)}}
      BY <1>1, <2>2 DEF Longer
    <3>2. PICK e \in E : e.source = Last(w) /\ u = Append(w, e.target)
      BY <3>1
    <3>3. w \in Trails(E, start) /\ Len(w) \in Nat /\ Len(w) <= n
      BY DEF Trails
    <3>4. u \in Trails(E, start) /\ Len(u) = Len(w) + 1
      BY <3>2, <3>3, TrailGrows
    <3> QED BY <3>3, <3>4
  <2> QED BY <2>1, <2>2
<1>2. ASSUME NEW u \in Trails(E, start), Len(u) <= n + 1 PROVE u \in Longer(E, W)
  <2>1. Len(u) \in Nat
    BY DEF Trails
  <2>2. CASE Len(u) <= n
    BY <2>2 DEF Longer
  <2>3. CASE ~(Len(u) <= n)
    <3>1. Len(u) = n + 1 /\ Len(u) # 1
      <4>1. \A k \in Nat : k <= n + 1 /\ ~(k <= n) => k = n + 1 /\ k # 1
        OBVIOUS
      <4> QED BY <1>2, <2>1, <2>3, <4>1
    <3>2. PICK w \in Trails(E, start), e \in E :
            /\ Len(w) + 1 = Len(u) /\ e.source = Last(w) /\ u = Append(w, e.target)
      <4>1. Len(u) # 1
        BY <3>1
      <4> QED BY <4>1, TrailShrinks
    <3>3. Len(w) \in Nat
      BY DEF Trails
    <3>4. w \in W
      BY <3>1, <3>2, <3>3
    <3> QED BY <3>2, <3>4 DEF Longer
  <2> QED BY <2>2, <2>3
<1> QED BY <1>1, <1>2

LEMMA WalksAre ==
  ASSUME NEW E, NEW start, NEW N \in Nat \ {0}
  PROVE  Walks(E, start, N) = {w \in Trails(E, start) : Len(w) <= N}
<1>1. \E f : Walking(f, N, E, start)
  BY WalkingExists
<1> DEFINE f == CHOOSE f : f = [n \in 1..N |-> IF n = 1 THEN {<<start>>} ELSE Longer(E, f[n - 1])]
<1>2. f = [n \in 1..N |-> IF n = 1 THEN {<<start>>} ELSE Longer(E, f[n - 1])]
  BY <1>1 DEF Walking
<1>3. Walks(E, start, N) = f[N]
  BY DEF Walks
<1> HIDE DEF f
<1> DEFINE Short(n) == {w \in Trails(E, start) : Len(w) <= n}
           T == {n \in 1..N : f[n] = Short(n)}
<1>4. 1 \in T
  <2> DEFINE w == <<start>>
  <2>1. f[1] = {w}
    BY <1>2
  <2>2. /\ \A u \in Trails(E, start) : Len(u) \in Nat /\ Len(u) >= 1 /\ u[1] = start
        /\ \A u \in Trails(E, start) : u \in Seq(Points(E, start))
    BY DEF Trails
  <2>3. w \in Trails(E, start) /\ Len(w) = 1
    <3>1. Frontier(E, start, start, <<w>>, {start})
      BY FrontierStarts
    <3>2. Len(<<w>>) = 1 /\ <<w>>[1] = w /\ Len(w) = 1
      OBVIOUS
    <3> DEFINE q == <<w>>
    <3> HIDE DEF q
    <3>3. Direct(E, start, q[1])
      BY <3>1, <3>2 DEF Frontier, q
    <3> QED BY <3>2, <3>3 DEF Direct, q
  <2>4. ASSUME NEW u \in Trails(E, start), Len(u) <= 1 PROVE u = w
    <3>1. Len(u) = 1 /\ u[1] = start /\ u \in Seq(Points(E, start)) /\ w \in Seq(Points(E, start))
      BY <2>2, <2>3, <2>4
    <3>2. Len(w) = 1 /\ w[1] = start
      OBVIOUS
    <3> HIDE DEF w
    <3>3. \A i \in 1..Len(u) : u[i] = w[i]
      BY <3>1, <3>2
    <3> QED BY <3>1, <3>2, <3>3, SeqEqual
  <2>5. Short(1) = {w}
    <3> HIDE DEF w
    <3>1. w \in Trails(E, start) /\ Len(w) <= 1
      BY <2>3
    <3> QED BY <2>4, <3>1
  <2>6. 1 \in 1..N
    OBVIOUS
  <2> QED BY <2>1, <2>5, <2>6
<1>5. ASSUME NEW n \in 1..N, n \in T, n < N PROVE n + 1 \in T
  <2>1. n + 1 \in 1..N /\ n + 1 # 1 /\ (n + 1) - 1 = n /\ n \in Nat \ {0}
    BY <1>5
  <2>2. f[n + 1] = Longer(E, f[n])
    BY <1>2, <2>1
  <2>3. f[n] = {w \in Trails(E, start) : Len(w) <= n}
    BY <1>5
  <2>4. f[n + 1] = {w \in Trails(E, start) : Len(w) <= n + 1}
    BY <2>1, <2>2, <2>3, LongerIs
  <2> QED BY <2>1, <2>4
<1>6. 1..N \subseteq T
  <2> HIDE DEF T
  <2>1. N \in Nat /\ 1 \in 0..N
    OBVIOUS
  <2> QED BY <1>4, <1>5, <2>1, Onwards
<1>7. N \in T
  <2> HIDE DEF T
  <2> QED BY <1>6
<1> QED BY <1>3, <1>7

\* A path that meets no node twice has no more nodes than there are.
LEMMA DirectIsBounded ==
  ASSUME NEW S, IsFiniteSet(S), NEW p \in Seq(S),
         \A i, j \in 1..Len(p) : i # j => p[i] # p[j]
  PROVE  Len(p) <= Cardinality(S)
<1> DEFINE n == Len(p)
           D == 1..n
<1>1. n \in Nat /\ p \in [D -> S]
  OBVIOUS
<1>2. p \in Injection(D, S)
  BY <1>1 DEF Injection, IsInjective
<1>3. IsFiniteSet(D) /\ Cardinality(D) = n
  BY <1>1, FS_Interval
<1> HIDE DEF D, n
<1>4. Cardinality(D) <= Cardinality(S)
  BY <1>2, <1>3, FS_Injection
<1> QED BY <1>3, <1>4 DEF n

-----------------------------------------------------------------------------
(***************************************************************************)
(* Conversations: lineage queries                                          *)
(***************************************************************************)

\* What was checked when the lineage was read.
LineageInv ==
  view # Nil => /\ view \in Lineages
                /\ Unique(view.nodes) /\ Unique(view.edges)
                /\ \A e \in view.edges : {e.source, e.target} \subseteq Ids(view.nodes)

LEMMA NextLineage == LineageInv /\ [ConversationNext]_convars => LineageInv'
<1>1. ASSUME LineageInv, UNCHANGED view PROVE LineageInv'
  BY <1>1 DEF LineageInv, Unique, Ids
<1>2. ASSUME NEW l \in Lineages, ReadLineage(l) PROVE LineageInv'
  BY <1>2 DEF LineageInv, ReadLineage, _validate_references, Unique, Ids
<1>3. ASSUME NEW x, AddSpan(x) \/ AddMessage(x) \/ CommitConversation(x) \/ EraseArtifact(x)
      PROVE  UNCHANGED view
  BY <1>3 DEF AddSpan, AddMessage, CommitConversation, EraseArtifact
<1> QED BY <1>1, <1>2, <1>3 DEF ConversationNext, convars

LEMMA PathIs ==
  ASSUME NEW positions, NEW start, NEW end
  PROVE  path(positions, start, end, {})
           = search({e \in positions.edges : e.relation \in PATH_RELATIONS}, start, end)
BY DEF path

\* The path asked for is a shortest one of the walks enumerated.
LEMMA AnswerIsShortest ==
  ASSUME LineageInv, view # Nil, NEW start \in Ids(view.nodes), NEW end \in Ids(view.nodes)
  PROVE  LET edges == {e \in view.edges : e.relation \in PATH_RELATIONS}
             walks == {w \in Walks(edges, start, Cardinality(view.nodes)) : Last(w) = end}
             found == path(view, start, end, {})
         IN  IF walks = {} THEN found = <<>>
             ELSE found \in walks /\ \A w \in walks : Len(found) <= Len(w)
<1> DEFINE E == {e \in view.edges : e.relation \in PATH_RELATIONS}
           S == Ids(view.nodes)
           N == Cardinality(view.nodes)
           found == path(view, start, end, {})
           walks == {w \in Walks(E, start, N) : Last(w) = end}
<1>1. /\ view \in Lineages /\ Unique(view.nodes) /\ Unique(view.edges)
      /\ \A e \in view.edges : {e.source, e.target} \subseteq S
  BY DEF LineageInv
<1>2. /\ IsFiniteSet(view.nodes) /\ IsFiniteSet(view.edges) /\ \A e \in view.edges : e.id \in Int
  BY <1>1, ConversationAssumption
<1>3. Edged(E)
  <2>1. IsFiniteSet(E)
    BY <1>2, FS_Subset
  <2>2. \A d, e \in view.edges : d.id = e.id => d = e
    BY <1>1, <1>2, UniqueTellsApart
  <2> QED BY <1>2, <2>1, <2>2 DEF Edged
<1>4. Cardinality(S) = N
  BY <1>1 DEF Unique
<1>5. IsFiniteSet(S) /\ N \in Nat \ {0}
  <2> DEFINE f == [n \in view.nodes |-> n.id]
  <2>1. f \in Surjection(view.nodes, S)
    BY DEF Surjection, Ids
  <2>2. IsFiniteSet(S)
    <3> HIDE DEF f, S
    <3> QED BY <1>2, <2>1, FS_Surjection
  <2>3. S # {}
    OBVIOUS
  <2> HIDE DEF S
  <2>4. N \in Nat /\ Cardinality(S) # 0
    BY <1>2, <2>2, <2>3, FS_CardinalityType, FS_EmptySet
  <2> QED BY <1>4, <2>2, <2>4
<1>6. Points(E, start) \subseteq S
  BY <1>1 DEF Points
<1>7. found = search(E, start, end)
  BY PathIs
<1> HIDE DEF E, S, N, found
<1>8. \/ found # <<>> /\ Direct(E, start, found) /\ Last(found) = end
      \/ found = <<>> /\ \A w \in Trails(E, start) : Last(w) # end
  BY <1>3, <1>7, SearchFinds
<1>9. Walks(E, start, N) = {w \in Trails(E, start) : Len(w) <= N}
  BY <1>5, WalksAre
<1>10. CASE found = <<>> /\ \A w \in Trails(E, start) : Last(w) # end
  <2>1. walks = {}
    BY <1>9, <1>10
  <2> QED BY <1>10, <2>1 DEF E, N, found
<1>11. CASE found # <<>> /\ Direct(E, start, found) /\ Last(found) = end
  <2>1. found \in Trails(E, start) /\ \A w \in Trails(E, start) : Last(w) = end => Len(found) <= Len(w)
    BY <1>11 DEF Direct
  <2>2. Len(found) <= N
    <3>1. found \in Seq(Points(E, start))
      BY <2>1 DEF Trails
    <3>2. found \in Seq(S)
      BY <1>6, <3>1
    <3>3. \A i, j \in 1..Len(found) : i # j => found[i] # found[j]
      BY <1>11 DEF Direct
    <3> QED BY <1>4, <1>5, <3>2, <3>3, DirectIsBounded
  <2>3. found \in walks
    BY <1>9, <1>11, <2>1, <2>2
  <2>4. \A w \in walks : Len(found) <= Len(w)
    BY <1>9, <2>1
  <2> QED BY <2>3, <2>4 DEF E, N, found
<1> QED BY <1>8, <1>10, <1>11

\* What a passed benchmark says of the positions it cites.
LEMMA BenchmarkSays ==
  ASSUME NEW required, NEW start, NEW end, NEW other,
         benchmark(committed, view, required, end, {<<start, other>>})
  PROVE  /\ \E e \in view.edges : /\ e.relation \in OPPOSITION_RELATIONS
                                  /\ {e.source, e.target} = {start, other}
         /\ \A id \in Range(required) \cup {end, start, other} :
              \A s \in Named(view.nodes, id).spans :
                Named(committed.sources, Named(committed.spans, s).source).artifact \notin erased
<1> DEFINE pairs == {<<start, other>>}
           cited == Range(required) \cup {end} \cup (UNION {{p[1], p[2]} : p \in pairs})
<1>1. Range(required) \cup {end, start, other} \subseteq cited
  <2>1. start \in UNION {{p[1], p[2]} : p \in pairs} /\ other \in UNION {{p[1], p[2]} : p \in pairs}
    OBVIOUS
  <2> QED BY <2>1
<1>2. \A id \in cited : Nil \notin citations(committed, Named(view.nodes, id))
  BY DEF benchmark
<1>3. other \in opposing_positions(view, start)
  BY DEF benchmark
<1> HIDE DEF cited
<1>4. ASSUME NEW id \in Range(required) \cup {end, start, other},
             NEW s \in Named(view.nodes, id).spans
      PROVE  Named(committed.sources, Named(committed.spans, s).source).artifact \notin erased
  <2>1. resolve_span_text(committed, s) # Nil
    BY <1>1, <1>2 DEF citations
  <2> QED BY <2>1, ResolvedIsCovered, ResolvedIsThere
<1>5. PICK e \in view.edges : /\ e.relation \in OPPOSITION_RELATIONS
                              /\ start \in {e.source, e.target}
                              /\ other = IF e.source = start THEN e.target ELSE e.source
  BY <1>3 DEF opposing_positions
<1>6. {e.source, e.target} = {start, other}
  BY <1>5
<1> QED BY <1>4, <1>5, <1>6

\* Whatever lineage is read over a published envelope and whatever policy
\* erases: path answers with a shortest walk over the allowed relations, with
\* nothing only when there is none, and a benchmark that passes shows an
\* opposition and positions whose quotations are all still there
\* (path, opposing_positions, citations and benchmark in conversation.py).
THEOREM RightLineage == ConversationSpec => []LineageAnswersAreRight
<1>1. LineageInv => LineageAnswersAreRight
  <2> SUFFICES ASSUME LineageInv PROVE LineageAnswersAreRight
    OBVIOUS
  <2>1. PathIsShortest
    BY AnswerIsShortest DEF PathIsShortest
  <2>2. BenchmarkMeansQueryable
    BY BenchmarkSays DEF BenchmarkMeansQueryable
  <2> QED BY <2>1, <2>2 DEF LineageAnswersAreRight
<1>2. ConversationInit => LineageInv
  BY DEF ConversationInit, LineageInv
<1> QED BY <1>1, <1>2, NextLineage, PTL DEF ConversationSpec
-----------------------------------------------------------------------------
(***************************************************************************)
(* Packs: the search for a cycle                                           *)
(***************************************************************************)

\* What each pack names, as a list of packs.
IsAdjacency(A) == IsFiniteSet(DOMAIN A) /\ \A p \in DOMAIN A : A[p] \in Seq(DOMAIN A)

Follows(A, p) == {A[p][i] : i \in 1..Len(A[p])}
Closed(A, S) == \A r \in S : Follows(A, r) \subseteq S

\* The packs upstream of p: in every closed set that has what p names.
LeadsTo(A, p) ==
  {q \in DOMAIN A : \A S \in SUBSET DOMAIN A : Follows(A, p) \subseteq S /\ Closed(A, S) => q \in S}

LEMMA FollowsIs ==
  ASSUME NEW A, IsAdjacency(A), NEW p \in DOMAIN A
  PROVE  /\ Follows(A, p) \subseteq DOMAIN A /\ Len(A[p]) \in Nat
         /\ \A i \in 1..Len(A[p]) : A[p][i] \in Follows(A, p)
BY DEF IsAdjacency, Follows

\* What a pack names is upstream of it, and so is what that names.
LEMMA UpGrows ==
  ASSUME NEW A, IsAdjacency(A), NEW p \in DOMAIN A, NEW q \in Follows(A, p)
  PROVE  /\ q \in LeadsTo(A, p)
         /\ \A g \in DOMAIN A : p \in LeadsTo(A, g) => q \in LeadsTo(A, g)
<1>1. q \in DOMAIN A
  BY FollowsIs
<1>2. q \in LeadsTo(A, p)
  BY <1>1 DEF LeadsTo
<1>3. ASSUME NEW g \in DOMAIN A, p \in LeadsTo(A, g) PROVE q \in LeadsTo(A, g)
  <2> SUFFICES ASSUME NEW S \in SUBSET DOMAIN A, Follows(A, g) \subseteq S, Closed(A, S)
               PROVE  q \in S
    BY <1>1 DEF LeadsTo
  <2>1. p \in S
    BY <1>3 DEF LeadsTo
  <2> QED BY <2>1 DEF Closed
<1> QED BY <1>2, <1>3

Circular(A) == \E p \in DOMAIN A : p \in LeadsTo(A, p)

OnStack(A, at) == {p \in DOMAIN A : at.state[p] = 1}
Done(A, at) == {p \in DOMAIN A : at.state[p] = 2}

\* The packs done name packs that are done, and none is upstream of itself.
Sound(A, at) ==
  /\ at \in Searches(DOMAIN A)
  /\ \A p \in Done(A, at) : Follows(A, p) \subseteq Done(A, at) /\ p \notin LeadsTo(A, p)

\* So many calls deep, each for a pack that leads to p.
Ready(A, depth, at, p) ==
  /\ Sound(A, at) /\ ~at.cycle
  /\ Cardinality(OnStack(A, at)) + depth = Cardinality(DOMAIN A) + 1
  /\ \A g \in OnStack(A, at) : p \in LeadsTo(A, g)

\* The packs of T were visited: there is a cycle, or they are done and the
\* stack is what it was.
Visited(A, at, to, T) ==
  /\ to \in Searches(DOMAIN A)
  /\ IF to.cycle THEN Circular(A)
     ELSE /\ Sound(A, to) /\ OnStack(A, to) = OnStack(A, at)
          /\ Done(A, at) \subseteq Done(A, to) /\ T \subseteq Done(A, to)

VisitsRight(A, depth, call) ==
  \A p \in DOMAIN A, at \in Searches(DOMAIN A) :
    /\ Ready(A, depth, at, p) => Visited(A, at, call[p][at], {p})
    /\ at.cycle => call[p][at] = at

Following(f, N, call, targets, at) ==
  f = [i \in 0..N |-> IF i = 0 THEN at ELSE call[targets[i]][f[i - 1]]]

LEMMA FollowingExists ==
  ASSUME NEW call, NEW targets, NEW at, NEW N \in Nat
  PROVE  \E f : Following(f, N, call, targets, at)
<1> DEFINE T == {m \in 0..N : \E f : Following(f, m, call, targets, at)}
<1>1. 0 \in T
  <2> DEFINE f == [i \in 0..0 |-> at]
  <2>1. Following(f, 0, call, targets, at)
    BY DEF Following
  <2> QED BY <2>1
<1>2. ASSUME NEW m \in 0..N, m \in T, m < N PROVE m + 1 \in T
  <2>1. PICK f : Following(f, m, call, targets, at)
    BY <1>2
  <2> DEFINE longer == [i \in 0..(m + 1) |-> IF i = m + 1 THEN call[targets[m + 1]][f[m]] ELSE f[i]]
  <2>2. ASSUME NEW i \in 0..(m + 1)
        PROVE  longer[i] = IF i = 0 THEN at ELSE call[targets[i]][longer[i - 1]]
    <3>1. \A j \in 0..m : f[j] = IF j = 0 THEN at ELSE call[targets[j]][f[j - 1]]
      BY <2>1 DEF Following
    <3>2. CASE i = 0
      BY <3>1, <3>2
    <3>3. CASE i = m + 1
      BY <3>3
    <3>4. CASE i # 0 /\ i # m + 1
      <4>1. i \in 0..m /\ i - 1 \in 0..m /\ i - 1 # m + 1 /\ i - 1 \in 0..(m + 1)
        BY <3>4
      <4> QED BY <4>1, <3>1, <3>4
    <3> QED BY <3>2, <3>3, <3>4
  <2>3. Following(longer, m + 1, call, targets, at)
    <3>1. longer = [i \in 0..(m + 1) |-> longer[i]]
      OBVIOUS
    <3> HIDE DEF longer
    <3> QED BY <3>1, <2>2 DEF Following
  <2>4. m + 1 \in 0..N
    BY <1>2
  <2> QED BY <2>3, <2>4
<1>3. 0..N \subseteq T
  <2> HIDE DEF T
  <2> QED BY <1>1, <1>2, Upwards
<1> QED BY <1>3

LEMMA VisitEachIs ==
  ASSUME NEW call, NEW targets, NEW at, Len(targets) \in Nat
  PROVE  \E f : /\ Following(f, Len(targets), call, targets, at)
                /\ visit_each(call, targets, at) = f[Len(targets)]
<1>1. \E f : Following(f, Len(targets), call, targets, at)
  BY FollowingExists
<1> DEFINE f == CHOOSE f : f = [i \in 0..Len(targets) |->
                   IF i = 0 THEN at ELSE call[targets[i]][f[i - 1]]]
<1>2. f = [i \in 0..Len(targets) |-> IF i = 0 THEN at ELSE call[targets[i]][f[i - 1]]]
  BY <1>1 DEF Following
<1>3. visit_each(call, targets, at) = f[Len(targets)]
  BY DEF visit_each
<1> QED BY <1>2, <1>3 DEF Following

\* Calls that are right, one after the other.
LEMMA EachIsRight ==
  ASSUME NEW A, IsAdjacency(A), NEW depth, NEW call, VisitsRight(A, depth, call),
         NEW targets \in Seq(DOMAIN A), NEW at, Sound(A, at), ~at.cycle,
         Cardinality(OnStack(A, at)) + depth = Cardinality(DOMAIN A) + 1,
         \A i \in 1..Len(targets) : \A g \in OnStack(A, at) : targets[i] \in LeadsTo(A, g)
  PROVE  Visited(A, at, visit_each(call, targets, at), {targets[i] : i \in 1..Len(targets)})
<1> DEFINE N == Len(targets)
           V(n) == {targets[i] : i \in 1..n}
<1>1. N \in Nat /\ \A i \in 1..N : targets[i] \in DOMAIN A
  OBVIOUS
<1>2. PICK f : Following(f, N, call, targets, at) /\ visit_each(call, targets, at) = f[N]
  BY <1>1, VisitEachIs
<1> HIDE DEF N
<1> DEFINE T == {n \in 0..N : Visited(A, at, f[n], V(n))}
<1>3. 0 \in T
  <2>1. f[0] = at
    BY <1>1, <1>2 DEF Following
  <2>2. V(0) = {}
    OBVIOUS
  <2> HIDE DEF V
  <2>3. Visited(A, at, at, {})
    BY DEF Visited, Sound
  <2>4. Visited(A, at, f[0], V(0))
    BY <2>1, <2>2, <2>3
  <2>5. 0 \in 0..N
    BY <1>1
  <2> QED BY <2>4, <2>5
<1>4. ASSUME NEW n \in 0..N, n \in T, n < N PROVE n + 1 \in T
  <2> DEFINE s == f[n]
             p == targets[n + 1]
  <2>1. n + 1 \in 0..N /\ n + 1 # 0 /\ (n + 1) - 1 = n /\ n + 1 \in 1..N
    BY <1>1, <1>4
  <2>2. f[n + 1] = call[p][s]
    BY <1>2, <2>1 DEF Following
  <2>3. Visited(A, at, s, V(n)) /\ s \in Searches(DOMAIN A) /\ p \in DOMAIN A
    BY <1>1, <1>4, <2>1 DEF Visited
  <2>4. V(n + 1) = V(n) \cup {p}
    BY <1>1, <2>1
  <2> HIDE DEF V
  <2>5. CASE s.cycle
    <3>1. call[p][s] = s
      BY <2>3, <2>5 DEF VisitsRight
    <3>2. Visited(A, at, s, V(n + 1))
      BY <2>3, <2>5 DEF Visited
    <3> QED BY <2>1, <2>2, <3>1, <3>2
  <2>6. CASE ~s.cycle
    <3>1. /\ Sound(A, s) /\ OnStack(A, s) = OnStack(A, at)
          /\ Done(A, at) \subseteq Done(A, s) /\ V(n) \subseteq Done(A, s)
      BY <2>3, <2>6 DEF Visited
    <3>2. Ready(A, depth, s, p)
      <4>1. \A g \in OnStack(A, at) : p \in LeadsTo(A, g)
        BY <2>1 DEF N
      <4> QED BY <2>6, <3>1, <4>1 DEF Ready
    <3>3. Visited(A, s, call[p][s], {p})
      BY <2>3, <3>2 DEF VisitsRight
    <3> DEFINE t == call[p][s]
    <3> HIDE DEF t, s, p
    <3>4. Visited(A, at, t, V(n + 1))
      BY <2>4, <3>1, <3>3 DEF Visited, t
    <3> QED BY <2>1, <2>2, <3>4 DEF t
  <2> QED BY <2>5, <2>6
<1>5. 0..N \subseteq T
  <2> HIDE DEF T
  <2> QED BY <1>1, <1>3, <1>4, Upwards
<1>6. Visited(A, at, f[N], V(N))
  <2>1. N \in T
    <3> HIDE DEF T
    <3> QED BY <1>1, <1>5
  <2> HIDE DEF V
  <2> QED BY <2>1
<1> QED BY <1>2, <1>6 DEF N

\* A pack unseen is put on the stack: one more is on it, all leading to what it
\* names.
LEMMA Push ==
  ASSUME NEW A, IsAdjacency(A), NEW depth \in Nat, NEW p \in DOMAIN A, NEW at, Ready(A, depth, at, p),
         at.state[p] \notin {1, 2}
  PROVE  LET to == [at EXCEPT !.state = [at.state EXCEPT ![p] = 1]] IN
         /\ Sound(A, to) /\ ~to.cycle
         /\ OnStack(A, to) = OnStack(A, at) \cup {p} /\ p \notin OnStack(A, at)
         /\ Done(A, to) = Done(A, at)
         /\ Cardinality(OnStack(A, to)) + (depth - 1) = Cardinality(DOMAIN A) + 1
         /\ \A i \in 1..Len(A[p]) : \A g \in OnStack(A, to) : A[p][i] \in LeadsTo(A, g)
<1> DEFINE to == [at EXCEPT !.state = [at.state EXCEPT ![p] = 1]]
           P == DOMAIN A
<1>1. at \in Searches(P) /\ ~at.cycle /\ Sound(A, at)
  BY DEF Ready, Sound
<1>2. /\ to \in Searches(P) /\ ~to.cycle /\ to.state[p] = 1
      /\ \A q \in P : q # p => to.state[q] = at.state[q]
  BY <1>1 DEF Searches
<1> HIDE DEF to
<1>3. /\ OnStack(A, to) = OnStack(A, at) \cup {p} /\ p \notin OnStack(A, at)
      /\ Done(A, to) = Done(A, at)
  BY <1>2 DEF OnStack, Done
<1>4. Sound(A, to)
  BY <1>1, <1>2, <1>3 DEF Sound
<1>5. IsFiniteSet(OnStack(A, at))
  <2>1. OnStack(A, at) \in SUBSET P /\ IsFiniteSet(P)
    BY DEF OnStack, IsAdjacency
  <2> QED BY <2>1, FS_Subset
<1>6. Cardinality(OnStack(A, to)) + (depth - 1) = Cardinality(P) + 1
  <2>1. Cardinality(OnStack(A, to)) = Cardinality(OnStack(A, at)) + 1
    BY <1>3, <1>5, FS_AddElement
  <2>2. PICK k \in Nat : k = Cardinality(OnStack(A, at))
    BY <1>5, FS_CardinalityType
  <2>3. PICK n \in Nat : n = Cardinality(P)
    BY FS_CardinalityType DEF IsAdjacency
  <2>4. k + depth = n + 1
    BY <2>2, <2>3 DEF Ready
  <2>5. (k + 1) + (depth - 1) = n + 1
    BY <2>4
  <2> QED BY <2>1, <2>2, <2>3, <2>5
<1>7. ASSUME NEW i \in 1..Len(A[p]), NEW g \in OnStack(A, to) PROVE A[p][i] \in LeadsTo(A, g)
  <2>1. A[p][i] \in Follows(A, p)
    BY FollowsIs
  <2>2. CASE g = p
    BY <2>1, <2>2, UpGrows
  <2>3. CASE g # p
    <3>1. g \in OnStack(A, at) /\ g \in DOMAIN A
      BY <1>3, <2>3 DEF OnStack
    <3>2. p \in LeadsTo(A, g)
      BY <3>1 DEF Ready
    <3> QED BY <2>1, <3>1, <3>2, UpGrows
  <2> QED BY <2>2, <2>3
<1> QED BY <1>2, <1>3, <1>4, <1>6, <1>7 DEF to

\* When all it names are done it is done, and not upstream of itself.
LEMMA Pop ==
  ASSUME NEW A, IsAdjacency(A), NEW p \in DOMAIN A, NEW at, NEW on, NEW down,
         Sound(A, at), at.state[p] \notin {1, 2},
         OnStack(A, on) = OnStack(A, at) \cup {p}, Done(A, on) = Done(A, at),
         Visited(A, on, down, Follows(A, p))
  PROVE  Visited(A, at, [down EXCEPT !.state = [down.state EXCEPT ![p] = 2]], {p})
<1> DEFINE P == DOMAIN A
           to == [down EXCEPT !.state = [down.state EXCEPT ![p] = 2]]
<1>1. down \in Searches(P)
  BY DEF Visited
<1>2. /\ to \in Searches(P) /\ to.cycle = down.cycle /\ to.state[p] = 2
      /\ \A q \in P : q # p => to.state[q] = down.state[q]
  BY <1>1 DEF Searches
<1> HIDE DEF to
<1>3. CASE down.cycle
  <2>1. Circular(A)
    BY <1>3 DEF Visited
  <2> QED BY <1>2, <1>3, <2>1 DEF Visited, to
<1>4. CASE ~down.cycle
  <2>1. /\ Sound(A, down) /\ OnStack(A, down) = OnStack(A, at) \cup {p}
        /\ Done(A, at) \subseteq Done(A, down) /\ Follows(A, p) \subseteq Done(A, down)
    BY <1>4 DEF Visited
  <2>2. p \notin OnStack(A, at) /\ p \notin Done(A, down)
    <3>1. p \in OnStack(A, down)
      BY <2>1
    <3> QED BY <3>1 DEF OnStack, Done
  <2>3. Done(A, to) = Done(A, down) \cup {p} /\ OnStack(A, to) = OnStack(A, at)
    <3>1. Done(A, to) = Done(A, down) \cup {p}
      BY <1>2 DEF Done
    <3>2. OnStack(A, to) = OnStack(A, down) \ {p}
      BY <1>2 DEF OnStack
    <3> QED BY <2>1, <2>2, <3>1, <3>2
  <2>4. p \notin LeadsTo(A, p)
    <3>1. Done(A, down) \in SUBSET P
      BY DEF Done
    <3>2. Closed(A, Done(A, down))
      BY <2>1 DEF Closed, Sound
    <3> QED BY <2>1, <2>2, <3>1, <3>2 DEF LeadsTo
  <2>5. Sound(A, to)
    BY <1>2, <2>1, <2>3, <2>4 DEF Sound
  <2>6. Visited(A, at, to, {p})
    BY <1>2, <1>4, <2>1, <2>3, <2>5 DEF Visited
  <2> QED BY <2>6 DEF to
<1> QED BY <1>3, <1>4

LEMMA VisitIsRight ==
  ASSUME NEW A, IsAdjacency(A), NEW depth \in Nat, NEW call, VisitsRight(A, depth - 1, call),
         NEW p \in DOMAIN A, NEW at \in Searches(DOMAIN A)
  PROVE  /\ Ready(A, depth, at, p) => Visited(A, at, visit(A, call, p, at), {p})
         /\ at.cycle => visit(A, call, p, at) = at
<1>1. at.cycle => visit(A, call, p, at) = at
  BY DEF visit
<1> SUFFICES ASSUME Ready(A, depth, at, p)
             PROVE  Visited(A, at, visit(A, call, p, at), {p})
  BY <1>1
<1>2. Sound(A, at) /\ ~at.cycle
  BY DEF Ready
<1>3. CASE at.state[p] = 2
  <2>1. visit(A, call, p, at) = at
    BY <1>3 DEF visit
  <2>2. p \in Done(A, at)
    BY <1>3 DEF Done
  <2> QED BY <1>2, <2>1, <2>2 DEF Visited
<1>4. CASE at.state[p] = 1
  <2> DEFINE to == [at EXCEPT !.cycle = TRUE]
  <2>1. visit(A, call, p, at) = to
    BY <1>2, <1>4 DEF visit
  <2>2. to \in Searches(DOMAIN A) /\ to.cycle
    BY DEF Searches
  <2>3. p \in OnStack(A, at)
    BY <1>4 DEF OnStack
  <2>4. Circular(A)
    BY <2>3 DEF Ready, Circular
  <2> HIDE DEF to
  <2> QED BY <2>1, <2>2, <2>4 DEF Visited
<1>5. CASE at.state[p] \notin {1, 2}
  <2> DEFINE on == [at EXCEPT !.state = [at.state EXCEPT ![p] = 1]]
             down == visit_each(call, A[p], on)
  <2>1. visit(A, call, p, at) = [down EXCEPT !.state = [down.state EXCEPT ![p] = 2]]
    BY <1>2, <1>5 DEF visit
  <2>2. /\ Sound(A, on) /\ ~on.cycle
        /\ OnStack(A, on) = OnStack(A, at) \cup {p} /\ p \notin OnStack(A, at)
        /\ Done(A, on) = Done(A, at)
        /\ Cardinality(OnStack(A, on)) + (depth - 1) = Cardinality(DOMAIN A) + 1
        /\ \A i \in 1..Len(A[p]) : \A g \in OnStack(A, on) : A[p][i] \in LeadsTo(A, g)
    BY <1>5, Push
  <2> HIDE DEF on
  <2>3. Visited(A, on, down, {A[p][i] : i \in 1..Len(A[p])})
    <3>1. A[p] \in Seq(DOMAIN A)
      BY DEF IsAdjacency
    <3>2. \A targets \in Seq(DOMAIN A) :
            (\A i \in 1..Len(targets) : \A g \in OnStack(A, on) : targets[i] \in LeadsTo(A, g))
              => Visited(A, on, visit_each(call, targets, on), {targets[i] : i \in 1..Len(targets)})
      <4> HIDE DEF down
      <4> QED BY <2>2, EachIsRight
    <3> QED BY <2>2, <3>1, <3>2
  <2>4. Visited(A, on, down, Follows(A, p))
    BY <2>3 DEF Follows
  <2> HIDE DEF down
  <2>5. Visited(A, at, [down EXCEPT !.state = [down.state EXCEPT ![p] = 2]], {p})
    BY <1>2, <1>5, <2>2, <2>4, Pop
  <2> QED BY <2>1, <2>5
<1> QED BY <1>3, <1>4, <1>5

Levels(f, N, A) ==
  f = [depth \in 0..N |-> [p \in DOMAIN A |-> [at \in Searches(DOMAIN A) |->
         IF depth = 0 THEN at ELSE visit(A, f[depth - 1], p, at)]]]

LEMMA LevelsExist ==
  ASSUME NEW A, NEW N \in Nat
  PROVE  \E f : Levels(f, N, A)
<1> DEFINE T == {m \in 0..N : \E f : Levels(f, m, A)}
           P == DOMAIN A
           Level(d, call) == [p \in P |-> [at \in Searches(P) |->
                                IF d = 0 THEN at ELSE visit(A, call, p, at)]]
<1>1. 0 \in T
  <2> DEFINE f == [d \in 0..0 |-> Level(d, 0)]
  <2>1. f = [d \in 0..0 |-> Level(d, f[d - 1])]
    <3>1. \A d \in 0..0 : Level(d, 0) = Level(d, f[d - 1])
      OBVIOUS
    <3> HIDE DEF Level
    <3> QED BY <3>1
  <2> HIDE DEF f
  <2>2. Levels(f, 0, A)
    BY <2>1 DEF Levels
  <2> QED BY <2>2
<1>2. ASSUME NEW m \in 0..N, m \in T, m < N PROVE m + 1 \in T
  <2>1. PICK f : Levels(f, m, A)
    BY <1>2
  <2> DEFINE longer == [d \in 0..(m + 1) |-> IF d = m + 1 THEN Level(m + 1, f[m]) ELSE f[d]]
  <2>2. ASSUME NEW d \in 0..(m + 1) PROVE longer[d] = Level(d, longer[d - 1])
    <3>1. \A e \in 0..m : f[e] = Level(e, f[e - 1])
      BY <2>1 DEF Levels
    <3>2. CASE d = 0
      <4>1. \A x, y : Level(0, x) = Level(0, y)
        OBVIOUS
      <4> HIDE DEF Level
      <4>2. longer[0] = f[0] /\ f[0] = Level(0, f[0 - 1])
        BY <3>1
      <4> QED BY <3>2, <4>1, <4>2
    <3> HIDE DEF Level
    <3>3. CASE d = m + 1
      BY <3>3
    <3>4. CASE d # 0 /\ d # m + 1
      <4>1. d \in 0..m /\ d - 1 \in 0..m /\ d - 1 # m + 1 /\ d - 1 \in 0..(m + 1)
        BY <3>4
      <4> QED BY <4>1, <3>1, <3>4
    <3> QED BY <3>2, <3>3, <3>4
  <2>3. Levels(longer, m + 1, A)
    <3>1. longer = [d \in 0..(m + 1) |-> longer[d]]
      OBVIOUS
    <3> HIDE DEF longer
    <3>2. longer = [d \in 0..(m + 1) |-> Level(d, longer[d - 1])]
      <4> HIDE DEF Level
      <4> QED BY <3>1, <2>2
    <3> QED BY <3>2 DEF Levels
  <2>4. m + 1 \in 0..N
    BY <1>2
  <2> QED BY <2>3, <2>4
<1>3. 0..N \subseteq T
  <2> HIDE DEF T
  <2> QED BY <1>1, <1>2, Upwards
<1> QED BY <1>3

LEMMA VisitsAre ==
  ASSUME NEW A, NEW N \in Nat, N = Cardinality(DOMAIN A) + 1
  PROVE  \E f : Levels(f, N, A) /\ visits(A) = f[N]
<1>1. \E f : Levels(f, N, A)
  BY LevelsExist
<1> DEFINE P == DOMAIN A
           f == CHOOSE f : f = [depth \in 0..(Cardinality(P) + 1) |->
                  [p \in P |-> [at \in Searches(P) |->
                     IF depth = 0 THEN at ELSE visit(A, f[depth - 1], p, at)]]]
<1>2. f = [depth \in 0..(Cardinality(P) + 1) |->
             [p \in P |-> [at \in Searches(P) |->
                IF depth = 0 THEN at ELSE visit(A, f[depth - 1], p, at)]]]
  BY <1>1 DEF Levels
<1>3. visits(A) = f[Cardinality(P) + 1]
  BY DEF visits
<1> HIDE DEF f
<1>4. Levels(f, N, A)
  BY <1>2 DEF Levels
<1> QED BY <1>3, <1>4

LEMMA VisitsAreRight ==
  ASSUME NEW A, IsAdjacency(A)
  PROVE  VisitsRight(A, Cardinality(DOMAIN A) + 1, visits(A))
<1> DEFINE P == DOMAIN A
           N == Cardinality(P) + 1
<1>1. Cardinality(P) \in Nat /\ N \in Nat
  BY FS_CardinalityType DEF IsAdjacency
<1>2. PICK f : Levels(f, N, A) /\ visits(A) = f[N]
  BY <1>1, VisitsAre
<1> HIDE DEF N
<1> DEFINE T == {d \in 0..N : VisitsRight(A, d, f[d])}
<1>3. \A d \in 0..N : \A p \in P, at \in Searches(P) :
        f[d][p][at] = IF d = 0 THEN at ELSE visit(A, f[d - 1], p, at)
  <2> SUFFICES ASSUME NEW d \in 0..N, NEW p \in P, NEW at \in Searches(P)
               PROVE  f[d][p][at] = IF d = 0 THEN at ELSE visit(A, f[d - 1], p, at)
    OBVIOUS
  <2>1. f[d] = [q \in P |-> [s \in Searches(P) |-> IF d = 0 THEN s ELSE visit(A, f[d - 1], q, s)]]
    BY <1>2 DEF Levels
  <2> QED BY <2>1
<1>4. 0 \in T
  <2>1. ASSUME NEW p \in P, NEW at \in Searches(P), Ready(A, 0, at, p) PROVE FALSE
    <3>1. OnStack(A, at) \in SUBSET P /\ IsFiniteSet(P)
      BY DEF OnStack, IsAdjacency
    <3>2. Cardinality(OnStack(A, at)) <= Cardinality(P) /\ IsFiniteSet(OnStack(A, at))
      BY <3>1, FS_Subset
    <3>3. Cardinality(OnStack(A, at)) \in Nat
      BY <3>2, FS_CardinalityType
    <3>4. Cardinality(OnStack(A, at)) + 0 = Cardinality(P) + 1
      BY <2>1 DEF Ready
    <3> QED BY <1>1, <3>2, <3>3, <3>4
  <2>2. 0 \in 0..N
    BY <1>1
  <2>3. VisitsRight(A, 0, f[0])
    BY <1>3, <2>1, <2>2 DEF VisitsRight
  <2> QED BY <2>2, <2>3
<1>5. ASSUME NEW d \in 0..N, d \in T, d < N PROVE d + 1 \in T
  <2>1. d + 1 \in 0..N /\ d + 1 \in Nat /\ d + 1 # 0 /\ (d + 1) - 1 = d
    BY <1>1, <1>5
  <2>2. VisitsRight(A, (d + 1) - 1, f[d])
    BY <1>5, <2>1
  <2>3. ASSUME NEW p \in P, NEW at \in Searches(P)
        PROVE  /\ Ready(A, d + 1, at, p) => Visited(A, at, f[d + 1][p][at], {p})
               /\ at.cycle => f[d + 1][p][at] = at
    <3>1. f[d + 1][p][at] = visit(A, f[d], p, at)
      BY <1>3, <2>1
    <3>2. /\ Ready(A, d + 1, at, p) => Visited(A, at, visit(A, f[d], p, at), {p})
          /\ at.cycle => visit(A, f[d], p, at) = at
      BY <2>1, <2>2, VisitIsRight
    <3> QED BY <3>1, <3>2
  <2>4. VisitsRight(A, d + 1, f[d + 1])
    BY <2>3 DEF VisitsRight
  <2> QED BY <2>1, <2>4
<1>6. 0..N \subseteq T
  <2> HIDE DEF T
  <2> QED BY <1>1, <1>4, <1>5, Upwards
<1>7. N \in T
  <2> HIDE DEF T
  <2> QED BY <1>1, <1>6
<1> QED BY <1>2, <1>7 DEF N

\* The search finds a cycle exactly when some pack is upstream of itself.
LEMMA HasCycle ==
  ASSUME NEW A, IsAdjacency(A), DOMAIN A \subseteq Int
  PROVE  has_cycle(A) <=> Circular(A)
<1> DEFINE P == DOMAIN A
           key == [p \in P |-> p]
           order == InOrder(P, key)
           at == [state |-> [p \in P |-> 0], cycle |-> FALSE]
           to == visit_each(visits(A), order, at)
<1>1. Keyed(P, key)
  BY DEF Keyed, IsAdjacency
<1>2. Lists(order, P, key)
  BY <1>1, InOrderLists
<1>3. order \in Seq(P) /\ \A p \in P : \E i \in 1..Len(order) : order[i] = p
  BY <1>2 DEF Lists
<1>4. at \in Searches(P) /\ ~at.cycle /\ \A p \in P : at.state[p] = 0
  BY DEF Searches
<1>5. has_cycle(A) = to.cycle
  BY DEF has_cycle
<1> HIDE DEF at, order
<1>6. OnStack(A, at) = {} /\ Done(A, at) = {}
  BY <1>4 DEF OnStack, Done
<1>7. Sound(A, at)
  BY <1>4, <1>6 DEF Sound
<1>8. Cardinality(OnStack(A, at)) + (Cardinality(P) + 1) = Cardinality(P) + 1
  <2>1. Cardinality(OnStack(A, at)) = 0 /\ Cardinality(P) \in Nat
    BY <1>6, FS_EmptySet, FS_CardinalityType DEF IsAdjacency
  <2> QED BY <2>1
<1>9. Visited(A, at, to, {order[i] : i \in 1..Len(order)})
  <2>1. VisitsRight(A, Cardinality(P) + 1, visits(A))
    BY VisitsAreRight
  <2>2. \A i \in 1..Len(order) : \A g \in OnStack(A, at) : order[i] \in LeadsTo(A, g)
    BY <1>6
  <2> QED BY <1>3, <1>4, <1>7, <1>8, <2>1, <2>2, EachIsRight
<1> HIDE DEF to
<1>10. CASE to.cycle
  BY <1>5, <1>9, <1>10 DEF Visited
<1>11. CASE ~to.cycle
  <2>1. Sound(A, to) /\ {order[i] : i \in 1..Len(order)} \subseteq Done(A, to)
    BY <1>9, <1>11 DEF Visited
  <2>2. \A p \in P : p \in Done(A, to)
    BY <1>3, <2>1
  <2>3. ~Circular(A)
    BY <2>1, <2>2 DEF Sound, Circular
  <2> QED BY <1>5, <1>11, <2>3
<1> QED BY <1>10, <1>11
-----------------------------------------------------------------------------
(***************************************************************************)
(* Packs: the law of the dependency graph                                  *)
(***************************************************************************)

IsManifests(M) ==
  DOMAIN M \subseteq PackIds /\ \A p \in DOMAIN M : M[p].deps \in Seq(Dependencies)

Targets(m) == {d.pack : d \in Range(m.deps)}

LEMMA DuplicatesCount ==
  ASSUME NEW m, m.deps \in Seq(Dependencies)
  PROVE  ~has_duplicate_dependency(m) <=> Cardinality(Targets(m)) = Len(m.deps)
<1> DEFINE n == Len(m.deps)
           D == 1..n
           f == [i \in D |-> m.deps[i].pack]
           T == Targets(m)
<1>1. n \in Nat /\ DOMAIN m.deps = D
  OBVIOUS
<1>2. f \in Surjection(D, T)
  <2>1. \A i \in D : m.deps[i] \in Range(m.deps)
    BY <1>1 DEF Range
  <2>2. f \in [D -> T]
    BY <2>1 DEF Targets
  <2>3. \A t \in T : \E i \in D : f[i] = t
    BY <1>1 DEF Targets, Range
  <2> QED BY <2>2, <2>3 DEF Surjection
<1>3. IsFiniteSet(D) /\ Cardinality(D) = n
  <2> HIDE DEF n, f, T
  <2>1. n \in Int /\ 1 <= n + 1 /\ n - 1 + 1 = n
    BY <1>1
  <2>2. IsFiniteSet(1..n) /\ Cardinality(1..n) = IF 1 > n THEN 0 ELSE n - 1 + 1
    BY <2>1, FS_Interval
  <2> QED BY <1>1, <2>1, <2>2
<1>4. f \in Injection(D, T) <=> \A i, j \in D : f[i] = f[j] => i = j
  BY <1>2 DEF Surjection, Injection, IsInjective
<1>5. ~has_duplicate_dependency(m) <=> \A i, j \in D : f[i] = f[j] => i = j
  BY <1>1 DEF has_duplicate_dependency
<1> HIDE DEF f, D, n, T
<1>6. Cardinality(T) = n <=> f \in Injection(D, T)
  BY <1>2, <1>3, FS_Surjection
<1> QED BY <1>4, <1>5, <1>6 DEF T, n

\* The dependencies resolved, in the order of their targets.
LEMMA ResolvedIs ==
  ASSUME NEW m, m.deps \in Seq(Dependencies), ~has_duplicate_dependency(m), NEW mounted
  PROVE  LET s == _resolved_dependencies(m, mounted) IN
         /\ s \in Seq(Dependencies) /\ DOMAIN s = 1..Len(s) /\ Increasing(s)
         /\ \A i \in DOMAIN s : s[i] \in Range(m.deps) /\ s[i].pack \in mounted
         /\ \A d \in Range(m.deps) : d.pack \in mounted => \E i \in DOMAIN s : s[i] = d
<1> DEFINE S == {d \in Range(m.deps) : d.pack \in mounted}
           key == [d \in S |-> d.pack]
           s == _resolved_dependencies(m, mounted)
<1>1. Len(m.deps) \in Nat /\ DOMAIN m.deps = 1..Len(m.deps)
      /\ \A i \in 1..Len(m.deps) : m.deps[i] \in Dependencies
  OBVIOUS
<1>2. \A d \in Range(m.deps) : d \in Dependencies /\ \E i \in 1..Len(m.deps) : m.deps[i] = d
  BY <1>1 DEF Range
<1>3. IsFiniteSet(Range(m.deps))
  <2> DEFINE D == 1..Len(m.deps)
             f == [i \in D |-> m.deps[i]]
  <2>1. f \in Surjection(D, Range(m.deps))
    BY <1>1 DEF Surjection, Range
  <2>2. IsFiniteSet(D)
    BY <1>1, FS_Interval
  <2> HIDE DEF f, D
  <2> QED BY <2>1, <2>2, FS_Surjection
<1>4. Keyed(S, key)
  <2>1. IsFiniteSet(S)
    BY <1>3, FS_Subset
  <2>2. key \in [S -> Int]
    BY <1>2 DEF Dependencies
  <2>3. ASSUME NEW x \in S, NEW y \in S, x.pack = y.pack PROVE x = y
    <3>1. PICK i \in 1..Len(m.deps) : m.deps[i] = x
      BY <1>2
    <3>2. PICK j \in 1..Len(m.deps) : m.deps[j] = y
      BY <1>2
    <3> QED BY <1>1, <2>3, <3>1, <3>2 DEF has_duplicate_dependency
  <2> QED BY <2>1, <2>2, <2>3 DEF Keyed
<1>5. Lists(s, S, key)
  BY <1>4, InOrderLists DEF _resolved_dependencies
<1> HIDE DEF s
<1>6. /\ s \in Seq(S) /\ DOMAIN s = 1..Len(s)
      /\ \A x \in S : \E i \in DOMAIN s : s[i] = x
      /\ \A i, j \in DOMAIN s : i < j => key[s[i]] < key[s[j]]
  BY <1>5 DEF Lists
<1>7. \A i \in DOMAIN s : s[i] \in S
  BY <1>6
<1>8. Increasing(s)
  BY <1>6, <1>7 DEF Increasing
<1>9. s \in Seq(Dependencies)
  <2>1. S \subseteq Dependencies
    BY <1>2
  <2> HIDE DEF S
  <2> QED BY <1>6, <2>1
<1> QED BY <1>6, <1>7, <1>8, <1>9 DEF s

LEMMA AdjacencyIs ==
  ASSUME NEW M, IsManifests(M), \A p \in DOMAIN M : ~has_duplicate_dependency(M[p])
  PROVE  /\ IsAdjacency(adjacency(M)) /\ DOMAIN adjacency(M) = DOMAIN M
         /\ \A p \in DOMAIN M : Follows(adjacency(M), p) = Targets(M[p]) \cap DOMAIN M
<1> DEFINE A == adjacency(M)
           P == DOMAIN M
           deps(p) == _resolved_dependencies(M[p], P)
<1>1. A = [p \in P |-> [i \in DOMAIN deps(p) |-> deps(p)[i].pack]]
  BY DEF adjacency
<1>2. IsFiniteSet(P)
  BY PackAssumption, FS_Subset DEF IsManifests
<1> HIDE DEF A
<1>3. ASSUME NEW p \in P
      PROVE  A[p] \in Seq(P) /\ Follows(A, p) = Targets(M[p]) \cap P
  <2> DEFINE s == deps(p)
             m == M[p]
  <2>1. /\ s \in Seq(Dependencies) /\ DOMAIN s = 1..Len(s)
        /\ \A i \in DOMAIN s : s[i] \in Range(m.deps) /\ s[i].pack \in P
        /\ \A d \in Range(m.deps) : d.pack \in P => \E i \in DOMAIN s : s[i] = d
    BY ResolvedIs DEF IsManifests
  <2>2. A[p] = [i \in DOMAIN s |-> s[i].pack]
    BY <1>1
  <2> HIDE DEF s
  <2>3. Len(s) \in Nat
    BY <2>1
  <2>4. A[p] \in Seq(P) /\ Len(A[p]) = Len(s) /\ \A i \in 1..Len(s) : A[p][i] = s[i].pack
    BY <2>1, <2>2, <2>3
  <2>5. ASSUME NEW q \in Follows(A, p) PROVE q \in Targets(m) \cap P
    <3>1. PICK i \in 1..Len(s) : q = s[i].pack
      BY <2>4 DEF Follows
    <3> QED BY <2>1, <3>1 DEF Targets
  <2>6. ASSUME NEW q \in Targets(m) \cap P PROVE q \in Follows(A, p)
    <3>1. PICK d \in Range(m.deps) : q = d.pack
      BY DEF Targets
    <3>2. PICK i \in 1..Len(s) : s[i] = d
      BY <2>1, <3>1
    <3> QED BY <2>4, <3>1, <3>2 DEF Follows
  <2> QED BY <2>4, <2>5, <2>6
<1>4. DOMAIN A = P
  BY <1>1
<1>5. IsAdjacency(A)
  BY <1>2, <1>3, <1>4 DEF IsAdjacency
<1> QED BY <1>3, <1>4, <1>5 DEF A

LEMMA UpstreamIs ==
  ASSUME NEW M, IsManifests(M), \A p \in DOMAIN M : ~has_duplicate_dependency(M[p]),
         NEW p \in DOMAIN M
  PROVE  Upstream(M, p) = LeadsTo(adjacency(M), p)
<1>1. /\ DOMAIN adjacency(M) = DOMAIN M
      /\ \A q \in DOMAIN M : Follows(adjacency(M), q) = Targets(M[q]) \cap DOMAIN M
  BY AdjacencyIs
<1>2. Upstream(M, p) = {q \in DOMAIN M : \A S \in SUBSET DOMAIN M :
        /\ Targets(M[p]) \cap DOMAIN M \subseteq S
        /\ \A r \in S : Targets(M[r]) \cap DOMAIN M \subseteq S
        => q \in S}
  BY DEF Upstream, Targets
<1>3. LeadsTo(adjacency(M), p) = {q \in DOMAIN M : \A S \in SUBSET DOMAIN M :
        /\ Targets(M[p]) \cap DOMAIN M \subseteq S
        /\ \A r \in S : Targets(M[r]) \cap DOMAIN M \subseteq S
        => q \in S}
  BY <1>1 DEF LeadsTo, Closed
<1> QED BY <1>2, <1>3

\* What GraphLawIsExact says of any manifests.
LEMMA GraphLaw ==
  ASSUME NEW M, IsManifests(M)
  PROVE  validate_pack_dependency_graph(M) <=>
           \A p \in DOMAIN M :
             /\ p \notin Upstream(M, p)
             /\ Cardinality({d.pack : d \in Range(M[p].deps)}) = Len(M[p].deps)
             /\ \A d \in Range(M[p].deps) :
                  /\ d.required => d.pack \in DOMAIN M
                  /\ d.pack \in DOMAIN M => ~LayerViolation(M[p], M[d.pack])
<1>1. \A p \in DOMAIN M : ~has_duplicate_dependency(M[p])
                            <=> Cardinality({d.pack : d \in Range(M[p].deps)}) = Len(M[p].deps)
  BY DuplicatesCount DEF IsManifests, Targets
<1>2. CASE \E p \in DOMAIN M : has_duplicate_dependency(M[p])
  BY <1>1, <1>2 DEF validate_pack_dependency_graph
<1>3. CASE \A p \in DOMAIN M : ~has_duplicate_dependency(M[p])
  <2>1. IsAdjacency(adjacency(M)) /\ DOMAIN adjacency(M) = DOMAIN M
    BY <1>3, AdjacencyIs
  <2>2. DOMAIN M \subseteq Int
    BY PackAssumption DEF IsManifests
  <2>3. has_cycle(adjacency(M)) <=> Circular(adjacency(M))
    BY <2>1, <2>2, HasCycle
  <2>4. Circular(adjacency(M)) <=> \E p \in DOMAIN M : p \in Upstream(M, p)
    BY <1>3, <2>1, UpstreamIs DEF Circular
  <2>5. validate_pack_dependency_graph(M) <=>
          /\ \A p \in DOMAIN M : \A d \in Range(M[p].deps) :
               IF d.pack \in DOMAIN M THEN ~LayerViolation(M[p], M[d.pack]) ELSE ~d.required
          /\ ~ \E p \in DOMAIN M : p \in Upstream(M, p)
    BY <1>3, <2>3, <2>4 DEF validate_pack_dependency_graph
  <2> QED BY <1>1, <1>3, <2>5
<1> QED BY <1>2, <1>3
-----------------------------------------------------------------------------
(***************************************************************************)
(* Packs: the lock                                                         *)
(***************************************************************************)

\* A list in the order of the keys that has every member lists the set.
LEMMA ListsBy ==
  ASSUME NEW S, NEW key, Keyed(S, key), NEW s \in Seq(S),
         \A x \in S : \E i \in DOMAIN s : s[i] = x,
         \A i, j \in DOMAIN s : i < j => key[s[i]] < key[s[j]]
  PROVE  Lists(s, S, key)
<1> DEFINE n == Len(s)
           D == 1..n
           f == [i \in D |-> s[i]]
<1>1. n \in Nat /\ DOMAIN s = D /\ \A i \in D : s[i] \in S
  OBVIOUS
<1>2. IsFiniteSet(D) /\ Cardinality(D) = n
  BY <1>1, FS_Interval
<1>3. f \in Surjection(D, S)
  BY <1>1 DEF Surjection
<1>4. f \in Injection(D, S)
  <2>1. ASSUME NEW i \in D, NEW j \in D, f[i] = f[j] PROVE i = j
    <3>1. s[i] = s[j] /\ s[i] \in S /\ key[s[i]] \in Int
      BY <1>1, <2>1 DEF Keyed
    <3>2. ~(i < j) /\ ~(j < i)
      BY <1>1, <3>1
    <3> QED BY <1>1, <3>2
  <2> QED BY <1>3, <2>1 DEF Surjection, Injection, IsInjective
<1> HIDE DEF f, D
<1>5. Cardinality(S) = n
  BY <1>2, <1>3, <1>4, FS_Surjection
<1> HIDE DEF n
<1> QED BY <1>1, <1>5 DEF Lists, D, n

LockRecords ==
  [pack : PackIds, revision : RevisionIds,
   digest : UNION {Candidates[p] : p \in PackIds}, deps : Seq(Dependencies)]

PackRecord(M, R, p) ==
  [pack |-> p, revision |-> R[p], digest |-> M[p],
   deps |-> _resolved_dependencies(M[p], DOMAIN M)]

\* What build_packset_lock does not refuse.
Buildable(M, R) ==
  /\ _validate_catalog(M) /\ DOMAIN M # {} /\ validate_pack_dependency_graph(M)
  /\ DOMAIN R = DOMAIN M /\ \A p \in DOMAIN M : R[p] # ""

\* l lists the records of the packs of M at the revisions R.
IsLockOf(l, M, R) ==
  /\ Len(l) \in Nat /\ DOMAIN l = 1..Len(l) /\ Increasing(l)
  /\ \A i \in DOMAIN l : l[i].pack \in DOMAIN M /\ l[i] = PackRecord(M, R, l[i].pack)
  /\ \A p \in DOMAIN M : \E i \in DOMAIN l : l[i].pack = p

LEMMA PacksKeyed ==
  ASSUME NEW M, IsManifests(M) PROVE Keyed(DOMAIN M, [p \in DOMAIN M |-> p])
<1>1. IsFiniteSet(DOMAIN M) /\ DOMAIN M \subseteq Int
  BY PackAssumption, FS_Subset DEF IsManifests
<1> QED BY <1>1 DEF Keyed

LEMMA BuiltIs ==
  ASSUME NEW M, IsManifests(M), NEW R, Buildable(M, R)
  PROVE  /\ build_packset_lock(M, R) =
              [i \in DOMAIN InOrder(DOMAIN M, [p \in DOMAIN M |-> p])
                |-> PackRecord(M, R, InOrder(DOMAIN M, [p \in DOMAIN M |-> p])[i])]
         /\ IsLockOf(build_packset_lock(M, R), M, R)
<1> DEFINE P == DOMAIN M
           key == [p \in P |-> p]
           ids == InOrder(P, key)
           l == build_packset_lock(M, R)
<1>1. l = [i \in DOMAIN ids |-> PackRecord(M, R, ids[i])]
  <2>1. ~ \/ ~_validate_catalog(M)
          \/ DOMAIN M = {}
          \/ ~validate_pack_dependency_graph(M)
          \/ DOMAIN R # DOMAIN M
          \/ \E p \in DOMAIN M : R[p] = ""
    BY DEF Buildable
  <2> QED BY <2>1 DEF build_packset_lock, PackRecord
<1>2. Lists(ids, P, key)
  BY PacksKeyed, InOrderLists
<1> HIDE DEF ids, l
<1>3. Len(ids) \in Nat /\ DOMAIN ids = 1..Len(ids) /\ \A i \in DOMAIN ids : ids[i] \in P
  BY <1>2 DEF Lists
<1>4. Len(l) = Len(ids) /\ DOMAIN l = 1..Len(l)
  BY <1>1, <1>3
<1>5. \A i \in DOMAIN l : l[i] = PackRecord(M, R, ids[i]) /\ l[i].pack = ids[i]
  BY <1>1 DEF PackRecord
<1>6. Increasing(l)
  <2> SUFFICES ASSUME NEW i \in DOMAIN l, NEW j \in DOMAIN l, i < j
               PROVE  l[i].pack < l[j].pack
    BY DEF Increasing
  <2>1. key[ids[i]] < key[ids[j]] /\ ids[i] \in P /\ ids[j] \in P
    BY <1>2, <1>3, <1>4 DEF Lists
  <2> QED BY <1>5, <2>1
<1>7. \A p \in P : \E i \in DOMAIN l : l[i].pack = p
  BY <1>2, <1>3, <1>4, <1>5 DEF Lists
<1>8. IsLockOf(l, M, R)
  BY <1>3, <1>4, <1>5, <1>6, <1>7 DEF IsLockOf
<1> QED BY <1>1, <1>8 DEF ids, l

\* Only the lock that is built lists these records in this order.
LEMMA LockIsTheBuilt ==
  ASSUME NEW M, IsManifests(M), NEW R, Buildable(M, R),
         NEW l, l = [i \in 1..Len(l) |-> l[i]], IsLockOf(l, M, R)
  PROVE  l = build_packset_lock(M, R)
<1> DEFINE P == DOMAIN M
           key == [p \in P |-> p]
           ids == [i \in 1..Len(l) |-> l[i].pack]
<1>1. Len(l) \in Nat /\ DOMAIN l = 1..Len(l)
      /\ \A i \in 1..Len(l) : l[i].pack \in P /\ l[i] = PackRecord(M, R, l[i].pack)
  BY DEF IsLockOf
<1>2. ids \in Seq(P) /\ DOMAIN ids = 1..Len(l) /\ \A i \in 1..Len(l) : ids[i] = l[i].pack
  BY <1>1
<1>3. \A p \in P : \E i \in DOMAIN ids : ids[i] = p
  BY <1>1, <1>2 DEF IsLockOf
<1>4. ASSUME NEW i \in DOMAIN ids, NEW j \in DOMAIN ids, i < j
      PROVE  key[ids[i]] < key[ids[j]]
  <2>1. l[i].pack < l[j].pack
    BY <1>1, <1>2, <1>4 DEF IsLockOf, Increasing
  <2> QED BY <1>1, <1>2, <2>1
<1>5. Keyed(P, key)
  BY PacksKeyed
<1> HIDE DEF ids, key, P
<1>6. Lists(ids, P, key)
  BY <1>2, <1>3, <1>4, <1>5, ListsBy
<1>7. ids = InOrder(P, key)
  BY <1>5, <1>6, ListsIsInOrder
<1>8. build_packset_lock(M, R) = [i \in DOMAIN ids |-> PackRecord(M, R, ids[i])]
  BY <1>7, BuiltIs DEF P, key
<1>9. [i \in DOMAIN ids |-> PackRecord(M, R, ids[i])] = [i \in 1..Len(l) |-> l[i]]
  BY <1>1, <1>2
<1> QED BY <1>8, <1>9

\* The lock of M validates against a catalog that is well formed exactly when
\* it holds the packs of M as they were.
LEMMA LockValidates ==
  ASSUME NEW M, IsManifests(M), M = [p \in DOMAIN M |-> M[p]], NEW R, Buildable(M, R),
         NEW l, IsLockOf(l, M, R), NEW C, _validate_catalog(C)
  PROVE  validate_packset_lock(l, C) <=> DOMAIN M \subseteq DOMAIN C /\ Sub(C, DOMAIN M) = M
<1> DEFINE P == DOMAIN M
           mounted == {l[i].pack : i \in DOMAIN l}
<1>1. \A i \in DOMAIN l :
        /\ l[i].pack \in P /\ l[i].revision = R[l[i].pack] /\ l[i].digest = M[l[i].pack]
        /\ l[i].deps = _resolved_dependencies(M[l[i].pack], P)
  BY DEF IsLockOf, PackRecord
<1>2. mounted = P
  BY <1>1 DEF IsLockOf
<1>3. ASSUME validate_packset_lock(l, C) PROVE P \subseteq DOMAIN C /\ Sub(C, P) = M
  <2>1. mounted \subseteq DOMAIN C /\ \A i \in DOMAIN l : l[i].digest = C[l[i].pack]
    BY <1>3 DEF validate_packset_lock
  <2>2. \A p \in P : C[p] = M[p]
    BY <1>1, <2>1 DEF IsLockOf
  <2>3. Sub(C, P) = [p \in P |-> M[p]]
    BY <2>2 DEF Sub
  <2> QED BY <1>2, <2>1, <2>3
<1>4. ASSUME P \subseteq DOMAIN C, Sub(C, P) = M PROVE validate_packset_lock(l, C)
  <2>1. \A p \in P : C[p] = M[p]
    BY <1>4 DEF Sub
  <2>2. \A p \in P : ~has_duplicate_dependency(M[p]) /\ M[p].deps \in Seq(Dependencies)
    BY DEF Buildable, validate_pack_dependency_graph, IsManifests
  <2>3. ASSUME NEW i \in DOMAIN l
        PROVE  /\ _validate_lock_record_shape(l[i])
               /\ \A j \in DOMAIN l[i].deps : l[i].deps[j].pack \in P
               /\ l[i].deps = _resolved_dependencies(C[l[i].pack], P)
               /\ l[i].digest = C[l[i].pack]
    <3>1. l[i].pack \in P /\ l[i].revision # ""
      BY <1>1 DEF Buildable
    <3>2. /\ Increasing(_resolved_dependencies(M[l[i].pack], P))
          /\ \A j \in DOMAIN _resolved_dependencies(M[l[i].pack], P) :
               _resolved_dependencies(M[l[i].pack], P)[j].pack \in P
      BY <2>2, <3>1, ResolvedIs
    <3> QED BY <1>1, <2>1, <3>1, <3>2 DEF _validate_lock_record_shape
  <2>4. l # <<>>
    <3>1. PICK p \in P : TRUE
      BY DEF Buildable
    <3>2. PICK i \in 1..Len(l) : l[i].pack = p
      BY <3>1 DEF IsLockOf
    <3>3. Len(l) # 0
      BY <3>2 DEF IsLockOf
    <3> QED BY <3>3
  <2>5. lock_is_well_formed(l)
    BY <2>3, <2>4 DEF lock_is_well_formed, IsLockOf
  <2>6. validate_pack_dependency_graph(Sub(C, P))
    BY <1>4 DEF Buildable
  <2> QED BY <1>2, <1>4, <2>3, <2>5, <2>6 DEF validate_packset_lock
<1> QED BY <1>3, <1>4

\* A lock that validates is what building its packs at its revisions gives.
LEMMA ValidIsTheBuilt ==
  ASSUME NEW C, IsManifests(C), _validate_catalog(C), NEW l \in Seq(LockRecords), l # Refused,
         NEW T, T = {l[i].pack : i \in DOMAIN l},
         NEW R, R = [p \in T |-> l[CHOOSE i \in DOMAIN l : l[i].pack = p].revision]
  PROVE  validate_packset_lock(l, C) <=>
           T \subseteq DOMAIN C /\ l = build_packset_lock(Sub(C, T), R)
<1> DEFINE M == Sub(C, T)
<1>1. DOMAIN M = T /\ M = [p \in DOMAIN M |-> M[p]] /\ \A p \in T : M[p] = C[p]
  BY DEF Sub
<1>2. ASSUME T \subseteq DOMAIN C PROVE IsManifests(M) /\ _validate_catalog(M)
  BY <1>1, <1>2 DEF IsManifests, _validate_catalog
<1>3. /\ Len(l) \in Nat /\ DOMAIN l = 1..Len(l) /\ l = [i \in 1..Len(l) |-> l[i]]
      /\ \A i \in DOMAIN l : l[i] \in LockRecords
  OBVIOUS
<1> HIDE DEF M
<1>4. ASSUME validate_packset_lock(l, C) PROVE T \subseteq DOMAIN C /\ l = build_packset_lock(M, R)
  <2>1. /\ lock_is_well_formed(l) /\ T \subseteq DOMAIN C
        /\ validate_pack_dependency_graph(M)
        /\ \A i \in DOMAIN l : /\ l[i].deps = _resolved_dependencies(C[l[i].pack], T)
                               /\ l[i].digest = C[l[i].pack]
    BY <1>4 DEF validate_packset_lock, M
  <2>2. /\ l # <<>> /\ Increasing(l) /\ \A i \in DOMAIN l : l[i].revision # ""
    BY <2>1 DEF lock_is_well_formed, _validate_lock_record_shape
  <2>3. \A i \in DOMAIN l : l[i].pack \in Int
    BY <1>3, PackAssumption DEF LockRecords
  <2>0. ASSUME NEW i \in DOMAIN l, NEW j \in DOMAIN l, l[i].pack = l[j].pack PROVE i = j
    <3>1. l[i].pack \in Int /\ l[j].pack \in Int
      BY <2>3
    <3>2. ~(i < j)
      <4> SUFFICES ASSUME i < j PROVE FALSE
        OBVIOUS
      <4>1. l[i].pack < l[j].pack
        BY <2>2 DEF Increasing
      <4> QED BY <2>0, <3>1, <4>1
    <3>3. ~(j < i)
      <4> SUFFICES ASSUME j < i PROVE FALSE
        OBVIOUS
      <4>1. l[j].pack < l[i].pack
        BY <2>2 DEF Increasing
      <4> QED BY <2>0, <3>1, <4>1
    <3> QED BY <1>3, <3>2, <3>3
  <2>4. ASSUME NEW i \in DOMAIN l PROVE l[i].pack \in T /\ R[l[i].pack] = l[i].revision
    <3> DEFINE p == l[i].pack
               j == CHOOSE j \in DOMAIN l : l[j].pack = p
    <3>1. j \in DOMAIN l /\ l[j].pack = p
      OBVIOUS
    <3>2. j = i
      <4> HIDE DEF j
      <4> QED BY <2>0, <3>1
    <3>3. p \in T
      OBVIOUS
    <3>4. R[p] = l[j].revision
      BY <3>3
    <3> QED BY <3>2, <3>3, <3>4
  <2>5. \A p \in T : \E i \in DOMAIN l : l[i].pack = p
    OBVIOUS
  <2>6. DOMAIN M # {}
    <3>1. Len(l) # 0
      BY <2>2, EmptySeq
    <3>2. 1 \in DOMAIN l
      BY <1>3, <3>1
    <3>3. l[1].pack \in T
      BY <2>4, <3>2
    <3> QED BY <1>1, <3>3
  <2>7. Buildable(M, R)
    <3>1. DOMAIN R = T
      OBVIOUS
    <3>2. \A p \in T : R[p] # ""
      BY <2>2, <2>4, <2>5
    <3> QED BY <1>1, <1>2, <2>1, <2>6, <3>1, <3>2 DEF Buildable
  <2>8. ASSUME NEW i \in DOMAIN l PROVE l[i] = PackRecord(M, R, l[i].pack)
    <3>1. l[i] \in LockRecords
      BY <1>3
    <3>2. l[i] = [pack |-> l[i].pack, revision |-> l[i].revision, digest |-> l[i].digest,
                  deps |-> l[i].deps]
      BY <3>1 DEF LockRecords
    <3>3. /\ l[i].revision = R[l[i].pack] /\ l[i].digest = M[l[i].pack]
          /\ l[i].deps = _resolved_dependencies(M[l[i].pack], DOMAIN M)
      BY <1>1, <2>1, <2>4
    <3> QED BY <3>2, <3>3 DEF PackRecord
  <2>9. IsLockOf(l, M, R)
    BY <1>1, <1>3, <2>2, <2>4, <2>5, <2>8 DEF IsLockOf
  <2> QED BY <1>2, <1>3, <2>1, <2>7, <2>9, LockIsTheBuilt
<1>5. ASSUME T \subseteq DOMAIN C, l = build_packset_lock(M, R) PROVE validate_packset_lock(l, C)
  <2>1. Buildable(M, R)
    BY <1>5 DEF build_packset_lock, Buildable
  <2>2. IsLockOf(l, M, R)
    BY <1>2, <1>5, <2>1, BuiltIs
  <2>3. DOMAIN M \subseteq DOMAIN C /\ Sub(C, DOMAIN M) = M
    BY <1>1, <1>5 DEF M
  <2> QED BY <1>1, <1>2, <1>5, <2>1, <2>2, <2>3, LockValidates
<1> QED BY <1>4, <1>5 DEF M

\* An edit of a lock file leaves records.
LEMMA EditedRecords ==
  ASSUME NEW l \in Seq(LockRecords), NEW i \in DOMAIN l, NEW e \in Edited(l, i)
  PROVE  e \in Seq(LockRecords)
<1>1. /\ Len(l) \in Nat /\ DOMAIN l = 1..Len(l) /\ l[i] \in LockRecords /\ i \in 1..Len(l)
      /\ \A r \in LockRecords : [l EXCEPT ![i] = r] \in Seq(LockRecords)
  OBVIOUS
<1>2. /\ l[i] = [pack |-> l[i].pack, revision |-> l[i].revision, digest |-> l[i].digest,
                 deps |-> l[i].deps]
      /\ l[i].pack \in PackIds /\ l[i].revision \in RevisionIds
      /\ l[i].digest \in UNION {Candidates[p] : p \in PackIds} /\ l[i].deps \in Seq(Dependencies)
  BY <1>1 DEF LockRecords
<1>3. CASE e = RemoveAt(l, i)
  <2>1. /\ SubSeq(l, 1, i - 1) \in Seq(LockRecords)
        /\ SubSeq(l, i + 1, Len(l)) \in Seq(LockRecords)
    <3>1. \A j \in 1..(i - 1) : l[j] \in LockRecords
      BY <1>1
    <3>2. \A j \in (i + 1)..Len(l) : l[j] \in LockRecords
      BY <1>1
    <3>3. i \in Int /\ i - 1 \in Int /\ i + 1 \in Int
      BY <1>1
    <3> QED BY <3>1, <3>2, <3>3, <1>1
  <2> QED BY <1>3, <2>1 DEF RemoveAt
<1>4. CASE \E r \in RevisionIds : e = [l EXCEPT ![i] = [l[i] EXCEPT !.revision = r]]
  <2>1. PICK r \in RevisionIds : e = [l EXCEPT ![i] = [l[i] EXCEPT !.revision = r]]
    BY <1>4
  <2>2. [l[i] EXCEPT !.revision = r] \in LockRecords
    BY <1>1 DEF LockRecords
  <2> QED BY <1>1, <2>1, <2>2
<1>5. CASE \E m \in Candidates[l[i].pack] : e = [l EXCEPT ![i] = [l[i] EXCEPT !.digest = m]]
  <2>1. PICK m \in Candidates[l[i].pack] : e = [l EXCEPT ![i] = [l[i] EXCEPT !.digest = m]]
    BY <1>5
  <2>2. m \in UNION {Candidates[p] : p \in PackIds}
    BY <1>2
  <2>3. [l[i] EXCEPT !.digest = m] \in LockRecords
    BY <1>1, <2>2 DEF LockRecords
  <2> QED BY <1>1, <2>1, <2>3
<1>6. ASSUME 1 \in DOMAIN l[i].deps, NEW deps \in Seq(Dependencies),
             e = [l EXCEPT ![i] = [l[i] EXCEPT !.deps = deps]]
      PROVE  e \in Seq(LockRecords)
  <2>1. [l[i] EXCEPT !.deps = deps] \in LockRecords
    BY <1>1 DEF LockRecords
  <2> QED BY <1>1, <1>6, <2>1
<1>7. CASE 1 \in DOMAIN l[i].deps /\ e = [l EXCEPT ![i] = [l[i] EXCEPT !.deps = Tail(l[i].deps)]]
  <2>1. l[i].deps # <<>>
    <3>1. Len(l[i].deps) # 0
      BY <1>2, <1>7
    <3> QED BY <3>1
  <2>2. Tail(l[i].deps) \in Seq(Dependencies)
    BY <1>2, <2>1
  <2> QED BY <1>6, <1>7, <2>2
<1>8. ASSUME 1 \in DOMAIN l[i].deps,
             e = [l EXCEPT ![i] = [l[i] EXCEPT !.deps =
                    [l[i].deps EXCEPT ![1] = [pack |-> l[i].deps[1].pack,
                                              required |-> ~l[i].deps[1].required]]]]
      PROVE  e \in Seq(LockRecords)
  <2> DEFINE s == l[i].deps
             d == [pack |-> s[1].pack, required |-> ~s[1].required]
  <2>1. s \in Seq(Dependencies) /\ s[1] \in Dependencies
    BY <1>2, <1>8
  <2>2. d \in Dependencies
    <3>1. (~s[1].required) \in BOOLEAN
      OBVIOUS
    <3> QED BY <2>1, <3>1 DEF Dependencies
  <2>3. [s EXCEPT ![1] = d] \in Seq(Dependencies)
    <3>1. Len(s) \in Nat /\ 1 \in 1..Len(s)
      BY <1>2, <1>8
    <3> HIDE DEF s, d
    <3>2. Len([s EXCEPT ![1] = d]) = Len(s) /\ [s EXCEPT ![1] = d] \in Seq(Dependencies)
      BY <2>1, <2>2, <3>1
    <3> QED BY <3>2
  <2> QED BY <1>6, <1>8, <2>3
<1> QED BY <1>3, <1>4, <1>5, <1>7, <1>8 DEF Edited

LEMMA BuiltRecords ==
  ASSUME NEW M, IsManifests(M), \A p \in DOMAIN M : M[p] \in Candidates[p],
         NEW R, \A p \in DOMAIN R : R[p] \in RevisionIds, Buildable(M, R)
  PROVE  build_packset_lock(M, R) \in Seq(LockRecords)
<1> DEFINE l == build_packset_lock(M, R)
           ids == InOrder(DOMAIN M, [p \in DOMAIN M |-> p])
<1>1. l = [i \in DOMAIN ids |-> PackRecord(M, R, ids[i])] /\ IsLockOf(l, M, R)
  BY BuiltIs
<1> HIDE DEF l, ids
<1>2. Len(l) \in Nat /\ DOMAIN l = 1..Len(l) /\ DOMAIN ids = 1..Len(l)
      /\ \A i \in DOMAIN l : l[i].pack \in DOMAIN M /\ l[i] = PackRecord(M, R, l[i].pack)
  BY <1>1 DEF IsLockOf
<1>3. ASSUME NEW p \in DOMAIN M PROVE PackRecord(M, R, p) \in LockRecords
  <2>1. /\ p \in PackIds /\ R[p] \in RevisionIds
        /\ M[p] \in UNION {Candidates[q] : q \in PackIds}
    BY DEF IsManifests, Buildable
  <2>2. _resolved_dependencies(M[p], DOMAIN M) \in Seq(Dependencies)
    BY ResolvedIs DEF IsManifests, Buildable, validate_pack_dependency_graph
  <2> QED BY <2>1, <2>2 DEF PackRecord, LockRecords
<1>4. l = [i \in 1..Len(l) |-> l[i]]
  BY <1>1, <1>2
<1>5. \A i \in 1..Len(l) : l[i] \in LockRecords
  BY <1>2, <1>3
<1>6. \A n \in Nat : [i \in 1..n |-> l[i]] \in [1..n -> LockRecords]
                       => [i \in 1..n |-> l[i]] \in Seq(LockRecords)
  OBVIOUS
<1> QED BY <1>2, <1>4, <1>5, <1>6 DEF l

IsPublished(c) == DOMAIN c \subseteq PackIds /\ \A p \in DOMAIN c : c[p] \in Candidates[p]

\* The lock file holds records; one nobody edited is the list of those frozen.
PacksInv ==
  /\ IsPublished(catalog) /\ edits \in Nat
  /\ lock # Refused => lock \in Seq(LockRecords)
  /\ lock # Refused /\ edits = 0 =>
       /\ IsManifests(frozen.manifests)
       /\ frozen.manifests = [p \in DOMAIN frozen.manifests |-> frozen.manifests[p]]
       /\ Buildable(frozen.manifests, frozen.revisions)
       /\ IsLockOf(lock, frozen.manifests, frozen.revisions)

LEMMA PublishedAre ==
  ASSUME NEW c, IsPublished(c), NEW S \in SUBSET DOMAIN c
  PROVE  IsManifests(c) /\ IsManifests(Sub(c, S)) /\ IsPublished(Sub(c, S))
BY PackAssumption DEF IsPublished, IsManifests, Sub

LEMMA PacksInvHolds == PackSpec => []PacksInv
<1>1. PackInit => PacksInv
  BY DEF PackInit, PacksInv, IsPublished
<1>2. ASSUME PacksInv, [PackNext]_pvars PROVE PacksInv'
  <2> USE DEF PacksInv
  <2>1. ASSUME NEW p \in PackIds, NEW m \in Candidates[p], PublishManifest(p, m) PROVE PacksInv'
    <3>1. IsPublished(catalog)'
      BY <1>2, <2>1 DEF PublishManifest, IsPublished
    <3> QED BY <1>2, <2>1, <3>1 DEF PublishManifest
  <2>2. ASSUME NEW p \in DOMAIN catalog, Withdraw(p) PROVE PacksInv'
    <3>1. IsPublished(catalog)'
      BY <1>2, <2>2 DEF Withdraw, IsPublished, Sub
    <3> QED BY <1>2, <2>2, <3>1 DEF Withdraw
  <2>3. ASSUME NEW mounted \in SUBSET DOMAIN catalog, NEW r \in RevisionIds, NEW S,
               BuildLock(mounted, [p \in S |-> r])
        PROVE  PacksInv'
    <3> DEFINE M == Sub(catalog, mounted)
               R == [p \in S |-> r]
    <3>1. /\ lock' = build_packset_lock(M, R) /\ lock' # Refused
          /\ frozen' = [manifests |-> M, revisions |-> R]
          /\ UNCHANGED <<catalog, edits>>
      BY <2>3 DEF BuildLock
    <3>2. IsManifests(M) /\ IsPublished(M) /\ M = [p \in DOMAIN M |-> M[p]]
      BY <1>2, PublishedAre DEF Sub
    <3> HIDE DEF M
    <3>3. \A p \in DOMAIN R : R[p] \in RevisionIds
      OBVIOUS
    <3> HIDE DEF R
    <3>4. Buildable(M, R)
      BY <3>1 DEF build_packset_lock, Buildable
    <3>5. IsLockOf(lock', M, R)
      BY <3>1, <3>2, <3>4, BuiltIs
    <3>6. lock' \in Seq(LockRecords)
      BY <3>1, <3>2, <3>3, <3>4, BuiltRecords DEF IsPublished
    <3>7. frozen'.manifests = M /\ frozen'.revisions = R
      BY <3>1
    <3> QED BY <1>2, <3>1, <3>2, <3>4, <3>5, <3>6, <3>7
  <2>4. ASSUME EditLock PROVE PacksInv'
    <3>1. PICK i \in DOMAIN lock : \E e \in Edited(lock, i) : lock' = e
      BY <2>4 DEF EditLock
    <3>2. lock' \in Seq(LockRecords)
      BY <1>2, <2>4, <3>1, EditedRecords DEF EditLock
    <3>3. edits' \in Nat /\ edits' # 0 /\ catalog' = catalog
      BY <1>2, <2>4 DEF EditLock
    <3> QED BY <1>2, <3>2, <3>3
  <2>5. CASE UNCHANGED pvars
    BY <1>2, <2>5 DEF pvars
  <2>6. CASE PackNext
    BY <2>1, <2>2, <2>3, <2>4, <2>6 DEF PackNext
  <2> QED BY <1>2, <2>5, <2>6
<1> QED BY <1>1, <1>2, PTL DEF PackSpec

\* A pack set means one thing: validate_pack_dependency_graph accepts exactly
\* the acyclic, layered and complete sets, and validate_packset_lock accepts a
\* lock exactly when build_packset_lock would give it today.
THEOREM OnePackSet == PackSpec => []PackSetIsExact
<1>1. ASSUME PacksInv PROVE PackSetIsExact
  <2>1. IsManifests(catalog)
    BY <1>1, PublishedAre DEF PacksInv
  <2>2. GraphLawIsExact
    BY <2>1, GraphLaw DEF GraphLawIsExact
  <2>3. ASSUME lock # Refused, edits = 0
        PROVE  validate_packset_lock(lock, catalog) <=>
                 /\ _validate_catalog(catalog)
                 /\ DOMAIN frozen.manifests \subseteq DOMAIN catalog
                 /\ Sub(catalog, DOMAIN frozen.manifests) = frozen.manifests
    <3>1. validate_packset_lock(lock, catalog) => _validate_catalog(catalog)
      BY DEF validate_packset_lock
    <3>2. _validate_catalog(catalog) =>
            (validate_packset_lock(lock, catalog) <=>
               /\ DOMAIN frozen.manifests \subseteq DOMAIN catalog
               /\ Sub(catalog, DOMAIN frozen.manifests) = frozen.manifests)
      BY <1>1, <2>3, LockValidates DEF PacksInv
    <3> QED BY <3>1, <3>2
  <2>4. LockFreezesMeaning
    BY <2>3 DEF LockFreezesMeaning
  <2>5. ValidLockIsARebuild
    BY <1>1, <2>1, ValidIsTheBuilt DEF ValidLockIsARebuild, PacksInv
  <2> QED BY <2>2, <2>4, <2>5 DEF PackSetIsExact
<1> QED BY <1>1, PacksInvHolds, PTL
=============================================================================
