------------------------- MODULE SubscriptionsProofs -------------------------
(***************************************************************************)
(* Proofs about Subscriptions for any topics, any number of threads that   *)
(* register them and any length of the message queue.                      *)
(***************************************************************************)
EXTENDS Subscriptions, FiniteSetTheorems, SequenceTheorems, TLAPS

-----------------------------------------------------------------------------
(* Facts about the topic list *)

(* A set of indices has a least one: the CHOOSE of First has a value       *)
(* (topic.c 51-67).                                                        *)
LEMMA Least ==
  ASSUME NEW n \in Nat, NEW T \in SUBSET (1 .. n), T # {}
  PROVE  \E x \in T : \A y \in T : x <= y
<1> DEFINE C == {1 .. i : i \in T}
<1>1. IsWellFoundedOn(StrictSubsetOrdering(1 .. n), SUBSET (1 .. n))
  <2>1. IsFiniteSet(1 .. n)
    BY FS_Interval
  <2> QED BY <2>1, FS_StrictSubsetOrderingWellFounded, FS_FiniteSubsetsOfFinite
<1>2. C \subseteq SUBSET (1 .. n) /\ C # {}
  <2>1. \A i \in T : 1 .. i \subseteq 1 .. n
    OBVIOUS
  <2> QED BY <2>1, Zenon
<1>3. PICK X \in C : \A Y \in C : <<Y, X>> \notin StrictSubsetOrdering(1 .. n)
  <2> HIDE DEF C
  <2> QED BY <1>1, <1>2, WFMin
<1>4. PICK x \in T : X = 1 .. x
  OBVIOUS
<1>5. ASSUME NEW y \in T, y < x PROVE FALSE
  <2>1. 1 .. y \in C /\ 1 .. y \subseteq 1 .. x /\ x \in 1 .. x /\ x \notin 1 .. y
    BY <1>5
  <2> QED BY <1>2, <1>3, <1>4, <2>1 DEF StrictSubsetOrdering
<1> QED BY <1>5

(* And a greatest one: the CHOOSE of Found has a value (topic.c 95-116).   *)
LEMMA Greatest ==
  ASSUME NEW n \in Nat, NEW T \in SUBSET (1 .. n), T # {}
  PROVE  \E x \in T : \A y \in T : y <= x
<1> DEFINE U == {n + 1 - i : i \in T}
<1>1. PICK u \in U : \A v \in U : u <= v
  <2>1. PICK t \in T : TRUE
    OBVIOUS
  <2>2. n + 1 - t \in U
    OBVIOUS
  <2>3. \A v \in U : v \in 1 .. n
    OBVIOUS
  <2>4. U \in SUBSET (1 .. n) /\ U # {}
    <3> HIDE DEF U
    <3> QED BY <2>2, <2>3, SMTT(30)
  <2> HIDE DEF U
  <2> QED BY <2>4, Least
<1> QED BY <1>1

(* topic_remove takes out the first entry of a name (topic.c 51-75).       *)
LEMMA FirstEntry ==
  ASSUME NEW l \in Seq(Topics), NEW u \in ToSet(l)
  PROVE  /\ First(l, u) \in 1 .. Len(l)
         /\ l[First(l, u)] = u
<1> DEFINE T == {i \in 1 .. Len(l) : l[i] = u}
<1>1. PICK x \in T : \A y \in T : x <= y
  <2>1. T \in SUBSET (1 .. Len(l)) /\ T # {} /\ Len(l) \in Nat
    BY DEF ToSet
  <2> HIDE DEF T
  <2> QED BY <2>1, Least
<1>2. \E i \in DOMAIN l : l[i] = u /\ \A j \in 1 .. i - 1 : l[j] # u
  BY <1>1
<1> QED BY <1>2 DEF First

LEMMA RemoveOne ==
  ASSUME NEW l \in Seq(Topics), NEW k \in 1 .. Len(l)
  PROVE  /\ RemoveAt(l, k) \in Seq(Topics)
         /\ Len(RemoveAt(l, k)) = Len(l) - 1
         /\ \A i \in 1 .. Len(l) - 1 :
              RemoveAt(l, k)[i] = IF i < k THEN l[i] ELSE l[i + 1]
<1> DEFINE a == SubSeq(l, 1, k - 1)
           b == SubSeq(l, k + 1, Len(l))
<1>1. /\ a \in Seq(Topics) /\ Len(a) = k - 1
      /\ \A i \in 1 .. k - 1 : a[i] = l[i]
  <2>1. 1 \in Int /\ k - 1 \in Int /\ \A i \in 1 .. k - 1 : l[i] \in Topics
    OBVIOUS
  <2> QED BY <2>1, SubSeqProperties, Z3
<1>2. /\ b \in Seq(Topics) /\ Len(b) = Len(l) - k
      /\ \A i \in 1 .. Len(l) - k : b[i] = l[k + i]
  <2>1. k + 1 \in Int /\ Len(l) \in Int /\ \A i \in k + 1 .. Len(l) : l[i] \in Topics
    OBVIOUS
  <2> QED BY <2>1, SubSeqProperties, Z3
<1>3. RemoveAt(l, k) = a \o b
  BY DEF RemoveAt
<1> HIDE DEF a, b
<1>4. /\ a \o b \in Seq(Topics)
      /\ Len(a \o b) = Len(a) + Len(b)
      /\ \A i \in 1 .. Len(a) + Len(b) :
           (a \o b)[i] = IF i <= Len(a) THEN a[i] ELSE b[i - Len(a)]
  BY <1>1, <1>2, ConcatProperties
<1> QED BY <1>1, <1>2, <1>3, <1>4

(* No internal topic has two entries. *)
Single(l) == \A i, j \in DOMAIN l : l[i] = l[j] /\ l[i] \notin Custom => i = j

LEMMA RemovedEntry ==
  ASSUME NEW l \in Seq(Topics), NEW k \in 1 .. Len(l)
  PROVE  /\ ToSet(RemoveAt(l, k)) \subseteq ToSet(l)
         /\ ToSet(l) \ {l[k]} \subseteq ToSet(RemoveAt(l, k))
         /\ Single(l) => Single(RemoveAt(l, k))
         /\ Single(l) /\ l[k] \notin Custom => l[k] \notin ToSet(RemoveAt(l, k))
<1> DEFINE r == RemoveAt(l, k)
<1>1. /\ r \in Seq(Topics) /\ Len(r) = Len(l) - 1
      /\ \A i \in 1 .. Len(l) - 1 : r[i] = IF i < k THEN l[i] ELSE l[i + 1]
  BY RemoveOne
<1> HIDE DEF r
<1>2. ToSet(r) \subseteq ToSet(l)
  BY <1>1 DEF ToSet
<1>3. ASSUME NEW v \in ToSet(l), v # l[k] PROVE v \in ToSet(r)
  <2>1. PICK i \in 1 .. Len(l) : l[i] = v
    BY DEF ToSet
  <2>2. i # k
    BY <1>3, <2>1
  <2>3. CASE i < k
    <3>1. i \in 1 .. Len(r) /\ r[i] = v
      BY <1>1, <2>1, <2>3
    <3> QED BY <3>1, <1>1 DEF ToSet
  <2>4. CASE i > k
    <3>1. i - 1 \in 1 .. Len(r) /\ r[i - 1] = v
      BY <1>1, <2>1, <2>4
    <3> QED BY <3>1, <1>1 DEF ToSet
  <2> QED BY <2>2, <2>3, <2>4
<1>4. ASSUME Single(l) PROVE Single(r)
  <2> SUFFICES ASSUME NEW i \in 1 .. Len(r), NEW j \in 1 .. Len(r),
                      r[i] = r[j], r[i] \notin Custom
               PROVE  i = j
    BY <1>1 DEF Single
  <2> DEFINE at(x) == IF x < k THEN x ELSE x + 1
  <2>1. at(i) \in DOMAIN l /\ at(j) \in DOMAIN l /\ l[at(i)] = r[i] /\ l[at(j)] = r[j]
    BY <1>1
  <2>2. at(i) = at(j)
    <3> HIDE DEF at
    <3> QED BY <1>4, <2>1 DEF Single
  <2> QED BY <1>1, <2>2
<1>5. ASSUME Single(l), l[k] \notin Custom PROVE l[k] \notin ToSet(r)
  BY <1>5, <1>1, SMTT(30) DEF Single, ToSet
<1> QED BY <1>2, <1>3, <1>4, <1>5 DEF r

(* An entry linked behind position k is the last one (topic.c 40-47).      *)
LEMMA LinkedEntry ==
  ASSUME NEW S, NEW l \in Seq(S), NEW u \in S, NEW k \in Gone .. Len(l), k # Gone
  PROVE  /\ Linked(l, k, u) \in Seq(S)
         /\ Len(Linked(l, k, u)) = k + 1
         /\ \A i \in 1 .. k : Linked(l, k, u)[i] = l[i]
         /\ Linked(l, k, u)[k + 1] = u
<1> DEFINE a == SubSeq(l, 1, k)
<1>1. k \in 0 .. Len(l)
  BY DEF Gone
<1>2. a \in Seq(S) /\ Len(a) = k /\ \A i \in 1 .. k : a[i] = l[i]
  <2>1. 1 \in Int /\ k \in Int /\ \A i \in 1 .. k : l[i] \in S
    BY <1>1
  <2> QED BY <1>1, <2>1, SubSeqProperties, Z3
<1>3. Linked(l, k, u) = Append(a, u)
  BY DEF Linked
<1> HIDE DEF a
<1>4. /\ Append(a, u) \in Seq(S) /\ Len(Append(a, u)) = Len(a) + 1
      /\ \A i \in 1 .. Len(a) : Append(a, u)[i] = a[i]
      /\ Append(a, u)[Len(a) + 1] = u
  BY <1>2, AppendProperties
<1> QED BY <1>1, <1>2, <1>3, <1>4

LEMMA LinkedEntries ==
  ASSUME NEW S, NEW l \in Seq(S), NEW u \in S, NEW k \in Gone .. Len(l)
  PROVE  /\ Linked(l, k, u) \in Seq(S)
         /\ ToSet(Linked(l, k, u)) \subseteq ToSet(l) \cup {u}
<1>1. CASE k = Gone
  BY <1>1 DEF Linked
<1>2. CASE k # Gone
  <2> DEFINE n == Linked(l, k, u)
  <2>1. /\ n \in Seq(S) /\ Len(n) = k + 1 /\ k \in 0 .. Len(l)
        /\ \A i \in 1 .. k : n[i] = l[i]
        /\ n[k + 1] = u
    BY <1>2, LinkedEntry DEF Gone
  <2> HIDE DEF n
  <2>2. ASSUME NEW i \in 1 .. k + 1 PROVE n[i] \in ToSet(l) \cup {u}
    BY <2>1 DEF ToSet
  <2>3. ToSet(n) \subseteq ToSet(l) \cup {u}
    BY <2>1, <2>2 DEF ToSet
  <2> QED BY <2>1, <2>3 DEF n
<1> QED BY <1>1, <1>2

LEMMA LinkedSingle ==
  ASSUME NEW l \in Seq(Topics), NEW u \in Topics, NEW k \in Gone .. Len(l),
         Single(l), u \in Custom \/ u \notin ToSet(l)
  PROVE  Single(Linked(l, k, u))
<1>1. CASE k = Gone
  BY <1>1 DEF Linked
<1>2. CASE k # Gone
  <2> DEFINE n == Linked(l, k, u)
  <2>1. /\ n \in Seq(Topics) /\ Len(n) = k + 1 /\ k \in 0 .. Len(l)
        /\ \A i \in 1 .. k : n[i] = l[i]
        /\ n[k + 1] = u
    BY <1>2, LinkedEntry DEF Gone
  <2> HIDE DEF n
  <2>2. \A i \in 1 .. k : i \in DOMAIN l
    BY <2>1
  <2>3. \A i \in 1 .. k : u \notin Custom => n[i] # u
    BY <2>1, <2>2 DEF ToSet
  <2>4. Single(n)
    BY <2>1, <2>2, <2>3 DEF Single
  <2> QED BY <2>4 DEF n
<1> QED BY <1>1, <1>2

(* What is cut off a list is not forgotten. *)
LEMMA CutOffKept ==
  ASSUME NEW cut, NEW l, NEW u, NEW n
  PROVE  cut \cup ToSet(l) \cup {u} \subseteq ToSet(n) \cup CutOff(cut, l, u, n)
BY DEF CutOff

(* Positions are those of the same entries when the list has changed, or   *)
(* Gone.                                                                   *)
LEMMA PositionsLinked ==
  ASSUME NEW S, NEW l \in Seq(S), NEW u \in S,
         NEW k \in Gone .. Len(l), NEW p \in Gone .. Len(l)
  PROVE  /\ AfterLink(p, k) \in Gone .. Len(Linked(l, k, u))
         /\ AfterLink(p, k) \in {p, Gone}
         /\ p >= 1 /\ AfterLink(p, k) # Gone => Linked(l, k, u)[p] = l[p]
<1>1. CASE k = Gone
  BY <1>1 DEF Linked, AfterLink
<1>2. CASE k # Gone
  <2>1. /\ Len(Linked(l, k, u)) = k + 1 /\ k \in 0 .. Len(l)
        /\ \A i \in 1 .. k : Linked(l, k, u)[i] = l[i]
    BY <1>2, LinkedEntry DEF Gone
  <2> DEFINE n == Linked(l, k, u)
  <2> HIDE DEF n
  <2>2. /\ Len(n) = k + 1 /\ \A i \in 1 .. k : n[i] = l[i]
    BY <2>1 DEF n
  <2>3. /\ AfterLink(p, k) \in Gone .. Len(n)
        /\ AfterLink(p, k) \in {p, Gone}
        /\ p >= 1 /\ AfterLink(p, k) # Gone => n[p] = l[p]
    BY <2>1, <2>2 DEF AfterLink, Gone
  <2> QED BY <2>3 DEF n
<1> QED BY <1>1, <1>2

LEMMA PositionsUnlinked ==
  ASSUME NEW l \in Seq(Topics), NEW i \in 1 .. Len(l), NEW p \in Gone .. Len(l)
  PROVE  /\ AfterUnlink(p, i) \in Gone .. Len(RemoveAt(l, i))
         /\ p >= 1 /\ AfterUnlink(p, i) # Gone =>
              /\ AfterUnlink(p, i) >= 1
              /\ RemoveAt(l, i)[AfterUnlink(p, i)] = l[p]
<1> DEFINE r == RemoveAt(l, i)
<1>1. /\ r \in Seq(Topics) /\ Len(r) = Len(l) - 1
      /\ \A j \in 1 .. Len(l) - 1 : r[j] = IF j < i THEN l[j] ELSE l[j + 1]
  BY RemoveOne
<1> HIDE DEF r
<1>2. /\ AfterUnlink(p, i) \in Gone .. Len(r)
      /\ p >= 1 /\ AfterUnlink(p, i) # Gone =>
           AfterUnlink(p, i) >= 1 /\ r[AfterUnlink(p, i)] = l[p]
  BY <1>1 DEF AfterUnlink, Gone
<1> QED BY <1>2 DEF r

(* An entry alone in the list is found by the names it is for. *)
LEMMA FoundAlone ==
  ASSUME NEW u \in Topics, NEW n
  PROVE  Found(<<u>>, n) = u <=> n = u \/ (u \in DOMAIN Covers /\ n \in Covers[u])
<1>1. ToSet(<<u>>) = {u}
  BY DEF ToSet
<1>2. Matching(<<u>>, n) = IF u \in DOMAIN Covers /\ n \in Covers[u] THEN {1} ELSE {}
  BY DEF Matching
<1>3. u # None
  BY TopicsAssumption
<1> QED BY <1>1, <1>2, <1>3 DEF Found

(* topic_find finds an entry if there is one for the name, and a custom    *)
(* topic only under its own name (topic.c 77-130).                         *)
LEMMA FoundEntry ==
  ASSUME NEW l \in Seq(Topics), NEW n
  PROVE  /\ Found(l, n) \in ToSet(l) \cup {None}
         /\ n \in ToSet(l) => Found(l, n) # None
         /\ \A u \in ToSet(l) : Found(<<u>>, n) = u => Found(l, n) # None
         /\ Found(l, n) \in Custom => Found(l, n) = n /\ n \in ToSet(l)
<1>1. ToSet(l) \subseteq Topics /\ None \notin Topics
  BY TopicsAssumption DEF ToSet
<1>2. CASE n \in ToSet(l)
  BY <1>1, <1>2 DEF Found
<1>3. CASE n \notin ToSet(l) /\ Matching(l, n) = {}
  <2>1. ASSUME NEW u \in ToSet(l), Found(<<u>>, n) = u PROVE FALSE
    <3>1. u \in DOMAIN Covers /\ n \in Covers[u]
      BY <1>1, <1>3, <2>1, FoundAlone
    <3> QED BY <1>3, <3>1 DEF Matching, ToSet
  <2>2. Found(l, n) = None
    BY <1>3 DEF Found
  <2>3. None \notin Custom
    BY <1>1 DEF Topics
  <2> QED BY <1>3, <2>1, <2>2, <2>3
<1>4. CASE n \notin ToSet(l) /\ Matching(l, n) # {}
  <2> DEFINE k == CHOOSE i \in Matching(l, n) : \A j \in Matching(l, n) : j <= i
  <2>1. \E i \in Matching(l, n) : \A j \in Matching(l, n) : j <= i
    <3>1. Matching(l, n) \in SUBSET (1 .. Len(l)) /\ Len(l) \in Nat
      BY DEF Matching
    <3> QED BY <1>4, <3>1, Greatest
  <2>2. k \in Matching(l, n)
    BY <2>1
  <2>3. Found(l, n) = l[k]
    BY <1>4 DEF Found
  <2> HIDE DEF k
  <2>4. l[k] \in ToSet(l) /\ l[k] \in DOMAIN Covers
    BY <2>2 DEF Matching, ToSet
  <2>5. l[k] \notin Custom
    BY <2>4, TopicsAssumption
  <2> QED BY <1>1, <1>4, <2>3, <2>4, <2>5
<1> QED BY <1>2, <1>3, <1>4
-----------------------------------------------------------------------------
(* The inductive invariant *)

(* A topic that is served is listed, cut off or being added, whatever is   *)
(* served.                                                                 *)
Kept(u) == u \in ToSet(list) \cup lost \/ \E t \in Threads : Adding(t, u)

(* The manager has u in its list, had it there or is about to. *)
Known(u) == u \in ToSet(managed) \cup forgotten \/ \E r \in Registrars : Recording(r, u)

Awaited(m) == m.swept \/ \E u \in Topics : Found(<<u>>, m.name) = u /\ Kept(u)

(* The caller is at the list, its hang-up is over. *)
Sweeping == api \in {"first", "sweeping", "removing"}

SessionInv ==
  /\ ~loop => ~session /\ place[Loop] = "idle"
  /\ ~session => served = {}
  /\ Sweeping => ~loop

PlaceInv ==
  /\ place[Loop] \notin {"look", "record", "recording"}
  /\ \A r \in Registrars : place[r] # "report"

(* The entry a thread has walked to is one of its topic, and the sweep is  *)
(* at the first entry, as long as nobody else has removed them.            *)
MarkInv ==
  \A t \in Threads :
    place[t] = "unlink" /\ mark[t] # Gone => mark[t] >= 1 /\ list[mark[t]] = Current(t)
SweepInv ==
  Sweeps => /\ sweep.iter \in {Gone, 1}
            /\ sweep.iter = 1 => sweep.next \in {Gone, 0, 2}

(* The entry the loop thread replaces is gone when it adds the new one. *)
ReplacedInv == place[Loop] \in {"add", "link"} => Current(Loop) \notin ToSet(list)

KnownInv == \A u \in Custom : u \in ToSet(list) => Known(u)

(* What comes after the entry the sweep takes for the last one was added   *)
(* by threads of the handler.                                              *)
SweptInv ==
  /\ api = "idle" /\ ~loop => ToSet(list) \subseteq Custom
  /\ api = "removing" /\ sweep.iter = 1 /\ sweep.next = 0 =>
       \A i \in 2 .. Len(list) : list[i] \in Custom

MarkedInv ==
  Sweeping =>
    /\ \A i \in DOMAIN queue : queue[i].swept
    /\ hand # Nothing => hand.message.swept

AwaitedInv ==
  /\ \A i \in DOMAIN queue : Awaited(queue[i])
  /\ hand.at = "finding" => Awaited(hand.message)

HandInv == hand.at \in {"custom", "manager"} => Known(hand.message.name)

IInv ==
  /\ TypeOK /\ SessionInv /\ PlaceInv /\ MarkInv /\ SweepInv
  /\ ServedIsListed /\ OneInternalEntry /\ ReplacedInv
  /\ KnownInv /\ SweptInv
  /\ MarkedInv /\ AwaitedInv /\ HandInv
-----------------------------------------------------------------------------
(* Types *)

(* What the threads are at is well typed. *)
ThreadsOK ==
  /\ place \in [Threads -> Places]
  /\ todo \in [Threads -> Seq(Topics)]
  /\ todo[Loop] \in Seq(ToSet(Internal))
  /\ \A r \in Registrars : todo[r] \in Seq(Custom)
  /\ \A t \in Threads : place[t] \in {"idle", "report"} <=> todo[t] = <<>>

Active ==
  {"look", "subscribe", "find", "remove", "unlink", "add", "link", "record", "recording"}

(* And so are the lists and the positions in them. *)
ListsOK ==
  /\ list \in Seq(Topics) /\ lost \subseteq Topics
  /\ managed \in Seq(Custom) /\ forgotten \subseteq Custom
  /\ mark \in [Threads -> Gone .. Len(list)]
  /\ tail \in [Registrars -> Gone .. Len(managed)]
  /\ sweep \in [iter : Gone .. Len(list), next : Gone .. Len(list)]
  /\ broken \in BOOLEAN

OthersOK ==
  /\ {loop, session} \subseteq BOOLEAN
  /\ served \subseteq Topics
  /\ api \in {"idle", "hanging_up", "first", "sweeping", "removing"}
  /\ queue \in Seq(Messages) /\ Len(queue) <= Slots
  /\ hand \in Hands \cup {Nothing}
  /\ outcome \in {"none", "handled", "dropped"}

LEMMA TypeParts == TypeOK <=> ThreadsOK /\ ListsOK /\ OthersOK
BY DEF TypeOK, ThreadsOK, ListsOK, OthersOK

(* A thread that is at a topic has one, of its own kind. *)
LEMMA CurrentTopic ==
  ASSUME ThreadsOK, NEW t \in Threads, place[t] \in Active
  PROVE  /\ Current(t) \in Topics
         /\ t = Loop => Current(t) \in ToSet(Internal)
         /\ t \in Registrars => Current(t) \in Custom
<1>1. todo[t] # <<>> /\ todo[t] \in Seq(Topics)
  BY DEF ThreadsOK, Active
<1>2. ASSUME NEW S, todo[t] \in Seq(S) PROVE Current(t) \in S
  BY <1>1, <1>2 DEF Current
<1> QED BY <1>1, <1>2 DEF ThreadsOK

(* A topic that is done with leaves the thread well typed. *)
LEMMA NextTopicTypes ==
  ASSUME ThreadsOK, NEW t \in Threads, place[t] \in Active,
         NEW p \in Active, NextTopic(t, p)
  PROVE  ThreadsOK'
<1> DEFINE q == IF Len(todo[t]) > 1 THEN p ELSE IF t = Loop THEN "report" ELSE "idle"
<1>1. place' = [place EXCEPT ![t] = q] /\ todo' = [todo EXCEPT ![t] = Tail(todo[t])]
  BY DEF NextTopic, Go, ThreadsOK
<1>2. todo[t] # <<>>
  BY DEF ThreadsOK, Active
<1>3. ASSUME NEW S, todo[t] \in Seq(S)
      PROVE  Tail(todo[t]) \in Seq(S) /\ Len(Tail(todo[t])) = Len(todo[t]) - 1
  BY <1>2, <1>3, HeadTailProperties, Zenon
<1>4. Tail(todo[t]) = <<>> <=> Len(todo[t]) <= 1
  <2>1. todo[t] \in Seq(Topics) /\ Tail(todo[t]) \in Seq(Topics)
    BY <1>3 DEF ThreadsOK
  <2>2. Tail(todo[t]) = <<>> <=> Len(Tail(todo[t])) = 0
    BY <2>1, EmptySeq
  <2>3. Len(todo[t]) \in Nat /\ Len(Tail(todo[t])) = Len(todo[t]) - 1 /\ Len(todo[t]) # 0
    BY <1>2, <1>3, <2>1, EmptySeq
  <2> DEFINE rest == Tail(todo[t])
  <2> HIDE DEF rest
  <2>4. (rest = <<>>) = (Len(rest) = 0) /\ Len(rest) = Len(todo[t]) - 1
    BY <2>2, <2>3 DEF rest
  <2>5. Len(rest) = 0 <=> Len(todo[t]) <= 1
    BY <2>3, <2>4
  <2> QED BY <2>4, <2>5, Zenon DEF rest
<1>5. q \in Places /\ (q \in {"idle", "report"} <=> Tail(todo[t]) = <<>>)
  <2>1. Len(todo[t]) \in Nat
    BY DEF ThreadsOK
  <2> QED BY <1>4, <2>1 DEF Places, Active
<1> HIDE DEF q
<1> QED BY <1>1, <1>3, <1>5 DEF ThreadsOK, Threads

(* So does a step to another place with the same topic. *)
LEMMA GoTypes ==
  ASSUME ThreadsOK, NEW t \in Threads, place[t] \in Active,
         NEW p \in Active, Go(t, p), todo' = todo
  PROVE  ThreadsOK'
<1>1. place' = [place EXCEPT ![t] = p] /\ todo' = todo
  BY DEF Go
<1>2. p \in Places /\ p \notin {"idle", "report"} /\ place[t] \notin {"idle", "report"}
  BY DEF Active, Places
<1> QED BY <1>1, <1>2 DEF ThreadsOK, Threads

(* And the start of a thread with topics of its kind. *)
LEMMA StartTypes ==
  ASSUME ThreadsOK, NEW t \in Threads, NEW p \in Active, Go(t, p),
         NEW topics \in Seq(Topics), topics # <<>>,
         t = Loop => topics \in Seq(ToSet(Internal)),
         t \in Registrars => topics \in Seq(Custom),
         todo' = [todo EXCEPT ![t] = topics]
  PROVE  ThreadsOK'
<1>1. place' = [place EXCEPT ![t] = p]
  BY DEF Go
<1>2. p \in Places /\ p \notin {"idle", "report"}
  BY DEF Active, Places
<1> QED BY <1>1, <1>2 DEF ThreadsOK, Threads

(* What a step of Next is, named by what it moves. *)
Subscribes(t) ==
  Subscribe(t) \/ FindEntry(t) \/ BeginRemove(t) \/ UnlinkEntry(t) \/ BeginAdd(t) \/ LinkEntry(t)
Registers(r) == Look(r) \/ BeginRecord(r) \/ Record(r)
Starting == Accept \/ Report \/ \E r \in Registrars : Register(r)
Turn == FirstTopic \/ BeginTurn \/ EndTurn
Calls == Connect \/ Disconnect \/ HangUp
Passes == WorkerStep \/ \E name \in Names : Publish(name)

(* Nothing moves, but the model may end. *)
Rest ==
  /\ broken' \in BOOLEAN
  /\ UNCHANGED <<sessionVars, list, lost, mark, sweep, managerVars, subscribing, api, messageVars>>

LEMMA Steps ==
  ASSUME TypeOK, [Next]_vars
  PROVE  \/ \E t \in Threads : Subscribes(t)
         \/ \E r \in Registrars : Registers(r)
         \/ Starting \/ Turn \/ Calls \/ Lose \/ Passes \/ Rest
<1>1. Loop \in Threads /\ \A r \in Registrars : r \in Threads
  BY DEF Threads
<1>2. ASSUME NEW t \in Threads, UnlinkFreed(t) PROVE Rest
  BY <1>2 DEF UnlinkFreed, Rest
<1>3. ASSUME TurnFreed PROVE Rest
  BY <1>3 DEF TurnFreed, Rest
<1>4. ASSUME UNCHANGED vars PROVE Rest
  BY <1>4 DEF vars, listVars, topicVars, TypeOK, Rest
<1>5. ASSUME NEW t \in Threads, SaclientSubscribe(t) PROVE Subscribes(t) \/ Rest
  BY <1>2, <1>5, Zenon DEF SaclientSubscribe, RemoveEntry, AddEntry, Subscribes
<1>6. Sweep => Turn \/ Rest
  BY <1>3, Zenon DEF Sweep, Turn
<1>7. ASSUME NEW r \in Registrars, RegistrarStep(r)
      PROVE  Registers(r) \/ Subscribes(r) \/ Rest
  BY <1>1, <1>5, <1>7, Zenon DEF RegistrarStep, Registers
<1>8. LoopStep => Subscribes(Loop) \/ Rest \/ Starting
  BY <1>1, <1>5, Zenon DEF LoopStep, Starting
<1>9. Next => Step \/ UNCHANGED vars
  BY DEF Next
<1> QED BY <1>1, <1>4, <1>6, <1>7, <1>8, <1>9, Zenon DEF Step, Starting, Calls, Passes

(* A thread that subscribes stays well typed. *)
LEMMA SubscribedThreads ==
  ASSUME ThreadsOK, NEW t \in Threads, Subscribes(t) \/ (t \in Registrars /\ Registers(t))
  PROVE  ThreadsOK' /\ place[t] \in Active
<1>1. ASSUME NEW p \in Active, place[t] \in Active, Go(t, p) /\ UNCHANGED todo
      PROVE  ThreadsOK'
  BY <1>1, GoTypes
<1>2. ASSUME NEW p \in Active, place[t] \in Active, NextTopic(t, p)
      PROVE  ThreadsOK'
  BY <1>2, NextTopicTypes
<1>3. "subscribe" \in Active /\ "look" \in Active /\ "find" \in Active /\ "record" \in Active
  BY DEF Active
<1>4. CASE Subscribe(t)
  <2>1. place[t] \in Active /\ Begin(t) \in Active
    BY <1>4 DEF Subscribe, Begin, Active
  <2> QED BY <1>1, <1>2, <1>3, <1>4, <2>1 DEF Subscribe
<1>5. CASE FindEntry(t)
  <2> DEFINE p == IF Found(list, Current(t)) # None THEN "remove" ELSE "add"
  <2>1. place[t] \in Active /\ p \in Active /\ Go(t, p) /\ UNCHANGED todo
    BY <1>5 DEF FindEntry, Active
  <2> HIDE DEF p
  <2> QED BY <1>1, <2>1
<1>6. CASE BeginRemove(t)
  <2>1. place[t] \in Active /\ "unlink" \in Active /\ "add" \in Active
    BY <1>6 DEF BeginRemove, Active
  <2> QED BY <1>1, <1>6, <2>1 DEF BeginRemove
<1>7. CASE UnlinkEntry(t)
  <2>1. place[t] \in Active /\ "add" \in Active
    BY <1>7 DEF UnlinkEntry, Active
  <2> QED BY <1>1, <1>7, <2>1 DEF UnlinkEntry
<1>8. CASE BeginAdd(t)
  <2>1. place[t] \in Active /\ "link" \in Active
    BY <1>8 DEF BeginAdd, Active
  <2> QED BY <1>1, <1>8, <2>1 DEF BeginAdd
<1>9. CASE LinkEntry(t)
  <2>1. place[t] \in Active
    BY <1>9 DEF LinkEntry, Active
  <2> QED BY <1>1, <1>2, <1>3, <1>9, <2>1 DEF LinkEntry
<1>10. CASE Look(t)
  <2>1. place[t] \in Active
    BY <1>10 DEF Look, Active
  <2> QED BY <1>1, <1>2, <1>3, <1>10, <2>1 DEF Look
<1>11. CASE BeginRecord(t)
  <2>1. place[t] \in Active /\ "recording" \in Active
    BY <1>11 DEF BeginRecord, Active
  <2> QED BY <1>1, <1>11, <2>1 DEF BeginRecord
<1>12. CASE Record(t)
  <2>1. place[t] \in Active
    BY <1>12 DEF Record, Active
  <2> QED BY <1>2, <1>3, <1>12, <2>1 DEF Record
<1> QED BY <1>4, <1>5, <1>6, <1>7, <1>8, <1>9, <1>10, <1>11, <1>12 DEF Subscribes, Registers

LEMMA StartedThreads ==
  ASSUME ThreadsOK, Starting
  PROVE  ThreadsOK'
<1>1. Loop \in Threads /\ Loop \notin Registrars /\ \A r \in Registrars : r \in Threads
  BY LoopAssumption DEF Threads
<1>2. CASE Accept
  <2>1. Internal \in Seq(ToSet(Internal)) /\ Internal # <<>>
    BY TopicsAssumption
  <2>2. Internal \in Seq(Topics) /\ "subscribe" \in Active
    BY <2>1 DEF Topics, Active
  <2> QED BY <1>1, <1>2, <2>1, <2>2, StartTypes DEF Accept
<1>3. CASE Report
  <2>1. place[Loop] = "report" /\ todo[Loop] = <<>>
    BY <1>1, <1>3 DEF Report, ThreadsOK
  <2>2. CASE Go(Loop, "idle") /\ UNCHANGED todo
    BY <1>1, <2>1, <2>2 DEF Go, ThreadsOK, Places
  <2>3. ASSUME NEW r \in Registrars, Start(r, Hubs),
               place' = [place EXCEPT ![Loop] = "idle", ![r] = "look"]
        PROVE  ThreadsOK'
    <3>1. Hubs \in Seq(Custom) /\ Hubs # <<>> /\ todo' = [todo EXCEPT ![r] = Hubs]
      BY <2>3, TopicsAssumption DEF Start
    <3>2. Hubs \in Seq(Topics)
      BY <3>1 DEF Topics
    <3> QED BY <1>1, <2>1, <2>3, <3>1, <3>2 DEF ThreadsOK, Threads, Places
  <2> QED BY <1>3, <2>2, <2>3 DEF Report
<1>4. ASSUME NEW r \in Registrars, Register(r) PROVE ThreadsOK'
  <2>1. PICK u \in Custom : Start(r, <<u>>)
    BY <1>4 DEF Register
  <2>2. Go(r, "look") /\ todo' = [todo EXCEPT ![r] = <<u>>]
    BY <1>4, <2>1 DEF Register, Start
  <2>3. <<u>> \in Seq(Custom) /\ <<u>> \in Seq(Topics) /\ <<u>> # <<>> /\ "look" \in Active
    BY DEF Topics, Active
  <2> QED BY <1>1, <2>2, <2>3, StartTypes
<1> QED BY <1>2, <1>3, <1>4 DEF Starting

(* Everything else leaves the threads where they are. *)
LEMMA RestingThreads ==
  ASSUME Turn \/ Calls \/ Lose \/ Passes \/ Rest
  PROVE  place' = place /\ todo' = todo
BY DEF Turn, FirstTopic, BeginTurn, EndTurn, Calls, Connect, Disconnect, HangUp, Lose,
       Passes, WorkerStep, Take, FindCallback, CallBack, FindHandler, Publish, Rest, subscribing

-----------------------------------------------------------------------------
(* The three steps that change the topic list *)

(* A thread unlinks the entry of its topic. *)
LEMMA Unlinks ==
  ASSUME TypeOK, MarkInv, NEW t \in Threads, UnlinkEntry(t)
  PROVE  /\ mark[t] \in 1 .. Len(list) /\ list[mark[t]] = Current(t)
         /\ list' = RemoveAt(list, mark[t])
         /\ mark' = [x \in Threads |-> IF x = t THEN 0 ELSE AfterUnlink(mark[x], mark[t])]
         /\ sweep' = [iter |-> AfterUnlink(sweep.iter, mark[t]),
                      next |-> AfterUnlink(sweep.next, mark[t])]
         /\ lost' = lost /\ place[t] = "unlink" /\ Current(t) \in Topics
         /\ (t = Loop => Current(t) \notin Custom) /\ (t # Loop => Current(t) \in Custom)
<1>1. place[t] = "unlink" /\ mark[t] # Gone
  BY DEF UnlinkEntry
<1>2. mark[t] \in Gone .. Len(list) /\ mark[t] >= 1 /\ list[mark[t]] = Current(t)
  BY <1>1 DEF TypeOK, MarkInv
<1>3. mark[t] \in 1 .. Len(list)
  BY <1>2 DEF Gone, TypeOK
<1>4. ThreadsOK /\ place[t] \in Active
  BY <1>1, TypeParts DEF Active
<1>5. Current(t) \in Topics /\ (t = Loop => Current(t) \notin Custom)
      /\ (t # Loop => Current(t) \in Custom)
  BY <1>4, CurrentTopic, TopicsAssumption DEF Threads
<1> QED BY <1>1, <1>2, <1>3, <1>5 DEF UnlinkEntry, Unlink

(* A thread links an entry of its topic. *)
LEMMA Links ==
  ASSUME TypeOK, NEW t \in Threads, LinkEntry(t)
  PROVE  /\ mark[t] \in Gone .. Len(list) /\ place[t] = "link" /\ Current(t) \in Topics
         /\ list' = Linked(list, mark[t], Current(t))
         /\ lost' = CutOff(lost, list, Current(t), list')
         /\ mark' = [x \in Threads |-> IF x = t THEN 0 ELSE AfterLink(mark[x], mark[t])]
         /\ sweep' = [iter |-> AfterLink(sweep.iter, mark[t]),
                      next |-> AfterLink(sweep.next, mark[t])]
         /\ list' \in Seq(Topics) /\ ToSet(list') \subseteq ToSet(list) \cup {Current(t)}
         /\ (t = Loop => Current(t) \notin Custom) /\ (t # Loop => Current(t) \in Custom)
<1>1. ThreadsOK /\ place[t] \in Active
  BY TypeParts DEF LinkEntry, Active
<1>2. Current(t) \in Topics /\ (t = Loop => Current(t) \notin Custom)
      /\ (t # Loop => Current(t) \in Custom)
  BY <1>1, CurrentTopic, TopicsAssumption DEF Threads
<1>3. mark[t] \in Gone .. Len(list) /\ list \in Seq(Topics)
  BY DEF TypeOK
<1>4. /\ Linked(list, mark[t], Current(t)) \in Seq(Topics)
      /\ ToSet(Linked(list, mark[t], Current(t))) \subseteq ToSet(list) \cup {Current(t)}
  BY <1>2, <1>3, LinkedEntries
<1> QED BY <1>2, <1>3, <1>4 DEF LinkEntry

(* The sweep removes the first entry. *)
LEMMA Turns ==
  ASSUME TypeOK, SweepInv, EndTurn
  PROVE  /\ sweep.iter = 1 /\ 1 \in 1 .. Len(list) /\ api = "removing"
         /\ sweep.next \in {Gone, 0, 2}
         /\ list' = RemoveAt(list, 1)
         /\ mark' = [t \in Threads |-> AfterUnlink(mark[t], 1)]
         /\ sweep' = [iter |-> AfterUnlink(sweep.next, 1), next |-> 0]
         /\ lost' = lost
<1>1. api = "removing" /\ sweep.iter # Gone
  BY DEF EndTurn
<1>2. sweep.iter = 1 /\ sweep.next \in {Gone, 0, 2}
  BY <1>1 DEF SweepInv, Sweeps
<1>3. 1 \in 1 .. Len(list)
  BY <1>2 DEF TypeOK, Gone
<1> QED BY <1>1, <1>2, <1>3 DEF EndTurn, Unlink

(* The rest leaves it as it is. *)
LEMMA ListSteps ==
  ASSUME TypeOK, [Next]_vars
  PROVE  \/ list' = list /\ lost' = lost
         \/ EndTurn
         \/ \E t \in Threads : UnlinkEntry(t) \/ LinkEntry(t)
<1>1. ASSUME NEW t \in Threads, Subscribes(t), ~UnlinkEntry(t), ~LinkEntry(t)
      PROVE  list' = list /\ lost' = lost
  BY <1>1 DEF Subscribes, Subscribe, FindEntry, BeginRemove, BeginAdd, listVars, topicVars
<1>2. ASSUME NEW r \in Registrars, Registers(r) PROVE list' = list /\ lost' = lost
  BY <1>2 DEF Registers, Look, BeginRecord, Record, listVars, topicVars
<1>3. CASE Starting \/ Lose \/ Calls
  BY <1>3 DEF Starting, Accept, Report, Register, Lose, Calls, Connect, Disconnect, HangUp,
              listVars, topicVars
<1>4. CASE Passes \/ Rest \/ Turn
  BY <1>4 DEF Passes, WorkerStep, Take, FindCallback, CallBack, FindHandler, Publish, Rest,
              Turn, FirstTopic, BeginTurn, listVars, topicVars
<1> QED BY <1>1, <1>2, <1>3, <1>4, Steps

-----------------------------------------------------------------------------
(* Types *)

LEMMA ListTypes ==
  ASSUME TypeOK, MarkInv, SweepInv, [Next]_vars
  PROVE  ListsOK'
<1>1. ThreadsOK /\ ListsOK
  BY TypeParts
<1>2. ASSUME NEW t \in Threads, UnlinkEntry(t) PROVE ListsOK'
  <2> DEFINE i == mark[t]
  <2>1. /\ i \in 1 .. Len(list) /\ list' = RemoveAt(list, i)
        /\ mark' = [x \in Threads |-> IF x = t THEN 0 ELSE AfterUnlink(mark[x], i)]
        /\ sweep' = [iter |-> AfterUnlink(sweep.iter, i), next |-> AfterUnlink(sweep.next, i)]
        /\ lost' = lost
    BY <1>2, Unlinks
  <2> HIDE DEF i
  <2>2. list' \in Seq(Topics) /\ Len(list') = Len(list) - 1
    BY <1>1, <2>1, RemoveOne DEF ListsOK
  <2>3. \A p \in Gone .. Len(list) : AfterUnlink(p, i) \in Gone .. Len(list')
    BY <1>1, <2>1, PositionsUnlinked DEF ListsOK
  <2>4. 0 \in Gone .. Len(list')
    BY <1>1, <2>1, <2>2 DEF Gone, ListsOK
  <2>5. mark' \in [Threads -> Gone .. Len(list')]
    BY <1>1, <2>1, <2>3, <2>4 DEF ListsOK
  <2>6. sweep' \in [iter : Gone .. Len(list'), next : Gone .. Len(list')]
    BY <1>1, <2>1, <2>3 DEF ListsOK
  <2>7. broken' \in BOOLEAN /\ UNCHANGED managerVars
    BY <1>2 DEF UnlinkEntry, Unlink, Sweeps, WorkerReads, Walks
  <2> QED BY <1>1, <2>1, <2>2, <2>5, <2>6, <2>7 DEF ListsOK, managerVars
<1>3. ASSUME NEW t \in Threads, LinkEntry(t) PROVE ListsOK'
  <2> DEFINE k == mark[t]
             u == Current(t)
  <2>1. /\ k \in Gone .. Len(list) /\ u \in Topics /\ list' = Linked(list, k, u)
        /\ lost' = CutOff(lost, list, u, list')
        /\ mark' = [x \in Threads |-> IF x = t THEN 0 ELSE AfterLink(mark[x], k)]
        /\ sweep' = [iter |-> AfterLink(sweep.iter, k), next |-> AfterLink(sweep.next, k)]
        /\ list' \in Seq(Topics)
    BY <1>3, Links
  <2> HIDE DEF k, u
  <2>2. \A p \in Gone .. Len(list) : AfterLink(p, k) \in Gone .. Len(list')
    BY <1>1, <2>1, PositionsLinked DEF ListsOK
  <2>3. 0 \in Gone .. Len(list')
    BY <2>1 DEF Gone
  <2>4. mark' \in [Threads -> Gone .. Len(list')]
    BY <1>1, <2>1, <2>2, <2>3 DEF ListsOK
  <2>5. sweep' \in [iter : Gone .. Len(list'), next : Gone .. Len(list')]
    BY <1>1, <2>1, <2>2 DEF ListsOK
  <2>6. lost' \subseteq Topics
    BY <1>1, <2>1 DEF ListsOK, CutOff, ToSet
  <2>7. UNCHANGED <<broken, managerVars>>
    BY <1>3 DEF LinkEntry
  <2> QED BY <1>1, <2>1, <2>4, <2>5, <2>6, <2>7 DEF ListsOK, managerVars
<1>4. ASSUME EndTurn PROVE ListsOK'
  <2>1. /\ 1 \in 1 .. Len(list) /\ list' = RemoveAt(list, 1)
        /\ mark' = [t \in Threads |-> AfterUnlink(mark[t], 1)]
        /\ sweep' = [iter |-> AfterUnlink(sweep.next, 1), next |-> 0]
        /\ lost' = lost
    BY <1>4, Turns
  <2>2. list' \in Seq(Topics) /\ Len(list') = Len(list) - 1
    BY <1>1, <2>1, RemoveOne DEF ListsOK
  <2>3. \A p \in Gone .. Len(list) : AfterUnlink(p, 1) \in Gone .. Len(list')
    BY <1>1, <2>1, PositionsUnlinked DEF ListsOK
  <2>4. 0 \in Gone .. Len(list')
    BY <1>1, <2>1, <2>2 DEF Gone, ListsOK
  <2>5. mark' \in [Threads -> Gone .. Len(list')]
    BY <1>1, <2>1, <2>3 DEF ListsOK
  <2>6. sweep' \in [iter : Gone .. Len(list'), next : Gone .. Len(list')]
    BY <1>1, <2>1, <2>3, <2>4 DEF ListsOK
  <2>7. broken' \in BOOLEAN /\ UNCHANGED managerVars
    BY <1>4 DEF EndTurn, Unlink, WorkerReads, Walks
  <2> QED BY <1>1, <2>1, <2>2, <2>5, <2>6, <2>7 DEF ListsOK, managerVars
<1>5. ASSUME NEW t \in Threads, Subscribes(t), ~UnlinkEntry(t), ~LinkEntry(t) PROVE ListsOK'
  <2>1. CASE Subscribe(t) \/ FindEntry(t)
    BY <1>1, <2>1 DEF Subscribe, FindEntry, ListsOK, listVars, topicVars, managerVars
  <2>2. CASE BeginRemove(t)
    <3>1. First(list, Current(t)) \in Gone .. Len(list) \/ mark' = mark
      BY <1>1, <2>2, FirstEntry DEF BeginRemove, ListsOK, Gone
    <3> QED BY <1>1, <2>2, <3>1 DEF BeginRemove, ListsOK, managerVars
  <2>3. CASE BeginAdd(t)
    <3>1. Len(list) \in Gone .. Len(list)
      BY <1>1 DEF ListsOK, Gone
    <3> QED BY <1>1, <2>3, <3>1 DEF BeginAdd, ListsOK, managerVars
  <2> QED BY <1>5, <2>1, <2>2, <2>3 DEF Subscribes
<1>6. ASSUME NEW r \in Registrars, Registers(r) PROVE ListsOK'
  <2>1. CASE Look(r)
    BY <1>1, <2>1 DEF Look, ListsOK, listVars, topicVars, managerVars
  <2>2. CASE BeginRecord(r)
    <3>1. Len(managed) \in Gone .. Len(managed)
      BY <1>1 DEF ListsOK, Gone
    <3> QED BY <1>1, <2>2, <3>1 DEF BeginRecord, ListsOK, topicVars
  <2>3. CASE Record(r)
    <3> DEFINE k == tail[r]
               u == Current(r)
    <3>1. k \in Gone .. Len(managed) /\ managed \in Seq(Custom) /\ u \in Custom
      <4>1. r \in Threads /\ place[r] \in Active
        BY <2>3 DEF Record, Active, Threads
      <4> QED BY <1>1, <4>1, CurrentTopic DEF ListsOK
    <3>2. /\ managed' = Linked(managed, k, u)
          /\ forgotten' = CutOff(forgotten, managed, u, managed')
          /\ tail' = [x \in Registrars |-> IF x = r THEN 0 ELSE AfterLink(tail[x], k)]
          /\ UNCHANGED topicVars
      BY <2>3 DEF Record
    <3> HIDE DEF k, u
    <3>3. managed' \in Seq(Custom)
      BY <3>1, <3>2, LinkedEntries
    <3>4. \A p \in Gone .. Len(managed) : AfterLink(p, k) \in Gone .. Len(managed')
      BY <3>1, <3>2, PositionsLinked
    <3>5. 0 \in Gone .. Len(managed')
      BY <3>3 DEF Gone
    <3>6. tail' \in [Registrars -> Gone .. Len(managed')]
      BY <1>1, <3>2, <3>4, <3>5 DEF ListsOK
    <3>7. forgotten' \subseteq Custom
      BY <1>1, <3>1, <3>2 DEF ListsOK, CutOff, ToSet
    <3> QED BY <1>1, <3>2, <3>3, <3>6, <3>7 DEF ListsOK, topicVars
  <2> QED BY <1>6, <2>1, <2>2, <2>3 DEF Registers
<1>7. CASE FirstTopic \/ BeginTurn
  <2>1. CASE FirstTopic
    <3>1. list # <<>> => 0 \in Gone .. Len(list) /\ 1 \in Gone .. Len(list)
      <4>1. list \in Seq(Topics)
        BY <1>1 DEF ListsOK
      <4>2. list # <<>> => Len(list) # 0 /\ Len(list) \in Nat
        BY <4>1, EmptySeq
      <4> QED BY <4>2 DEF Gone
    <3>2. sweep' \in [iter : Gone .. Len(list), next : Gone .. Len(list)]
      BY <1>1, <2>1, <3>1 DEF FirstTopic, ListsOK
    <3> QED BY <1>1, <2>1, <3>2 DEF FirstTopic, ListsOK, managerVars
  <2>2. CASE BeginTurn
    <3> DEFINE n == IF sweep.iter < Len(list) THEN sweep.iter + 1 ELSE 0
    <3>1. sweep \in [iter : Gone .. Len(list), next : Gone .. Len(list)] /\ Len(list) \in Nat
      BY <1>1 DEF ListsOK
    <3>2. sweep' = [sweep EXCEPT !.next = n]
      BY <2>2 DEF BeginTurn
    <3>3. n \in Gone .. Len(list)
      BY <3>1 DEF Gone
    <3>4. sweep' \in [iter : Gone .. Len(list), next : Gone .. Len(list)]
      <4> HIDE DEF n
      <4> QED BY <3>1, <3>2, <3>3
    <3> QED BY <1>1, <2>2, <3>4 DEF BeginTurn, ListsOK, managerVars
  <2> QED BY <1>7, <2>1, <2>2
<1>8. CASE Starting \/ Calls \/ Lose \/ Passes
  <2>1. UNCHANGED listVars
    BY <1>8 DEF Starting, Accept, Report, Register, Calls, Connect, Disconnect, HangUp, Lose,
                Passes, WorkerStep, Take, FindCallback, CallBack, FindHandler, Publish
  <2> QED BY <1>1, <2>1 DEF listVars, topicVars, managerVars, ListsOK
<1>9. CASE Rest
  BY <1>1, <1>9 DEF Rest, ListsOK, managerVars
<1> QED BY <1>2, <1>3, <1>4, <1>5, <1>6, <1>7, <1>8, <1>9, Steps DEF Turn

(* The messages, the session and the caller. *)
LEMMA OtherTypes ==
  ASSUME TypeOK, [Next]_vars
  PROVE  OthersOK'
<1>1. ThreadsOK /\ OthersOK
  BY TypeParts
<1>2. ASSUME NEW t \in Threads, Subscribes(t) PROVE OthersOK'
  <2>1. CASE Subscribe(t)
    <3>1. Current(t) \in Topics
      <4>1. place[t] \in Active
        BY <2>1 DEF Subscribe, Active
      <4> QED BY <1>1, <4>1, CurrentTopic
    <3> QED BY <1>1, <2>1, <3>1 DEF Subscribe, OthersOK, messageVars
  <2>2. CASE ~Subscribe(t)
    <3>1. UNCHANGED <<sessionVars, api, messageVars>>
      BY <1>2, <2>2 DEF Subscribes, FindEntry, BeginRemove, UnlinkEntry, BeginAdd, LinkEntry
    <3> QED BY <1>1, <3>1 DEF sessionVars, messageVars, OthersOK
  <2> QED BY <2>1, <2>2
<1>3. ASSUME NEW r \in Registrars, Registers(r) PROVE OthersOK'
  <2>1. UNCHANGED <<sessionVars, api, messageVars>>
    BY <1>3 DEF Registers, Look, BeginRecord, Record
  <2> QED BY <1>1, <2>1 DEF sessionVars, messageVars, OthersOK
<1>4. CASE Starting \/ Lose \/ Rest
  BY <1>1, <1>4
     DEF Starting, Accept, Report, Register, Lose, Rest, sessionVars, messageVars, OthersOK
<1>5. CASE Turn
  BY <1>1, <1>5 DEF Turn, FirstTopic, BeginTurn, EndTurn, sessionVars, messageVars, OthersOK
<1>6. CASE Connect \/ Disconnect
  BY <1>1, <1>6 DEF Connect, Disconnect, sessionVars, messageVars, OthersOK
<1>7. CASE HangUp
  <2>1. queue' \in Seq(Messages) /\ Len(queue') <= Slots
    <3>1. queue' = [i \in 1 .. Len(queue) |-> [queue[i] EXCEPT !.swept = TRUE]]
      BY <1>1, <1>7 DEF HangUp, MarkMessages, OthersOK
    <3>2. \A i \in 1 .. Len(queue) : [queue[i] EXCEPT !.swept = TRUE] \in Messages
      <4>1. \A i \in 1 .. Len(queue) : queue[i] \in Messages
        BY <1>1 DEF OthersOK
      <4> QED BY <4>1 DEF Messages
    <3>3. Len(queue) \in Nat /\ Len(queue) <= Slots
      BY <1>1 DEF OthersOK
    <3> QED BY <3>1, <3>2, <3>3
  <2>2. hand' \in Hands \cup {Nothing}
    BY <1>1, <1>7 DEF HangUp, MarkMessages, OthersOK, Hands, Messages
  <2> QED BY <1>1, <1>7, <2>1, <2>2 DEF HangUp, OthersOK
<1>8. ASSUME NEW name \in Names, Publish(name) PROVE OthersOK'
  <2> DEFINE m == [name |-> name, swept |-> FALSE]
  <2>1. m \in Messages
    BY DEF Messages
  <2> HIDE DEF m
  <2>2. queue \in Seq(Messages) /\ Len(queue) <= Slots /\ Slots \in Nat
    BY <1>1, SlotsAssumption DEF OthersOK
  <2>3. queue' = IF Len(queue) < Slots THEN Append(queue, m) ELSE queue
    BY <1>8 DEF Publish, m
  <2>4. Append(queue, m) \in Seq(Messages) /\ Len(Append(queue, m)) = Len(queue) + 1
    BY <2>1, <2>2, AppendProperties
  <2>5. queue' \in Seq(Messages) /\ Len(queue') <= Slots
    BY <2>2, <2>3, <2>4
  <2> QED BY <1>1, <1>8, <2>5 DEF Publish, OthersOK, sessionVars
<1>9. CASE Take
  <2>1. queue \in Seq(Messages) /\ queue # <<>> /\ Len(queue) <= Slots /\ Slots \in Nat
    BY <1>1, <1>9, SlotsAssumption DEF Take, OthersOK
  <2>2. Head(queue) \in Messages /\ Tail(queue) \in Seq(Messages) /\ Len(Tail(queue)) <= Slots
    BY <2>1, HeadTailProperties
  <2>3. hand' \in Hands
    BY <1>9, <2>2 DEF Take, Hands
  <2> QED BY <1>1, <1>9, <2>2, <2>3 DEF Take, OthersOK, sessionVars
<1>10. CASE FindCallback \/ CallBack \/ FindHandler
  <2>1. hand \in Hands
    BY <1>1, <1>10 DEF FindCallback, CallBack, FindHandler, OthersOK, Nothing
  <2>2. hand' \in Hands \cup {Nothing} /\ outcome' \in {outcome, "handled", "dropped"}
    BY <1>10, <2>1 DEF FindCallback, CallBack, FindHandler, Hands
  <2>3. UNCHANGED <<sessionVars, api, queue>>
    BY <1>10 DEF FindCallback, CallBack, FindHandler
  <2> QED BY <1>1, <2>2, <2>3 DEF OthersOK, sessionVars
<1> QED BY <1>2, <1>3, <1>4, <1>5, <1>6, <1>7, <1>8, <1>9, <1>10, Steps
        DEF Calls, Passes, WorkerStep

(* No step leaves the types. *)
LEMMA Types ==
  ASSUME TypeOK, MarkInv, SweepInv, [Next]_vars
  PROVE  TypeOK'
<1>1. ThreadsOK'
  <2>1. ThreadsOK /\ \A r \in Registrars : r \in Threads
    BY TypeParts DEF Threads
  <2>2. CASE Turn \/ Calls \/ Lose \/ Passes \/ Rest
    <3>1. place' = place /\ todo' = todo
      BY <2>2, RestingThreads
    <3> QED BY <2>1, <3>1 DEF ThreadsOK
  <2> QED BY <2>1, <2>2, SubscribedThreads, StartedThreads, Steps
<1> QED BY <1>1, ListTypes, OtherTypes DEF TypeOK, ThreadsOK, ListsOK, OthersOK
-----------------------------------------------------------------------------
(* Where a step leaves the threads *)

(* A thread that is done with a topic is at the next one or at the end. *)
LEMMA NextPlace ==
  ASSUME TypeOK, NEW t \in Threads, NEW p, NextTopic(t, p)
  PROVE  /\ place'[t] \in {p, IF t = Loop THEN "report" ELSE "idle"}
         /\ \A x \in Threads \ {t} : place'[x] = place[x] /\ todo'[x] = todo[x]
BY DEF NextTopic, Go, TypeOK

LEMMA GoPlace ==
  ASSUME TypeOK, NEW t \in Threads, NEW p, Go(t, p), todo' = todo
  PROVE  /\ place'[t] = p /\ Current(t)' = Current(t)
         /\ \A x \in Threads \ {t} : place'[x] = place[x] /\ todo'[x] = todo[x]
BY DEF Go, TypeOK, Current

(* A subscribing thread moves alone, and this is where to. *)
LEMMA Moves ==
  ASSUME TypeOK, NEW t \in Threads, Subscribes(t) \/ Registers(t)
  PROVE  /\ \A x \in Threads \ {t} : place'[x] = place[x] /\ todo'[x] = todo[x]
         /\ \/ /\ Current(t)' = Current(t)
               /\ \/ Subscribe(t) /\ place'[t] = "find"
                  \/ FindEntry(t) /\ place'[t] \in {"remove", "add"}
                  \/ BeginRemove(t) /\ place'[t] \in {"unlink", "add"}
                  \/ UnlinkEntry(t) /\ place'[t] = "add"
                  \/ BeginAdd(t) /\ place'[t] = "link"
                  \/ LinkEntry(t) /\ place'[t] = "record" /\ t # Loop
                  \/ Look(t) /\ place'[t] = "subscribe"
                  \/ BeginRecord(t) /\ place'[t] = "recording"
            \/ /\ place'[t] \in {Begin(t), IF t = Loop THEN "report" ELSE "idle"}
               /\ Subscribe(t) \/ (LinkEntry(t) /\ t = Loop)
            \/ /\ place'[t] \in {"look", IF t = Loop THEN "report" ELSE "idle"}
               /\ Look(t) \/ Record(t)
<1>1. ASSUME NEW p, Go(t, p), UNCHANGED todo
      PROVE  /\ place'[t] = p /\ Current(t)' = Current(t)
             /\ \A x \in Threads \ {t} : place'[x] = place[x] /\ todo'[x] = todo[x]
  BY <1>1, GoPlace
<1>2. ASSUME NEW p, NextTopic(t, p)
      PROVE  /\ place'[t] \in {p, IF t = Loop THEN "report" ELSE "idle"}
             /\ \A x \in Threads \ {t} : place'[x] = place[x] /\ todo'[x] = todo[x]
  BY <1>2, NextPlace
<1>3. CASE Subscribe(t)
  <2>1. (Go(t, "find") /\ UNCHANGED todo) \/ NextTopic(t, Begin(t))
    BY <1>3 DEF Subscribe
  <2> QED BY <1>1, <1>2, <1>3, <2>1, Zenon
<1>4. CASE FindEntry(t)
  <2>1. Go(t, IF Found(list, Current(t)) # None THEN "remove" ELSE "add") /\ UNCHANGED todo
    BY <1>4 DEF FindEntry
  <2>2. (Go(t, "remove") \/ Go(t, "add")) /\ UNCHANGED todo
    BY <2>1
  <2> QED BY <1>1, <1>4, <2>2
<1>5. CASE BeginRemove(t)
  <2>1. (Go(t, "unlink") \/ Go(t, "add")) /\ UNCHANGED todo
    BY <1>5 DEF BeginRemove
  <2> QED BY <1>1, <1>5, <2>1
<1>6. CASE UnlinkEntry(t)
  BY <1>1, <1>6 DEF UnlinkEntry
<1>7. CASE BeginAdd(t)
  BY <1>1, <1>7 DEF BeginAdd
<1>8. CASE LinkEntry(t)
  <2>1. (t # Loop /\ Go(t, "record") /\ UNCHANGED todo) \/ (t = Loop /\ NextTopic(t, Begin(t)))
    BY <1>8 DEF LinkEntry, Begin
  <2> QED BY <1>1, <1>2, <1>8, <2>1
<1>9. CASE Look(t)
  <2>1. (Go(t, "subscribe") /\ UNCHANGED todo) \/ NextTopic(t, "look")
    BY <1>9 DEF Look
  <2> QED BY <1>1, <1>2, <1>9, <2>1
<1>10. CASE BeginRecord(t)
  BY <1>1, <1>10 DEF BeginRecord
<1>11. CASE Record(t)
  BY <1>2, <1>11 DEF Record
<1> QED BY <1>3, <1>4, <1>5, <1>6, <1>7, <1>8, <1>9, <1>10, <1>11 DEF Subscribes, Registers

(* A thread acts where its place says. *)
LEMMA Stands ==
  ASSUME NEW t
  PROVE  /\ Subscribe(t) => place[t] = "subscribe"
         /\ FindEntry(t) => place[t] = "find"
         /\ BeginRemove(t) => place[t] = "remove"
         /\ UnlinkEntry(t) => place[t] = "unlink"
         /\ BeginAdd(t) => place[t] = "add"
         /\ LinkEntry(t) => place[t] = "link"
         /\ Look(t) => place[t] = "look"
         /\ BeginRecord(t) => place[t] = "record"
         /\ Record(t) => place[t] = "recording"
BY DEF Subscribe, FindEntry, BeginRemove, UnlinkEntry, BeginAdd, LinkEntry, Look, BeginRecord,
       Record

(* The other steps that move a thread start it where it was idle, or end   *)
(* the loop thread's turn.                                                 *)
LEMMA Starts ==
  ASSUME TypeOK, PlaceInv, Starting
  PROVE  /\ \A x \in Threads :
              \/ place'[x] = place[x] /\ todo'[x] = todo[x]
              \/ place[x] \in {"idle", "report"} /\ place'[x] \in {"idle", "look", "subscribe"}
         /\ \A r \in Registrars : place'[r] # "report"
         /\ place'[Loop] \in {place[Loop], "idle", "subscribe"}
         /\ place[Loop] = "idle" /\ ~Accept => place'[Loop] = "idle"
<1>1. Loop \in Threads /\ Loop \notin Registrars /\ \A r \in Registrars : r \in Threads
  BY LoopAssumption DEF Threads
<1>2. CASE Accept
  <2>1. /\ place[Loop] = "idle"
        /\ place' = [place EXCEPT ![Loop] = "subscribe"]
        /\ todo' = [todo EXCEPT ![Loop] = Internal]
    BY <1>2 DEF Accept, Go
  <2> QED BY <1>1, <1>2, <2>1 DEF TypeOK, PlaceInv
<1>3. CASE Report
  <2>1. CASE Go(Loop, "idle") /\ UNCHANGED todo
    BY <1>1, <1>3, <2>1 DEF Report, Go, TypeOK, PlaceInv
  <2>2. ASSUME NEW r \in Registrars, Start(r, Hubs),
               place' = [place EXCEPT ![Loop] = "idle", ![r] = "look"]
        PROVE  /\ \A x \in Threads :
                    \/ place'[x] = place[x] /\ todo'[x] = todo[x]
                    \/ /\ place[x] \in {"idle", "report"}
                       /\ place'[x] \in {"idle", "look", "subscribe"}
               /\ \A q \in Registrars : place'[q] # "report"
               /\ place'[Loop] = "idle"
    BY <1>1, <1>3, <2>2 DEF Report, Start, TypeOK, PlaceInv
  <2> QED BY <1>3, <2>1, <2>2 DEF Report, Accept
<1>4. ASSUME NEW r \in Registrars, Register(r)
      PROVE  /\ \A x \in Threads :
                  \/ place'[x] = place[x] /\ todo'[x] = todo[x]
                  \/ place[x] \in {"idle", "report"} /\ place'[x] \in {"idle", "look", "subscribe"}
             /\ \A q \in Registrars : place'[q] # "report"
             /\ place'[Loop] = place[Loop]
  BY <1>1, <1>4 DEF Register, Start, Go, TypeOK, PlaceInv
<1> QED BY <1>1, <1>2, <1>3, <1>4 DEF PlaceInv, Starting

(* Nobody comes to topic_remove or topic_add in another way. *)
LEMMA Arrivals ==
  ASSUME TypeOK, PlaceInv, [Next]_vars, NEW x \in Threads,
         place'[x] \in {"unlink", "add", "link"}
  PROVE  /\ Current(x)' = Current(x)
         /\ \/ place'[x] = place[x]
            \/ place'[x] = "unlink" /\ BeginRemove(x)
            \/ place'[x] = "add" /\ (FindEntry(x) \/ BeginRemove(x) \/ UnlinkEntry(x))
            \/ place'[x] = "link" /\ BeginAdd(x)
<1>1. ASSUME NEW t \in Threads, Subscribes(t) \/ Registers(t)
      PROVE  /\ Current(x)' = Current(x)
             /\ \/ place'[x] = place[x]
                \/ place'[x] = "unlink" /\ BeginRemove(x)
                \/ place'[x] = "add" /\ (FindEntry(x) \/ BeginRemove(x) \/ UnlinkEntry(x))
                \/ place'[x] = "link" /\ BeginAdd(x)
  <2>1. CASE t # x
    BY <1>1, <2>1, Moves DEF Current
  <2>2. CASE t = x
    <3>1. Begin(x) \in {"subscribe", "look"}
      BY DEF Begin
    <3> QED BY <1>1, <2>2, <3>1, Moves
  <2> QED BY <2>1, <2>2
<1>2. CASE Starting
  BY <1>2, Starts DEF Current
<1>3. CASE Turn \/ Calls \/ Lose \/ Passes \/ Rest
  BY <1>3, RestingThreads DEF Current
<1>4. \A r \in Registrars : r \in Threads
  BY DEF Threads
<1> QED BY <1>1, <1>2, <1>3, <1>4, Steps

-----------------------------------------------------------------------------
(* The parts of the invariant *)

(* The loop thread subscribes as long as the loop runs, and sessions that  *)
(* end leave nothing served.                                               *)
LEMMA Sessions ==
  ASSUME TypeOK, SessionInv, PlaceInv, [Next]_vars
  PROVE  SessionInv' /\ PlaceInv'
<1>1. Loop \in Threads /\ Loop \notin Registrars /\ \A r \in Registrars : r \in Threads
  BY LoopAssumption DEF Threads
<1>2. ASSUME NEW t \in Threads, Subscribes(t) \/ (t \in Registrars /\ Registers(t))
      PROVE  SessionInv' /\ PlaceInv'
  <2>1. /\ \A x \in Threads \ {t} : place'[x] = place[x]
        /\ place[t] # "idle"
        /\ t = Loop => place'[t] \notin {"look", "record", "recording"}
        /\ t # Loop => place'[t] # "report"
    <3>1. Begin(t) = IF t = Loop THEN "subscribe" ELSE "look"
      BY DEF Begin
    <3>2. Subscribes(t) \/ Registers(t)
      BY <1>2
    <3>3. Subscribes(t) => place[t] \in {"subscribe", "find", "remove", "unlink", "add", "link"}
      BY Stands DEF Subscribes
    <3>4. Registers(t) => place[t] \in {"look", "record", "recording"}
      BY Stands DEF Registers
    <3>5. t = Loop => place[t] \notin {"look", "record", "recording"}
      BY DEF PlaceInv
    <3> QED BY <1>1, <3>1, <3>2, <3>3, <3>4, <3>5, Moves, Stands
  <2>2. PlaceInv'
    BY <1>1, <2>1 DEF PlaceInv
  <2>3. loop' = loop /\ session' = session /\ api' = api /\ (~session => served' = served)
    BY <1>2 DEF Subscribes, Subscribe, FindEntry, BeginRemove, UnlinkEntry, BeginAdd, LinkEntry,
                Registers, Look, BeginRecord, Record, sessionVars
  <2> QED BY <1>1, <2>1, <2>2, <2>3 DEF SessionInv, Sweeping
<1>3. CASE Starting
  <2>1. /\ \A r \in Registrars : place'[r] # "report"
        /\ place'[Loop] \in {place[Loop], "idle", "subscribe"}
        /\ place[Loop] = "idle" /\ ~Accept => place'[Loop] = "idle"
    BY <1>3, Starts, Zenon
  <2>2. PlaceInv'
    BY <2>1 DEF PlaceInv
  <2>3. loop' = loop /\ served' = served /\ api' = api
    BY <1>3 DEF Starting, Accept, Report, Register, sessionVars
  <2>4. (Accept => loop /\ session') /\ (~Accept => session' = session)
    BY <1>3 DEF Starting, Accept, Report, Register, sessionVars
  <2> QED BY <2>1, <2>2, <2>3, <2>4 DEF SessionInv, Sweeping
<1>4. CASE Turn \/ Calls \/ Lose \/ Passes \/ Rest
  <2>1. place' = place /\ PlaceInv'
    BY <1>4, RestingThreads DEF PlaceInv
  <2>2. CASE Connect \/ Disconnect \/ Turn \/ Lose
    BY <2>1, <2>2 DEF SessionInv, sessionVars, Connect, Disconnect, Turn, FirstTopic, BeginTurn,
                      EndTurn, Lose, Sweeping
  <2>3. CASE HangUp
    BY <2>1, <2>3 DEF SessionInv, HangUp
  <2>4. CASE Passes \/ Rest
    <3>1. UNCHANGED <<sessionVars, api>>
      BY <2>4 DEF Passes, WorkerStep, Take, FindCallback, CallBack, FindHandler, Publish, Rest
    <3> QED BY <2>1, <3>1 DEF SessionInv, sessionVars, Sweeping
  <2> QED BY <1>4, <2>1, <2>2, <2>3, <2>4 DEF Calls
<1> QED BY <1>1, <1>2, <1>3, <1>4, Steps

(* A thread that is to unlink an entry holds one of its own topic.         *)
LEMMA Held ==
  ASSUME TypeOK, PlaceInv, MarkInv, SweepInv, [Next]_vars
  PROVE  MarkInv'
<1>1. SUFFICES ASSUME NEW x \in Threads, place'[x] = "unlink", mark'[x] # Gone
               PROVE  mark'[x] >= 1 /\ list'[mark'[x]] = Current(x)'
  BY DEF MarkInv
<1>2. Current(x)' = Current(x) /\ (place[x] = "unlink" \/ BeginRemove(x))
  BY <1>1, Arrivals
<1>3. list \in Seq(Topics) /\ mark \in [Threads -> Gone .. Len(list)]
  BY DEF TypeOK
<1>4. CASE BeginRemove(x)
  <2>1. Current(x) \in ToSet(list)
    <3>1. (~(Current(x) \in ToSet(list))) => Go(x, "add") /\ UNCHANGED todo
      BY <1>4 DEF BeginRemove
    <3> QED BY <1>1, <3>1, GoPlace
  <2>2. mark'[x] = First(list, Current(x)) /\ list' = list
    BY <1>3, <1>4, <2>1 DEF BeginRemove
  <2> QED BY <1>2, <1>3, <2>1, <2>2, FirstEntry
<1>6. ASSUME NEW i \in 1 .. Len(list), list' = RemoveAt(list, i),
             mark'[x] = AfterUnlink(mark[x], i), place[x] = "unlink"
      PROVE  mark'[x] >= 1 /\ list'[mark'[x]] = Current(x)'
  <2>1. mark[x] # Gone
    BY <1>1, <1>6 DEF AfterUnlink, Gone
  <2>2. mark[x] >= 1 /\ list[mark[x]] = Current(x)
    BY <1>6, <2>1 DEF MarkInv
  <2> QED BY <1>1, <1>2, <1>3, <1>6, <2>2, PositionsUnlinked
<1>7. ASSUME NEW t \in Threads, UnlinkEntry(t), place[x] = "unlink"
      PROVE  mark'[x] >= 1 /\ list'[mark'[x]] = Current(x)'
  <2>1. t # x
    BY <1>1, <1>7, Moves, Stands DEF Subscribes
  <2> QED BY <1>6, <1>7, <2>1, Unlinks
<1>8. ASSUME EndTurn, place[x] = "unlink"
      PROVE  mark'[x] >= 1 /\ list'[mark'[x]] = Current(x)'
  BY <1>6, <1>8, Turns
<1>9. ASSUME NEW t \in Threads, LinkEntry(t), place[x] = "unlink"
      PROVE  mark'[x] >= 1 /\ list'[mark'[x]] = Current(x)'
  <2>1. t # x
    BY <1>9, Stands
  <2>2. mark'[x] = AfterLink(mark[x], mark[t]) /\ list' = Linked(list, mark[t], Current(t))
        /\ Current(t) \in Topics /\ mark[t] \in Gone .. Len(list)
    BY <1>9, <2>1, Links
  <2>3. mark'[x] = mark[x]
    BY <1>1, <2>2 DEF AfterLink
  <2>4. mark[x] >= 1 /\ list[mark[x]] = Current(x)
    BY <1>1, <1>9, <2>3 DEF MarkInv
  <2>5. Linked(list, mark[t], Current(t))[mark[x]] = list[mark[x]]
    <3> DEFINE l == list
               k == mark[t]
               u == Current(t)
               q == mark[x]
    <3>1. /\ l \in Seq(Topics) /\ u \in Topics /\ k \in Gone .. Len(l) /\ q \in Gone .. Len(l)
          /\ q >= 1 /\ AfterLink(q, k) # Gone
      BY <1>1, <1>3, <2>2, <2>4
    <3> HIDE DEF l, k, u, q
    <3>2. Linked(l, k, u)[q] = l[q]
      BY <3>1, PositionsLinked
    <3> QED BY <3>2 DEF l, k, u, q
  <2> QED BY <1>2, <2>2, <2>3, <2>4, <2>5
<1>10. ASSUME place[x] = "unlink", ~EndTurn,
              ~\E t \in Threads : UnlinkEntry(t) \/ LinkEntry(t)
       PROVE  mark'[x] >= 1 /\ list'[mark'[x]] = Current(x)'
  <2>1. list' = list
    BY <1>10, ListSteps
  <2>2. mark'[x] = mark[x]
    <3>1. ASSUME NEW t \in Threads, Subscribes(t) PROVE mark'[x] = mark[x]
      <4>1. CASE BeginRemove(t) \/ BeginAdd(t)
        <5>1. t # x
          BY <1>10, <4>1, Stands
        <5> QED BY <1>3, <4>1, <5>1 DEF BeginRemove, BeginAdd
      <4>2. CASE Subscribe(t) \/ FindEntry(t)
        BY <4>2 DEF Subscribe, FindEntry, listVars, topicVars
      <4> QED BY <1>10, <3>1, <4>1, <4>2 DEF Subscribes
    <3>2. ASSUME NEW r \in Registrars, Registers(r) PROVE mark'[x] = mark[x]
      BY <3>2 DEF Registers, Look, BeginRecord, Record, listVars, topicVars
    <3>3. CASE Starting \/ Lose \/ Calls
      BY <3>3 DEF Starting, Accept, Report, Register, Lose, Calls, Connect, Disconnect, HangUp,
                  listVars, topicVars
    <3>4. CASE Passes \/ Rest \/ Turn
      BY <1>10, <3>4 DEF Passes, WorkerStep, Take, FindCallback, CallBack, FindHandler, Publish,
                  Rest, Turn, FirstTopic, BeginTurn, listVars, topicVars
    <3> QED BY <3>1, <3>2, <3>3, <3>4, Steps
  <2>3. mark[x] >= 1 /\ list[mark[x]] = Current(x)
    BY <1>1, <1>10, <2>2 DEF MarkInv
  <2> QED BY <1>2, <2>1, <2>2, <2>3
<1> QED BY <1>2, <1>4, <1>7, <1>8, <1>9, <1>10

(* The sweep stays at the first entry, and behind the last it has seen     *)
(* come only entries of custom topics.                                     *)
LEMMA SweepsOn ==
  ASSUME IInv, [Next]_vars
  PROVE  SweepInv' /\ SweptInv'
<1>1. /\ TypeOK /\ SessionInv /\ PlaceInv /\ MarkInv /\ SweepInv /\ SweptInv
      /\ list \in Seq(Topics) /\ Len(list) \in Nat
  BY DEF IInv, TypeOK
<1>2. sweep.iter \in Gone .. Len(list) /\ sweep.next \in Gone .. Len(list)
  BY <1>1 DEF TypeOK
<1>3. ASSUME NEW t \in Threads, UnlinkEntry(t) PROVE SweepInv' /\ SweptInv'
  <2> DEFINE i == mark[t]
  <2>1. /\ i \in 1 .. Len(list) /\ list' = RemoveAt(list, i)
        /\ sweep' = [iter |-> AfterUnlink(sweep.iter, i), next |-> AfterUnlink(sweep.next, i)]
    BY <1>1, <1>3, Unlinks
  <2>2. api' = api /\ loop' = loop
    BY <1>3 DEF UnlinkEntry, sessionVars
  <2> HIDE DEF i
  <2>3. /\ list' \in Seq(Topics) /\ Len(list') = Len(list) - 1
        /\ \A j \in 1 .. Len(list) - 1 : list'[j] = IF j < i THEN list[j] ELSE list[j + 1]
        /\ ToSet(list') \subseteq ToSet(list)
    <3>1. list \in Seq(Topics)
      BY <1>1
    <3> QED BY <2>1, <3>1, RemoveOne, RemovedEntry, SMTT(30)
  <2>4. ASSUME Sweeps
        PROVE  /\ sweep'.iter \in {Gone, 1}
               /\ sweep'.iter = 1 => /\ sweep.iter = 1 /\ i > 1
                                     /\ sweep'.next \in {Gone, 0, 2}
                                     /\ sweep'.next = 0 => sweep.next = 0
    BY <1>1, <2>1, <2>4 DEF SweepInv, AfterUnlink, Gone
  <2>5. SweepInv'
    BY <2>2, <2>4 DEF SweepInv, Sweeps
  <2>6. SweptInv'
    <3>1. ASSUME api' = "removing", sweep'.iter = 1, sweep'.next = 0, NEW j \in 2 .. Len(list')
          PROVE  list'[j] \in Custom
      <4>1. \A x \in 2 .. Len(list) : list[x] \in Custom
        BY <1>1, <2>2, <2>4, <3>1 DEF Sweeps, SweptInv
      <4> QED BY <1>1, <2>3, <4>1
    <3> QED BY <1>1, <2>2, <2>3, <3>1 DEF SweptInv
  <2> QED BY <2>5, <2>6
<1>4. ASSUME NEW t \in Threads, LinkEntry(t) PROVE SweepInv' /\ SweptInv'
  <2> DEFINE k == mark[t]
             u == Current(t)
  <2>1. /\ k \in Gone .. Len(list) /\ u \in Topics /\ list' = Linked(list, k, u)
        /\ sweep' = [iter |-> AfterLink(sweep.iter, k), next |-> AfterLink(sweep.next, k)]
        /\ ToSet(list') \subseteq ToSet(list) \cup {u}
        /\ t # Loop => u \in Custom
    BY <1>1, <1>4, Links
  <2>2. api' = api /\ loop' = loop /\ place[t] = "link"
    BY <1>4 DEF LinkEntry, sessionVars
  <2> HIDE DEF k, u
  <2>3. ~loop => u \in Custom
    BY <1>1, <2>1, <2>2 DEF SessionInv
  <2>4. ASSUME Sweeps
        PROVE  /\ sweep'.iter \in {Gone, 1}
               /\ sweep'.iter = 1 => /\ sweep.iter = 1 /\ (k = Gone \/ k >= 1)
                                     /\ sweep'.next \in {Gone, 0, 2}
                                     /\ sweep'.next = 0 => sweep.next = 0
    BY <1>1, <2>1, <2>4 DEF SweepInv, AfterLink, Gone
  <2>5. SweepInv'
    BY <2>2, <2>4 DEF SweepInv, Sweeps
  <2>6. SweptInv'
    <3>1. ASSUME api' = "removing", sweep'.iter = 1, sweep'.next = 0, NEW j \in 2 .. Len(list')
          PROVE  list'[j] \in Custom
      <4>1. /\ \A x \in 2 .. Len(list) : list[x] \in Custom
            /\ k = Gone \/ k >= 1
        BY <1>1, <2>2, <2>4, <3>1 DEF Sweeps, SweptInv
      <4>2. u \in Custom
        BY <1>1, <2>2, <2>3, <3>1 DEF SessionInv, Sweeping
      <4>3. CASE k = Gone
        BY <2>1, <3>1, <4>1, <4>3 DEF Linked
      <4>4. CASE k # Gone
        <5>1. /\ Len(list') = k + 1 /\ list'[k + 1] = u
              /\ \A x \in 1 .. k : list'[x] = list[x]
          <6>1. list \in Seq(Topics) /\ u \in Topics /\ k \in Gone .. Len(list) /\ k # Gone
            BY <1>1, <2>1, <4>4
          <6>2. /\ Len(Linked(list, k, u)) = k + 1 /\ Linked(list, k, u)[k + 1] = u
                /\ \A x \in 1 .. k : Linked(list, k, u)[x] = list[x]
            BY <6>1, LinkedEntry
          <6> QED BY <2>1, <6>2
        <5>2. k \in 1 .. Len(list)
          BY <2>1, <4>1, <4>4 DEF Gone
        <5> QED BY <3>1, <4>1, <4>2, <5>1, <5>2
      <4> QED BY <4>3, <4>4
    <3>2. api = "idle" /\ ~loop => ToSet(list') \subseteq Custom
      BY <1>1, <2>1, <2>3 DEF SweptInv
    <3> QED BY <2>2, <3>1, <3>2 DEF SweptInv
  <2> QED BY <2>5, <2>6
<1>5. ASSUME EndTurn PROVE SweepInv' /\ SweptInv'
  <2>1. /\ sweep.iter = 1 /\ 1 \in 1 .. Len(list) /\ api = "removing"
        /\ sweep.next \in {Gone, 0, 2}
        /\ list' = RemoveAt(list, 1)
        /\ sweep' = [iter |-> AfterUnlink(sweep.next, 1), next |-> 0]
    BY <1>1, <1>5, Turns
  <2>2. api' = IF sweep.next = 0 THEN "idle" ELSE "sweeping"
    BY <1>5 DEF EndTurn
  <2>3. SweepInv'
    BY <2>1, <2>2 DEF SweepInv, Sweeps, AfterUnlink, Gone
  <2>4. sweep.next = 0 => ToSet(list') \subseteq Custom
    <3>1. /\ list' \in Seq(Topics) /\ Len(list') = Len(list) - 1
          /\ \A j \in 1 .. Len(list) - 1 : list'[j] = list[j + 1]
      BY <1>1, <2>1, RemoveOne
    <3>2. sweep.next = 0 => \A j \in 2 .. Len(list) : list[j] \in Custom
      BY <1>1, <2>1 DEF SweptInv
    <3>3. sweep.next = 0 => \A j \in 1 .. Len(list') : list'[j] \in Custom
      BY <1>1, <3>1, <3>2
    <3> QED BY <3>1, <3>3 DEF ToSet
  <2>5. SweptInv'
    BY <2>2, <2>4 DEF SweptInv
  <2> QED BY <2>3, <2>5
<1>6. CASE FirstTopic
  <2>1. list' = list /\ api' \in {"idle", "sweeping"} /\ (api' = "idle" => list = <<>>)
    BY <1>6 DEF FirstTopic
  <2>2. api' = "sweeping" => sweep' = [iter |-> 1, next |-> 0]
    BY <1>6 DEF FirstTopic
  <2>3. list = <<>> => ToSet(list) \subseteq Custom
    BY DEF ToSet
  <2> QED BY <2>1, <2>2, <2>3 DEF SweepInv, SweptInv, Sweeps
<1>7. CASE BeginTurn
  <2>1. api = "sweeping" /\ sweep.iter # Gone /\ list' = list /\ api' = "removing"
        /\ sweep' = [sweep EXCEPT !.next = IF sweep.iter < Len(list) THEN sweep.iter + 1 ELSE 0]
    BY <1>7 DEF BeginTurn
  <2>2. sweep.iter = 1
    BY <1>1, <2>1 DEF SweepInv, Sweeps
  <2>3. sweep'.iter = 1 /\ sweep'.next = IF 1 < Len(list) THEN 2 ELSE 0
    BY <1>1, <2>1, <2>2 DEF TypeOK
  <2>4. sweep'.next = 0 => \A j \in 2 .. Len(list) : FALSE
    BY <1>1, <2>3
  <2> QED BY <2>1, <2>3, <2>4 DEF SweepInv, SweptInv, Sweeps
<1>8. CASE HangUp
  <2>1. api' = "first"
    BY <1>8 DEF HangUp
  <2> QED BY <2>1 DEF SweepInv, SweptInv, Sweeps
<1>9. ASSUME UNCHANGED <<list, sweep, api>>, loop' = loop \/ loop'
      PROVE  SweepInv' /\ SweptInv'
  BY <1>1, <1>9 DEF SweepInv, SweptInv, Sweeps
<1>10. ASSUME NEW t \in Threads, Subscribes(t), ~UnlinkEntry(t), ~LinkEntry(t)
       PROVE  SweepInv' /\ SweptInv'
  <2>1. UNCHANGED <<list, sweep, api, loop>>
    BY <1>10 DEF Subscribes, Subscribe, FindEntry, BeginRemove, BeginAdd, listVars, topicVars,
                 sessionVars
  <2> QED BY <1>9, <2>1
<1>11. ASSUME NEW r \in Registrars, Registers(r) PROVE SweepInv' /\ SweptInv'
  <2>1. UNCHANGED <<list, sweep, api, loop>>
    BY <1>11 DEF Registers, Look, BeginRecord, Record, listVars, topicVars, sessionVars
  <2> QED BY <1>9, <2>1
<1>12. CASE Starting \/ Lose \/ Passes \/ Rest
  <2>1. UNCHANGED <<list, sweep, api, loop>>
    BY <1>12 DEF Starting, Accept, Report, Register, Lose, Passes, WorkerStep, Take, FindCallback,
                 CallBack, FindHandler, Publish, Rest, listVars, topicVars, sessionVars
  <2> QED BY <1>9, <2>1
<1>13. CASE Connect
  <2>1. UNCHANGED <<list, sweep, api>> /\ loop'
    BY <1>13 DEF Connect, listVars, topicVars
  <2> QED BY <1>9, <2>1
<1>14. CASE Disconnect
  <2>1. api' = "hanging_up"
    BY <1>14 DEF Disconnect
  <2> QED BY <2>1 DEF SweepInv, SweptInv, Sweeps
<1> QED BY <1>1, <1>3, <1>4, <1>5, <1>6, <1>7, <1>8, <1>10, <1>11, <1>12, <1>13, <1>14, Steps
        DEF Turn, Calls

(* A topic that is listed, cut off or being added stays so, until a        *)
(* disconnect sweeps the list (SAClient.c 779-783).                        *)
LEMMA StaysKept ==
  ASSUME TypeOK, PlaceInv, MarkInv, [Next]_vars, ~EndTurn, NEW u, Kept(u)
  PROVE  Kept(u)'
<1>1. Loop \in Threads /\ \A r \in Registrars : r \in Threads
  BY DEF Threads
<1>2. list \in Seq(Topics)
  BY DEF TypeOK
<1>3. ASSUME NEW t \in Threads, Subscribes(t) \/ Registers(t), NEW x \in Threads, Adding(x, u),
             ~(x = t /\ LinkEntry(t))
      PROVE  Kept(u)'
  <2>1. CASE x = t
    <3>1. place'[t] \in {"find", "remove", "unlink", "add", "link"} /\ Current(t)' = Current(t)
      BY <1>3, <2>1, Moves, Stands DEF Adding, Walks
    <3> QED BY <1>3, <2>1, <3>1 DEF Adding, Walks, Kept
  <2>2. CASE x # t
    BY <1>3, <2>2, Moves DEF Adding, Walks, Kept, Current
  <2> QED BY <2>1, <2>2
<1>4. ASSUME NEW t \in Threads, LinkEntry(t) PROVE Kept(u)'
  <2>1. Subscribes(t) /\ ToSet(list) \cup lost \cup {Current(t)} \subseteq ToSet(list') \cup lost'
    BY <1>4, Links, CutOffKept DEF Subscribes
  <2>2. u \in ToSet(list') \cup lost' => Kept(u)'
    BY DEF Kept
  <2>3. Adding(t, u) => u = Current(t)
    BY DEF Adding
  <2> QED BY <1>3, <2>1, <2>2, <2>3 DEF Kept
<1>5. ASSUME NEW t \in Threads, UnlinkEntry(t) PROVE Kept(u)'
  <2>1. /\ mark[t] \in 1 .. Len(list) /\ list[mark[t]] = Current(t)
        /\ list' = RemoveAt(list, mark[t]) /\ lost' = lost /\ place[t] = "unlink"
    BY <1>5, Unlinks
  <2>2. ToSet(list) \ {Current(t)} \subseteq ToSet(list')
    BY <1>2, <2>1, RemovedEntry
  <2>3. Subscribes(t) /\ Adding(t, Current(t)) /\ ~LinkEntry(t)
    BY <1>5, <2>1, Stands DEF Subscribes, Adding, Walks
  <2>4. u \in ToSet(list') \cup lost' => Kept(u)'
    BY DEF Kept
  <2>5. CASE u = Current(t)
    BY <1>3, <2>3, <2>5
  <2>6. CASE u # Current(t)
    BY <1>3, <2>1, <2>2, <2>3, <2>4, <2>6 DEF Kept, Adding
  <2> QED BY <2>5, <2>6
<1>6. CASE ~\E t \in Threads : UnlinkEntry(t) \/ LinkEntry(t)
  <2>1. list' = list /\ lost' = lost
    BY <1>6, ListSteps
  <2>2. ASSUME NEW x \in Threads, Adding(x, u) PROVE Kept(u)'
    <3>1. ASSUME NEW t \in Threads, Subscribes(t) \/ Registers(t) PROVE Kept(u)'
      BY <1>3, <1>6, <2>2, <3>1
    <3>2. CASE Starting
      BY <2>2, <3>2, Starts DEF Kept, Adding, Walks, Current
    <3>3. CASE Turn \/ Calls \/ Lose \/ Passes \/ Rest
      BY <2>2, <3>3, RestingThreads DEF Kept, Adding, Walks, Current
    <3> QED BY <1>1, <3>1, <3>2, <3>3, Steps
  <2> QED BY <2>1, <2>2 DEF Kept
<1> QED BY <1>4, <1>5, <1>6

(* What the manager knows or is about to know stays so (SAManager.c        *)
(* 672-678).                                                               *)
LEMMA StaysKnown ==
  ASSUME TypeOK, PlaceInv, [Next]_vars, NEW u, Known(u)
  PROVE  Known(u)'
<1>1. \A r \in Registrars : r \in Threads
  BY DEF Threads
<1>2. ASSUME NEW t \in Threads, Subscribes(t) \/ (t \in Registrars /\ Registers(t)),
             ~(t \in Registrars /\ Record(t))
      PROVE  Known(u)'
  <2>1. UNCHANGED <<managed, forgotten>>
    BY <1>2 DEF Subscribes, Subscribe, FindEntry, BeginRemove, UnlinkEntry, BeginAdd, LinkEntry,
                Registers, Look, BeginRecord, listVars, managerVars
  <2>2. ASSUME NEW r \in Registrars, Recording(r, u) PROVE Recording(r, u)'
    <3>1. CASE r = t
      <4>1. BeginRecord(t)
        BY <1>2, <2>2, <3>1, Stands DEF Subscribes, Registers, Recording
      <4>2. place'[t] = "recording" /\ Current(t)' = Current(t)
        BY <4>1, GoPlace DEF BeginRecord
      <4> QED BY <2>2, <3>1, <4>2 DEF Recording
    <3>2. CASE r # t
      BY <1>1, <1>2, <2>2, <3>2, Moves DEF Recording, Current
    <3> QED BY <3>1, <3>2
  <2> QED BY <2>1, <2>2 DEF Known
<1>3. ASSUME NEW t \in Registrars, Record(t) PROVE Known(u)'
  <2>1. managed' = Linked(managed, tail[t], Current(t))
        /\ forgotten' = CutOff(forgotten, managed, Current(t), managed')
    BY <1>3 DEF Record
  <2>2. forgotten \cup ToSet(managed) \cup {Current(t)} \subseteq ToSet(managed') \cup forgotten'
    BY <2>1, CutOffKept
  <2>3. ASSUME NEW r \in Registrars, Recording(r, u), r # t PROVE Recording(r, u)'
    BY <1>1, <1>3, <2>3, Moves DEF Recording, Current, Registers
  <2>4. Recording(t, u) => u = Current(t)
    BY DEF Recording
  <2>5. u \in ToSet(managed') \cup forgotten' => Known(u)'
    BY DEF Known
  <2> QED BY <2>2, <2>3, <2>4, <2>5 DEF Known
<1>4. CASE Starting
  <2>1. UNCHANGED <<managed, forgotten>>
    BY <1>4 DEF Starting, Accept, Report, Register, listVars, managerVars
  <2> QED BY <1>1, <1>4, <2>1, Starts DEF Known, Recording, Current
<1>5. CASE Turn \/ Calls \/ Lose \/ Passes \/ Rest
  <2>1. place' = place /\ todo' = todo
    BY <1>5, RestingThreads
  <2>2. UNCHANGED <<managed, forgotten>>
    BY <1>5 DEF Turn, FirstTopic, BeginTurn, EndTurn, Calls, Connect, Disconnect, HangUp, Lose,
                Passes, WorkerStep, Take, FindCallback, CallBack, FindHandler, Publish, Rest,
                listVars, managerVars
  <2> QED BY <2>1, <2>2 DEF Known, Recording, Current
<1> QED BY <1>1, <1>2, <1>3, <1>4, <1>5, Steps

(* What is served is listed or cut off: Kept names the ways. *)
LEMMA Served ==
  ASSUME IInv, [Next]_vars
  PROVE  ServedIsListed'
<1>1. TypeOK /\ PlaceInv /\ MarkInv /\ SessionInv /\ \A u \in served : Kept(u)
  BY DEF IInv, ServedIsListed, Kept
<1>2. SUFFICES ASSUME NEW u \in served' PROVE Kept(u)'
  BY DEF ServedIsListed, Kept
<1>3. CASE EndTurn
  BY <1>1, <1>3 DEF EndTurn, sessionVars, SessionInv, Sweeping
<1>4. CASE ~EndTurn /\ u \in served
  BY <1>1, <1>4, StaysKept
<1>5. CASE u \notin served
  <2>1. ASSUME NEW t \in Threads, Subscribes(t), ~Subscribe(t) PROVE served' = served
    BY <2>1 DEF Subscribes, FindEntry, BeginRemove, UnlinkEntry, BeginAdd, LinkEntry, sessionVars
  <2>2. ASSUME NEW r \in Registrars, Registers(r) PROVE served' = served
    BY <2>2 DEF Registers, Look, BeginRecord, Record, sessionVars
  <2>3. ASSUME Starting \/ Lose \/ Calls PROVE FALSE
    BY <1>2, <1>5, <2>3 DEF Starting, Accept, Report, Register, Lose, Calls, Connect, Disconnect,
                HangUp, sessionVars
  <2>4. ASSUME Turn \/ Passes \/ Rest PROVE FALSE
    BY <1>2, <1>5, <2>4 DEF Turn, FirstTopic, BeginTurn, EndTurn, Passes, WorkerStep, Take,
                FindCallback, CallBack, FindHandler, Publish, Rest, sessionVars
  <2>5. PICK t \in Threads : Subscribe(t)
    BY <1>1, <1>2, <1>5, <2>1, <2>2, <2>3, <2>4, Steps
  <2>6. Go(t, "find") /\ todo' = todo /\ u = Current(t)
    BY <1>2, <1>5, <2>5 DEF Subscribe
  <2>7. place'[t] = "find" /\ Current(t)' = Current(t)
    BY <1>1, <2>6, GoPlace
  <2> QED BY <2>6, <2>7 DEF Kept, Adding, Walks
<1> QED BY <1>3, <1>4, <1>5

(* The loop thread adds an entry when there is none left of that topic.    *)
LEMMA Entries ==
  ASSUME IInv, [Next]_vars
  PROVE  OneInternalEntry' /\ ReplacedInv'
<1>1. /\ TypeOK /\ PlaceInv /\ MarkInv /\ SweepInv /\ ReplacedInv /\ Single(list)
      /\ list \in Seq(Topics)
  BY DEF IInv, OneInternalEntry, Single, TypeOK
<1>2. Loop \in Threads /\ ThreadsOK
  BY <1>1, TypeParts DEF Threads
<1>3. SUFFICES Single(list') /\ ReplacedInv'
  BY DEF OneInternalEntry, Single
<1>4. ASSUME NEW t \in Threads, UnlinkEntry(t)
      PROVE  /\ Single(list') /\ ToSet(list') \subseteq ToSet(list)
             /\ t = Loop => Current(t) \notin ToSet(list')
  BY <1>1, <1>4, Unlinks, RemovedEntry
<1>5. ASSUME NEW t \in Threads, LinkEntry(t)
      PROVE  /\ Single(list') /\ ToSet(list') \subseteq ToSet(list) \cup {Current(t)}
             /\ t # Loop => Current(t) \in Custom
  <2>1. /\ mark[t] \in Gone .. Len(list) /\ place[t] = "link" /\ Current(t) \in Topics
        /\ list' = Linked(list, mark[t], Current(t))
        /\ ToSet(list') \subseteq ToSet(list) \cup {Current(t)}
        /\ t # Loop => Current(t) \in Custom
    BY <1>1, <1>5, Links
  <2>2. Current(t) \in Custom \/ Current(t) \notin ToSet(list)
    BY <1>1, <2>1 DEF ReplacedInv
  <2> QED BY <1>1, <2>1, <2>2, LinkedSingle
<1>6. ASSUME EndTurn PROVE Single(list') /\ ToSet(list') \subseteq ToSet(list)
  BY <1>1, <1>6, Turns, RemovedEntry
<1>7. Single(list')
  BY <1>1, <1>4, <1>5, <1>6, ListSteps
<1>8. ReplacedInv'
  <2>1. SUFFICES ASSUME place'[Loop] \in {"add", "link"}
                 PROVE  Current(Loop)' \notin ToSet(list')
    BY DEF ReplacedInv
  <2>2. /\ Current(Loop)' = Current(Loop)
        /\ \/ place'[Loop] = place[Loop]
           \/ FindEntry(Loop) \/ BeginRemove(Loop) \/ UnlinkEntry(Loop) \/ BeginAdd(Loop)
    BY <1>1, <1>2, <2>1, Arrivals
  <2>3. CASE UnlinkEntry(Loop)
    BY <1>2, <1>4, <2>2, <2>3
  <2>4. CASE ~UnlinkEntry(Loop)
    <3>1. Current(Loop) \notin ToSet(list) /\ place[Loop] \in Active
      <4>1. CASE FindEntry(Loop)
        <5>1. Found(list, Current(Loop)) = None
          <6>1. Found(list, Current(Loop)) # None => Go(Loop, "remove") /\ todo' = todo
            BY <4>1 DEF FindEntry
          <6> QED BY <1>1, <1>2, <2>1, <6>1, GoPlace
        <5> QED BY <1>1, <4>1, <5>1, FoundEntry DEF FindEntry, Active
      <4>2. CASE BeginRemove(Loop)
        <5>1. Current(Loop) \in ToSet(list) => Go(Loop, "unlink") /\ todo' = todo
          BY <4>2 DEF BeginRemove
        <5> QED BY <1>1, <1>2, <2>1, <4>2, <5>1, GoPlace DEF BeginRemove, Active
      <4>3. CASE BeginAdd(Loop)
        BY <1>1, <4>3 DEF BeginAdd, ReplacedInv, Active
      <4>4. CASE place'[Loop] = place[Loop]
        BY <1>1, <2>1, <4>4 DEF ReplacedInv, Active
      <4> QED BY <2>2, <2>4, <4>1, <4>2, <4>3, <4>4
    <3>2. Current(Loop) \notin Custom
      BY <1>2, <3>1, CurrentTopic, TopicsAssumption
    <3>3. ~LinkEntry(Loop)
      <4>1. LinkEntry(Loop) => place'[Loop] \in {"subscribe", "report", "look"} \/ Loop # Loop
        <5>1. LinkEntry(Loop) => NextTopic(Loop, "subscribe")
          BY DEF LinkEntry
        <5> QED BY <1>1, <1>2, <5>1, NextPlace
      <4> QED BY <2>1, <4>1
    <3>4. Current(Loop) \notin ToSet(list')
      <4>1. ASSUME NEW t \in Threads, LinkEntry(t) PROVE Current(Loop) \notin ToSet(list')
        BY <1>5, <3>1, <3>2, <3>3, <4>1
      <4> QED BY <1>1, <1>4, <1>6, <3>1, <4>1, ListSteps
    <3> QED BY <2>2, <3>4
  <2> QED BY <2>3, <2>4
<1> QED BY <1>7, <1>8

(* A custom topic gets its entry on the way to the manager's own list.     *)
LEMMA KnownEntries ==
  ASSUME IInv, [Next]_vars
  PROVE  KnownInv'
<1>1. TypeOK /\ PlaceInv /\ MarkInv /\ SweepInv /\ KnownInv /\ list \in Seq(Topics)
  BY DEF IInv, TypeOK
<1>2. SUFFICES ASSUME NEW u \in Custom, u \in ToSet(list') PROVE Known(u)'
  BY DEF KnownInv
<1>3. CASE u \in ToSet(list)
  BY <1>1, <1>3, StaysKnown DEF KnownInv
<1>4. CASE u \notin ToSet(list)
  <2>1. ASSUME EndTurn PROVE FALSE
    BY <1>1, <1>2, <1>4, <2>1, Turns, RemovedEntry
  <2>2. ASSUME NEW t \in Threads, UnlinkEntry(t) PROVE FALSE
    BY <1>1, <1>2, <1>4, <2>2, Unlinks, RemovedEntry
  <2>3. PICK t \in Threads : LinkEntry(t)
    BY <1>1, <1>2, <1>4, <2>1, <2>2, ListSteps
  <2>4. u = Current(t) /\ t # Loop
    BY <1>1, <1>2, <1>4, <2>3, Links
  <2>5. t \in Registrars /\ Go(t, "record") /\ todo' = todo
    BY <2>3, <2>4 DEF LinkEntry, Threads
  <2>6. place'[t] = "record" /\ Current(t)' = Current(t)
    BY <1>1, <2>5, GoPlace
  <2> QED BY <2>4, <2>5, <2>6 DEF Known, Recording
<1> QED BY <1>3, <1>4

(* What does not hand messages on leaves them. *)
LEMMA MessageSteps ==
  ASSUME TypeOK, [Next]_vars
  PROVE  UNCHANGED <<queue, hand>> \/ HangUp \/ Passes
<1>1. ASSUME NEW t \in Threads, Subscribes(t) PROVE UNCHANGED <<queue, hand>>
  BY <1>1 DEF Subscribes, Subscribe, FindEntry, BeginRemove, UnlinkEntry, BeginAdd, LinkEntry,
              messageVars
<1>2. ASSUME NEW r \in Registrars, Registers(r) PROVE UNCHANGED <<queue, hand>>
  BY <1>2 DEF Registers, Look, BeginRecord, Record, messageVars
<1>3. CASE Starting \/ Lose \/ Connect \/ Disconnect \/ Turn \/ Rest
  BY <1>3 DEF Starting, Accept, Report, Register, Lose, Connect, Disconnect, Turn, FirstTopic,
              BeginTurn, EndTurn, Rest, messageVars
<1> QED BY <1>1, <1>2, <1>3, Steps DEF Calls

(* A sweep finds no message it has not marked: none comes in meanwhile.    *)
LEMMA Marks ==
  ASSUME IInv, [Next]_vars
  PROVE  MarkedInv'
<1>1. TypeOK /\ SessionInv /\ MarkedInv
  BY DEF IInv
<1>2. SUFFICES ASSUME Sweeping'
               PROVE  /\ \A i \in DOMAIN queue' : queue'[i].swept
                      /\ hand' # Nothing => hand'.message.swept
  BY DEF MarkedInv, Nothing
<1>3. CASE HangUp
  <2>1. queue' = [i \in DOMAIN queue |-> [queue[i] EXCEPT !.swept = TRUE]]
    BY <1>3 DEF HangUp, MarkMessages
  <2>2. \A i \in DOMAIN queue : queue[i] \in Messages
    BY <1>1 DEF TypeOK
  <2>3. hand # Nothing => hand' = [hand EXCEPT !.message.swept = TRUE] /\ hand \in Hands
    BY <1>1, <1>3 DEF HangUp, MarkMessages, TypeOK
  <2>4. hand = Nothing => hand' = Nothing
    BY <1>3 DEF HangUp, MarkMessages
  <2> QED BY <2>1, <2>2, <2>3, <2>4 DEF Messages, Hands
<1>4. CASE ~HangUp
  <2>1. Sweeping
    <3>1. ASSUME NEW t \in Threads, Subscribes(t) PROVE api' = api
      BY <3>1 DEF Subscribes, Subscribe, FindEntry, BeginRemove, UnlinkEntry, BeginAdd, LinkEntry
    <3>2. ASSUME NEW r \in Registrars, Registers(r) PROVE api' = api
      BY <3>2 DEF Registers, Look, BeginRecord, Record
    <3>3. CASE Starting \/ Lose \/ Connect \/ Disconnect
      BY <1>2, <3>3 DEF Starting, Accept, Report, Register, Lose, Connect, Disconnect, Sweeping
    <3>4. CASE Turn
      BY <3>4 DEF Turn, FirstTopic, BeginTurn, EndTurn, Sweeping
    <3>5. CASE Passes \/ Rest
      BY <1>2, <3>5 DEF Passes, WorkerStep, Take, FindCallback, CallBack, FindHandler, Publish,
                  Rest, Sweeping
    <3> QED BY <1>1, <1>2, <1>4, <3>1, <3>2, <3>3, <3>4, <3>5, Steps DEF Calls, Sweeping
  <2>2. ~session /\ \A i \in DOMAIN queue : queue[i].swept
    BY <1>1, <2>1 DEF SessionInv, MarkedInv
  <2>3. hand # Nothing => hand.message.swept
    BY <1>1, <2>1 DEF MarkedInv
  <2>4. CASE UNCHANGED <<queue, hand>>
    BY <2>2, <2>3, <2>4
  <2>5. CASE Take
    <3>1. queue \in Seq(Messages) /\ queue # <<>>
      BY <1>1, <2>5 DEF Take, TypeOK
    <3>2. \A i \in DOMAIN Tail(queue) : Tail(queue)[i].swept
      BY <2>2, <3>1, HeadTailProperties
    <3>3. Head(queue).swept
      BY <2>2, <3>1
    <3> QED BY <2>5, <3>2, <3>3 DEF Take
  <2>6. CASE FindCallback \/ CallBack \/ FindHandler
    <3>1. hand \in Hands /\ hand # Nothing /\ queue' = queue
      BY <1>1, <2>6 DEF FindCallback, CallBack, FindHandler, TypeOK, Nothing
    <3>2. hand' = Nothing \/ hand'.message = hand.message
      BY <2>6, <3>1 DEF FindCallback, CallBack, FindHandler, Hands
    <3> QED BY <2>2, <2>3, <3>1, <3>2
  <2>7. ~\E name \in Names : Publish(name)
    BY <2>2 DEF Publish
  <2> QED BY <1>1, <1>4, <2>4, <2>5, <2>6, <2>7, MessageSteps DEF Passes, WorkerStep
<1> QED BY <1>3, <1>4
(* Messages are queued under a topic that is served, hence kept: it stays  *)
(* so until a sweep, which has marked them.                                *)
LEMMA Awaits ==
  ASSUME IInv, [Next]_vars
  PROVE  AwaitedInv'
<1>1. TypeOK /\ PlaceInv /\ MarkInv /\ SessionInv /\ MarkedInv /\ AwaitedInv
  BY DEF IInv
<1>2. \A u \in served : Kept(u) /\ u \in Topics
  BY DEF IInv, ServedIsListed, Kept, TypeOK
<1>3. queue \in Seq(Messages) /\ hand \in Hands \cup {Nothing}
  BY <1>1 DEF TypeOK
<1> DEFINE Good(m) == m.swept \/ \E u \in Topics : Found(<<u>>, m.name) = u /\ Kept(u)'
<1>4. SUFFICES /\ \A i \in DOMAIN queue' : Good(queue'[i])
               /\ hand'.at = "finding" => Good(hand'.message)
  BY DEF AwaitedInv, Awaited
<1>5. /\ \A i \in DOMAIN queue : Good(queue[i])
      /\ hand.at = "finding" => Good(hand.message)
  <2>1. CASE EndTurn
    <3>1. \A i \in DOMAIN queue : queue[i].swept
      BY <1>1, <2>1 DEF EndTurn, MarkedInv, Sweeping
    <3>2. hand.at = "finding" => hand.message.swept
      BY <1>1, <2>1 DEF EndTurn, MarkedInv, Nothing, Sweeping
    <3> QED BY <3>1, <3>2
  <2>2. CASE ~EndTurn
    <3>1. \A u \in Topics : Kept(u) => Kept(u)'
      BY <1>1, <2>2, StaysKept
    <3>2. ASSUME NEW m, Awaited(m) PROVE Good(m)
      BY <3>1, <3>2 DEF Awaited
    <3> HIDE DEF Good
    <3> QED BY <1>1, <3>2 DEF AwaitedInv
  <2> QED BY <2>1, <2>2
<1>6. CASE UNCHANGED <<queue, hand>>
  <2> HIDE DEF Good
  <2> QED BY <1>5, <1>6
<1>7. CASE HangUp
  <2>1. queue' = [i \in DOMAIN queue |-> [queue[i] EXCEPT !.swept = TRUE]]
    BY <1>7 DEF HangUp, MarkMessages
  <2>2. \A i \in DOMAIN queue : queue[i] \in Messages
    BY <1>3
  <2>3. \A i \in DOMAIN queue' : queue'[i].swept
    BY <2>1, <2>2 DEF Messages
  <2>4. hand' = Nothing \/ hand'.message.swept
    <3>1. CASE hand = Nothing
      BY <1>7, <3>1 DEF HangUp, MarkMessages
    <3>2. CASE hand # Nothing
      BY <1>3, <1>7, <3>2 DEF HangUp, MarkMessages, Hands, Messages
    <3> QED BY <3>1, <3>2
  <2> QED BY <2>3, <2>4 DEF Nothing
<1>8. ASSUME NEW name \in Names, Publish(name)
      PROVE  /\ \A i \in DOMAIN queue' : Good(queue'[i])
             /\ hand'.at = "finding" => Good(hand'.message)
  <2> DEFINE m == [name |-> name, swept |-> FALSE]
  <2>1. PICK t \in served : name = t \/ (t \in DOMAIN Covers /\ name \in Covers[t])
    BY <1>8 DEF Publish
  <2>2. t \in Topics /\ Kept(t)' /\ Found(<<t>>, name) = t
    <3>1. ~EndTurn
      BY <1>1, <1>8 DEF Publish, EndTurn, SessionInv, Sweeping
    <3> QED BY <1>1, <1>2, <2>1, <3>1, StaysKept, FoundAlone
  <2>3. Good(m)
    BY <2>2
  <2>4. m \in Messages
    BY DEF Messages
  <2>5. hand' = hand /\ (queue' = queue \/ queue' = Append(queue, m))
    BY <1>8 DEF Publish
  <2> HIDE DEF m, Good
  <2>6. CASE queue' = queue
    BY <1>5, <2>5, <2>6
  <2>7. CASE queue' = Append(queue, m)
    <3>1. /\ Append(queue, m) \in Seq(Messages) /\ Len(Append(queue, m)) = Len(queue) + 1
          /\ \A i \in 1 .. Len(queue) : Append(queue, m)[i] = queue[i]
          /\ Append(queue, m)[Len(queue) + 1] = m
      BY <1>3, <2>4, AppendProperties
    <3>2. \A i \in 1 .. Len(queue) + 1 : Good(Append(queue, m)[i])
      <4>1. ASSUME NEW i \in 1 .. Len(queue) + 1 PROVE Good(Append(queue, m)[i])
        <5>1. CASE i \in 1 .. Len(queue)
          BY <1>3, <1>5, <3>1, <5>1
        <5>2. CASE i = Len(queue) + 1
          BY <2>3, <3>1, <5>2
        <5> QED BY <1>3, <5>1, <5>2
      <4> QED BY <4>1
    <3> QED BY <1>5, <2>5, <2>7, <3>1, <3>2
  <2> QED BY <2>5, <2>6, <2>7
<1>9. CASE Take
  <2>1. queue # <<>> /\ queue' = Tail(queue)
        /\ hand' = [at |-> "finding", message |-> Head(queue)]
    BY <1>9 DEF Take
  <2> HIDE DEF Good
  <2>2. Good(Head(queue)) /\ \A i \in 1 .. Len(Tail(queue)) : Good(Tail(queue)[i])
    <3>1. /\ Len(Tail(queue)) = Len(queue) - 1 /\ Head(queue) = queue[1]
          /\ \A i \in 1 .. Len(Tail(queue)) : Tail(queue)[i] = queue[i + 1]
      BY <1>3, <2>1, HeadTailProperties
    <3>2. 1 \in DOMAIN queue /\ \A i \in 1 .. Len(Tail(queue)) : i + 1 \in DOMAIN queue
      BY <1>3, <2>1, <3>1
    <3> QED BY <1>5, <3>1, <3>2
  <2>3. Tail(queue) \in Seq(Messages)
    BY <1>3, <2>1
  <2> QED BY <2>1, <2>2, <2>3
<1>10. CASE FindCallback \/ CallBack \/ FindHandler
  <2>1. queue' = queue /\ hand'.at # "finding"
    BY <1>3, <1>10 DEF FindCallback, CallBack, FindHandler, Nothing, Hands
  <2> HIDE DEF Good
  <2> QED BY <1>5, <2>1
<1> QED BY <1>1, <1>6, <1>7, <1>8, <1>9, <1>10, MessageSteps DEF Passes, WorkerStep

(* The manager knows the topic of a message it is handed. *)
LEMMA Handed ==
  ASSUME IInv, [Next]_vars
  PROVE  HandInv'
<1>1. TypeOK /\ PlaceInv /\ KnownInv /\ HandInv /\ list \in Seq(Topics)
  BY DEF IInv, TypeOK
<1>2. hand \in Hands \cup {Nothing}
  BY <1>1 DEF TypeOK
<1>3. SUFFICES ASSUME hand'.at \in {"custom", "manager"}, NEW n, n = hand'.message.name
               PROVE  Known(n)'
  BY DEF HandInv, Known
<1>4. hand # Nothing /\ hand'.message.name = hand.message.name
      /\ (hand.at \in {"custom", "manager"} \/ (FindCallback /\ hand'.at = "custom"))
  <2>1. CASE UNCHANGED hand
    BY <1>2, <1>3, <2>1 DEF Nothing
  <2>2. CASE HangUp
    <3>1. hand # Nothing
      BY <1>3, <2>2 DEF HangUp, MarkMessages, Nothing
    <3> QED BY <1>2, <1>3, <2>2, <3>1 DEF HangUp, MarkMessages, Hands, Messages
  <2>3. CASE Take
    BY <1>3, <2>3 DEF Take
  <2>4. CASE FindHandler
    BY <1>3, <2>4 DEF FindHandler, Nothing
  <2>5. CASE FindCallback
    BY <1>2, <1>3, <2>5 DEF FindCallback, Nothing, Hands
  <2>6. CASE CallBack
    BY <1>2, <1>3, <2>6 DEF CallBack, Nothing, Hands
  <2>7. ASSUME NEW name \in Names, Publish(name) PROVE UNCHANGED hand
    BY <2>7 DEF Publish
  <2> QED BY <1>1, <2>1, <2>2, <2>3, <2>4, <2>5, <2>6, <2>7, MessageSteps DEF Passes, WorkerStep
<1>5. Known(hand.message.name)
  <2>1. CASE hand.at \in {"custom", "manager"}
    BY <1>1, <2>1 DEF HandInv
  <2>2. CASE FindCallback /\ hand'.at = "custom"
    <3>1. Found(list, hand.message.name) \in Custom
      BY <1>2, <1>4, <2>2 DEF FindCallback, Nothing, Hands
    <3> QED BY <1>1, <3>1, FoundEntry DEF KnownInv
  <2> QED BY <1>4, <2>1, <2>2
<1>6. Known(n)
  BY <1>3, <1>4, <1>5
<1> QED BY <1>1, <1>6, StaysKnown
-----------------------------------------------------------------------------
(* The theorems *)

LEMMA Initially ==
  ASSUME Init
  PROVE  IInv
<1>1. TypeOK
  <2>1. Loop \in Threads /\ \A r \in Registrars : r \in Threads
    BY DEF Threads
  <2>2. ThreadsOK /\ ListsOK
    <3>1. <<>> \in Seq(Topics) /\ <<>> \in Seq(Custom) /\ <<>> \in Seq(ToSet(Internal))
      BY EmptySeq
    <3>2. \A t \in Threads : place[t] = "idle" /\ todo[t] = <<>>
      BY DEF Init
    <3>3. place \in [Threads -> Places] /\ todo \in [Threads -> Seq(Topics)]
      BY <3>1 DEF Init, Places
    <3>4. ThreadsOK
      BY <2>1, <3>1, <3>2, <3>3 DEF ThreadsOK
    <3>5. list = <<>> /\ managed = <<>> /\ Len(list) = 0 /\ Len(managed) = 0
      BY DEF Init
    <3>6. 0 \in Gone .. Len(list) /\ 0 \in Gone .. Len(managed)
      BY <3>5 DEF Gone
    <3>7. ListsOK
      BY <3>1, <3>5, <3>6 DEF Init, ListsOK, NoSweep
    <3> QED BY <3>4, <3>7
  <2>3. OthersOK
    <3>1. queue \in Seq(Messages) /\ Len(queue) <= Slots
      BY EmptySeq, SlotsAssumption DEF Init
    <3> QED BY <3>1 DEF Init, OthersOK
  <2> QED BY <2>2, <2>3, TypeParts
<1>2. ToSet(list) = {} /\ DOMAIN list = {} /\ DOMAIN queue = {}
  BY DEF Init, ToSet
<1>3. Loop \in Threads /\ \A r \in Registrars : r \in Threads
  BY DEF Threads
<1>4. hand.at = "idle"
  BY DEF Init, Nothing
<1> QED BY <1>1, <1>2, <1>3, <1>4
        DEF Init, IInv, SessionInv, PlaceInv, MarkInv, SweepInv, ServedIsListed, OneInternalEntry,
            ReplacedInv, KnownInv, SweptInv, MarkedInv, AwaitedInv, HandInv, Sweeping, Sweeps

LEMMA Preserved ==
  ASSUME IInv, [Next]_vars
  PROVE  IInv'
<1>1. TypeOK /\ SessionInv /\ PlaceInv /\ MarkInv /\ SweepInv
  BY DEF IInv
<1>2. TypeOK' /\ SessionInv' /\ PlaceInv' /\ MarkInv'
  BY <1>1, Types, Sessions, Held
<1> QED BY <1>2, SweepsOn, Served, Entries, KnownEntries, Marks, Awaits, Handed DEF IInv

(* The conjunction the others follow from. *)
THEOREM Invariant == Spec => []IInv
<1>1. Init => IInv
  BY Initially
<1>2. IInv /\ [Next]_vars => IInv'
  BY Preserved
<1> QED BY <1>1, <1>2, PTL DEF Spec

(* The variables keep their types, and the message queue its bound.        *)
THEOREM TypeCorrect == Spec => []TypeOK
<1>1. IInv => TypeOK
  BY DEF IInv
<1> QED BY <1>1, Invariant, PTL

(* A topic the broker sends messages of has its entry or is about to,      *)
(* unless an overlapping topic_add has cut it off, for any topics and any  *)
(* number of threads that subscribe (SAClient.c 289-317, 765-793).         *)
THEOREM ServedAlwaysListed == Spec => []ServedIsListed
<1>1. IInv => ServedIsListed
  BY DEF IInv
<1> QED BY <1>1, Invariant, PTL

(* No internal topic ever has two entries (SAClient.c 779-783).            *)
THEOREM OneInternalEntryAlways == Spec => []OneInternalEntry
<1>1. IInv => OneInternalEntry
  BY DEF IInv
<1> QED BY <1>1, Invariant, PTL

(* A disconnect leaves only entries the manager knows or will, or has had  *)
(* cut off its own list (SAClient.c 299-314).                              *)
THEOREM SweptCleanAlways == Spec => []SweptClean
<1>1. IInv => SweptClean
  <2>1. SUFFICES ASSUME IInv, api = "idle", ~loop, NEW u \in ToSet(list)
                 PROVE  \/ u \in ToSet(managed) \cup forgotten
                        \/ \E r \in Registrars : Registering(r, u)
    BY DEF SweptClean
  <2>2. Known(u)
    BY <2>1 DEF IInv, SweptInv, KnownInv
  <2> QED BY <2>2 DEF Known, Registering
<1> QED BY <1>1, Invariant, PTL

(* A queued message is dropped only because its topic is being subscribed, *)
(* its session has been ended or an overlap has cut off its entry          *)
(* (SAClient.c 166-183).                                                   *)
THEOREM DropsHaveReasons == Spec => DroppedForAReason
<1>1. IInv /\ [Next]_vars =>
        [hand # Nothing /\ hand' = Nothing /\ outcome' = "dropped" => Excused(hand.message)]_vars
  <2>1. SUFFICES ASSUME IInv, [Next]_vars, hand # Nothing, hand' = Nothing,
                        outcome' = "dropped", ~hand.message.swept
                 PROVE  \E u \in Topics :
                          /\ Found(<<u>>, hand.message.name) = u
                          /\ u \in lost \cup forgotten \/ \E t \in Threads : Registering(t, u)
    BY DEF Excused
  <2>2. TypeOK /\ list \in Seq(Topics) /\ hand \in Hands /\ ThreadsOK
    BY <2>1, TypeParts DEF IInv, TypeOK
  <2>3. FindCallback \/ FindHandler
    <3>1. ~Take /\ ~CallBack
      BY <2>1 DEF Take, CallBack, Nothing
    <3>2. ~HangUp
      BY <2>1, <2>2 DEF HangUp, MarkMessages, Nothing, Hands
    <3>3. ~UNCHANGED <<queue, hand>> /\ ~\E name \in Names : Publish(name)
      BY <2>1 DEF Publish
    <3> QED BY <2>1, <2>2, <3>1, <3>2, <3>3, MessageSteps DEF Passes, WorkerStep
  <2>4. CASE FindCallback
    <3>1. Found(list, hand.message.name) = None /\ hand.at = "finding"
      BY <2>1, <2>2, <2>4 DEF FindCallback, Nothing, Hands
    <3>2. PICK u \in Topics : Found(<<u>>, hand.message.name) = u /\ Kept(u)
      BY <2>1, <3>1 DEF IInv, AwaitedInv, Awaited
    <3>3. u \notin ToSet(list)
      BY <2>2, <3>1, <3>2, FoundEntry
    <3> QED BY <3>2, <3>3 DEF Kept, Registering
  <2>5. CASE FindHandler
    <3> DEFINE n == hand.message.name
    <3>1. hand.at = "manager" /\ n \notin ToSet(managed)
      BY <2>1, <2>5 DEF FindHandler
    <3>2. n \in forgotten \/ \E r \in Registrars : Recording(r, n)
      BY <2>1, <3>1 DEF IInv, HandInv, Known
    <3>3. n \in Topics
      <4>1. ASSUME NEW r \in Registrars, Recording(r, n) PROVE n \in Topics
        <5>1. r \in Threads /\ place[r] \in Active
          BY <4>1 DEF Recording, Threads, Active
        <5> QED BY <2>2, <4>1, <5>1, CurrentTopic DEF Recording
      <4>2. forgotten \subseteq Topics
        BY <2>2 DEF TypeOK, Topics
      <4> QED BY <3>2, <4>1, <4>2
    <3>4. Found(<<n>>, n) = n
      BY <3>3, FoundAlone
    <3>5. n \in forgotten \/ \E t \in Threads : Registering(t, n)
      BY <3>2 DEF Registering, Threads
    <3> QED BY <3>3, <3>4, <3>5
  <2> QED BY <2>3, <2>4, <2>5
<1> QED BY <1>1, Invariant, PTL DEF Spec, DroppedForAReason
=============================================================================
