------------------------------ MODULE MonitorProof ------------------------------
(***************************************************************************)
(* That the watchers of the agent-mail-monitor plugin, its lookup and its  *)
(* stand-alone monitor for Codex keep their promises, for any number of    *)
(* inboxes, messages, projects and reads.                                  *)
(***************************************************************************)
EXTENDS MCMonitor, TLAPS, SequenceTheorems, FiniteSetTheorems, WellFoundedInduction

(* A nonempty set of numbers below a bound has a greatest one. *)
LEMMA BoundedMax ==
  ASSUME NEW n \in Nat, NEW S \in SUBSET (0..n), S # {}
  PROVE  Max(S) \in S /\ \A y \in S : Max(S) >= y
<1> DEFINE Less == {p \in Nat \X Nat : p[1] < p[2]}
           Down == {n - x : x \in S}
<1>1. IsWellFoundedOn(Less, Nat)
  BY NatLessThanWellFounded DEF OpToRel
<1>2. \A x, y \in Nat : y < x => <<y, x>> \in Less
  OBVIOUS
<1>3. Down \in SUBSET Nat
  BY SMT
<1>4. Down # {}
  BY Zenon
<1> HIDE DEF Less
<1>5. PICK d \in Down : \A e \in Down : ~(<<e, d>> \in Less)
  BY <1>1, <1>3, <1>4, WFMin
<1>6. \A e \in Down : d <= e
  <2> SUFFICES ASSUME NEW e \in Down PROVE d <= e
    OBVIOUS
  <2>1. d \in Nat /\ e \in Nat
    BY <1>3
  <2>2. ~(e < d)
    BY <1>2, <1>5, <2>1
  <2> QED BY <2>1, <2>2
<1>7. PICK x \in S : d = n - x
  BY <1>5
<1>8. \A y \in S : x >= y
  BY <1>6, <1>7
<1> QED BY <1>7, <1>8 DEF Max

LEMMA HighestOfIds ==
  ASSUME NEW s \in SUBSET Ids
  PROVE  HighestOf(s) \in 0..MaxMail /\ \A i \in s : i <= HighestOf(s)
<1>1. s \cup {0} \in SUBSET (0..MaxMail) /\ s \cup {0} # {}
  BY MailboxFilesAssumption DEF Ids
<1>2. Max(s \cup {0}) \in s \cup {0} /\ \A y \in s \cup {0} : Max(s \cup {0}) >= y
  BY <1>1, BoundedMax, MailboxFilesAssumption
<1>3. \A i \in s : i \in Int
  BY MailboxFilesAssumption DEF Ids
<1> QED BY <1>1, <1>2, <1>3 DEF HighestOf

LEMMA BatchTop ==
  ASSUME NEW b \in SUBSET Ids, b # {}
  PROVE  Max(b) \in b /\ Max(b) \in Ids /\ \A i \in b : i <= Max(b)
<1>1. b \in SUBSET (0..MaxMail)
  BY MailboxFilesAssumption DEF Ids
<1>2. Max(b) \in b /\ \A y \in b : Max(b) >= y
  BY <1>1, BoundedMax, MailboxFilesAssumption
<1>3. \A i \in b : i \in Int
  BY MailboxFilesAssumption DEF Ids
<1> QED BY <1>2, <1>3

LEMMA HigherOfTwo ==
  ASSUME NEW a \in Int, NEW b \in Int
  PROVE  Max({a, b}) \in {a, b} /\ Max({a, b}) >= a /\ Max({a, b}) >= b
<1>1. \E x \in {a, b} : \A y \in {a, b} : x >= y
  <2>1. CASE a >= b
    BY <2>1
  <2>2. CASE b >= a
    BY <2>2
  <2> QED BY <2>1, <2>2
<1> QED BY <1>1 DEF Max

(* A nonempty set of numbers has a least one. *)
LEMMA LeastOf ==
  ASSUME NEW S \in SUBSET Nat, S # {}
  PROVE  Min(S) \in S /\ \A y \in S : Min(S) <= y
<1> DEFINE Less == {p \in Nat \X Nat : p[1] < p[2]}
<1>1. IsWellFoundedOn(Less, Nat)
  BY NatLessThanWellFounded DEF OpToRel
<1>2. \A x, y \in Nat : y < x => <<y, x>> \in Less
  OBVIOUS
<1> HIDE DEF Less
<1>3. PICK d \in S : \A e \in S : ~(<<e, d>> \in Less)
  BY <1>1, WFMin
<1>4. \A e \in S : d <= e
  <2> SUFFICES ASSUME NEW e \in S PROVE d <= e
    OBVIOUS
  <2>1. d \in Nat /\ e \in Nat
    OBVIOUS
  <2>2. ~(e < d)
    BY <1>2, <1>3, <2>1
  <2> QED BY <2>1, <2>2
<1> QED BY <1>4 DEF Min

LEMMA Appended ==
  ASSUME NEW T, NEW s \in Seq(T), NEW e \in T
  PROVE  /\ Append(s, e) \in Seq(T) /\ Len(s) \in Nat
         /\ DOMAIN s = 1..Len(s) /\ DOMAIN Append(s, e) = 1..(Len(s) + 1)
         /\ \A k \in 1..Len(s) : Append(s, e)[k] = s[k]
         /\ Append(s, e)[Len(s) + 1] = e
<1>1. /\ Append(s, e) \in Seq(T) /\ Len(Append(s, e)) = Len(s) + 1 /\ Len(s) \in Nat
      /\ \A k \in 1..Len(s) : Append(s, e)[k] = s[k]
      /\ Append(s, e)[Len(s) + 1] = e
  BY AppendProperties
<1>2. DOMAIN s = 1..Len(s)
  OBVIOUS
<1>3. DOMAIN Append(s, e) = 1..Len(Append(s, e))
  BY <1>1
<1> QED BY <1>1, <1>2, <1>3

(* Induction, for a set of numbers. *)
LEMMA NatSetInduction ==
  ASSUME NEW S \in SUBSET Nat, 0 \in S, \A n \in S : n + 1 \in S
  PROVE  S = Nat
<1> DEFINE Less == {p \in Nat \X Nat : p[1] < p[2]}
           Out == Nat \ S
<1> SUFFICES ASSUME Out # {} PROVE FALSE
  OBVIOUS
<1>1. IsWellFoundedOn(Less, Nat)
  BY NatLessThanWellFounded DEF OpToRel
<1>2. \A x, y \in Nat : y < x => <<y, x>> \in Less
  OBVIOUS
<1> HIDE DEF Less
<1>3. Out \in SUBSET Nat
  OBVIOUS
<1> HIDE DEF Out
<1>4. PICK d \in Out : \A e \in Out : ~(<<e, d>> \in Less)
  BY <1>1, <1>3, WFMin
<1>5. d \in Nat /\ d \notin S /\ d # 0
  BY <1>3, <1>4 DEF Out
<1>6. d - 1 \in Nat /\ d - 1 < d /\ (d - 1) + 1 = d
  BY <1>5
<1>7. d - 1 \notin S
  BY <1>5, <1>6
<1>8. d - 1 \in Out
  BY <1>6, <1>7 DEF Out
<1> QED BY <1>2, <1>4, <1>5, <1>6, <1>8

(* A finite set has a last element, and can be listed, under a total order *)
(* of its elements.                                                        *)
Orders(R, U) ==
  /\ \A x, y \in U : x # y => <<x, y>> \in R \/ <<y, x>> \in R
  /\ \A x, y, z \in U : <<x, y>> \in R /\ <<y, z>> \in R => <<x, z>> \in R

LEMMA TopmostExists ==
  ASSUME NEW U, NEW R,
         Orders(R, U),
         NEW T \in SUBSET U, IsFiniteSet(T), T # {}
  PROVE  \E m \in T : \A x \in T \ {m} : <<x, m>> \in R
<1> DEFINE Good(V) == \E m \in V : \A x \in V \ {m} : <<x, m>> \in R
           G == {n \in Nat : \A V \in SUBSET U : IsFiniteSet(V) /\ V # {} /\ Cardinality(V) = n => Good(V)}
<1>1. 0 \in G
  <2>1. \A V : IsFiniteSet(V) /\ V # {} => Cardinality(V) # 0
    BY FS_EmptySet
  <2> QED BY <2>1
<1>2. ASSUME NEW n \in G PROVE n + 1 \in G
  <2> SUFFICES ASSUME NEW V \in SUBSET U, IsFiniteSet(V), V # {}, Cardinality(V) = n + 1
               PROVE  Good(V)
    OBVIOUS
  <2>1. PICK v \in V : TRUE
    OBVIOUS
  <2> DEFINE W == V \ {v}
  <2>2. IsFiniteSet(W) /\ Cardinality(W) = n /\ W \in SUBSET U
    <3>1. n \in Nat
      OBVIOUS
    <3>2. IsFiniteSet(W) /\ Cardinality(W) = Cardinality(V) - 1
      BY <2>1, FS_RemoveElement
    <3> QED BY <3>1, <3>2
  <2>3. CASE W = {}
    BY <2>1, <2>3
  <2>4. CASE W # {}
    <3>1. PICK m \in W : \A x \in W \ {m} : <<x, m>> \in R
      BY <2>2, <2>4
    <3>2. v \in U /\ m \in U /\ v # m /\ m \in V
      BY <2>1, <3>1
    <3>2a. /\ <<v, m>> \in R \/ <<m, v>> \in R
           /\ \A x \in U : <<x, m>> \in R /\ <<m, v>> \in R => <<x, v>> \in R
      BY <3>2 DEF Orders
    <3>3. CASE <<v, m>> \in R
      <4>1. \A x \in V \ {m} : <<x, m>> \in R
        BY <3>1, <3>3
      <4> QED BY <3>2, <4>1
    <3>4. CASE <<m, v>> \in R
      <4>1. \A x \in V \ {v} : <<x, v>> \in R
        BY <3>1, <3>2a, <3>4
      <4> QED BY <2>1, <4>1
    <3> QED BY <3>2a, <3>3, <3>4
  <2> QED BY <2>3, <2>4
<1>3. G = Nat
  <2> HIDE DEF G
  <2>1. G \in SUBSET Nat
    BY DEF G
  <2> QED BY <1>1, <1>2, <2>1, NatSetInduction
<1>4. Cardinality(T) \in Nat
  BY FS_CardinalityType
<1>5. Cardinality(T) \in G
  BY <1>3, <1>4
<1> QED BY <1>5

LEMMA ListingExists ==
  ASSUME NEW U, NEW R,
         Orders(R, U),
         NEW T \in SUBSET U, IsFiniteSet(T)
  PROVE  \E s \in [1..Cardinality(T) -> T] :
            /\ {s[k] : k \in DOMAIN s} = T
            /\ \A j, k \in DOMAIN s : j < k => <<s[j], s[k]>> \in R
<1> DEFINE Good(V, n) == \E s \in [1..n -> V] :
             /\ {s[k] : k \in DOMAIN s} = V
             /\ \A j, k \in DOMAIN s : j < k => <<s[j], s[k]>> \in R
           G == {n \in Nat : \A V \in SUBSET U : IsFiniteSet(V) /\ Cardinality(V) = n => Good(V, n)}
<1>1. 0 \in G
  <2> SUFFICES ASSUME NEW V \in SUBSET U, IsFiniteSet(V), Cardinality(V) = 0
               PROVE  Good(V, 0)
    OBVIOUS
  <2>1. V = {}
    BY FS_EmptySet
  <2> DEFINE e == [k \in 1..0 |-> k]
  <2>2. e \in [1..0 -> V] /\ DOMAIN e = {}
    OBVIOUS
  <2> HIDE DEF e
  <2>3. {e[k] : k \in DOMAIN e} = {}
    BY <2>2
  <2> QED BY <2>1, <2>2, <2>3
<1>2. ASSUME NEW n \in G PROVE n + 1 \in G
  <2>0. n \in Nat /\ n + 1 \in Nat
    OBVIOUS
  <2> SUFFICES ASSUME NEW V \in SUBSET U, IsFiniteSet(V), Cardinality(V) = n + 1
               PROVE  Good(V, n + 1)
    <3> HIDE DEF Good
    <3> QED BY <2>0
  <2>1. n \in Nat
    OBVIOUS
  <2>2. V # {}
    BY <2>1, FS_EmptySet
  <2>3. PICK m \in V : \A x \in V \ {m} : <<x, m>> \in R
    <3> HIDE DEF G, Good
    <3>1. \E m \in V : \A x \in V \ {m} : <<x, m>> \in R
      BY <2>2, TopmostExists
    <3> QED BY <3>1
  <2> DEFINE W == V \ {m}
  <2>4. IsFiniteSet(W) /\ Cardinality(W) = n /\ W \in SUBSET U
    <3>1. IsFiniteSet(W) /\ Cardinality(W) = Cardinality(V) - 1
      BY <2>3, FS_RemoveElement
    <3> QED BY <2>1, <3>1
  <2>5. PICK s \in [1..n -> W] :
             /\ {s[k] : k \in DOMAIN s} = W
             /\ \A j, k \in DOMAIN s : j < k => <<s[j], s[k]>> \in R
    BY <2>4
  <2> DEFINE t == [k \in 1..(n + 1) |-> IF k = n + 1 THEN m ELSE s[k]]
  <2>6. /\ t \in [1..(n + 1) -> V] /\ DOMAIN t = 1..(n + 1) /\ DOMAIN s = 1..n
        /\ t[n + 1] = m /\ \A k \in 1..n : t[k] = s[k] /\ s[k] \in W
    BY <2>1, <2>3, <2>5
  <2> HIDE DEF t
  <2>7. \A j, k \in DOMAIN t : j < k => <<t[j], t[k]>> \in R
    <3> SUFFICES ASSUME NEW j \in 1..(n + 1), NEW k \in 1..(n + 1), j < k
                 PROVE  <<t[j], t[k]>> \in R
      BY <2>6
    <3>1. j \in 1..n
      BY <2>1
    <3>2. CASE k = n + 1
      BY <2>3, <2>6, <3>1, <3>2
    <3>3. CASE k # n + 1
      <4>1. k \in 1..n
        BY <2>1, <3>3
      <4> QED BY <2>5, <2>6, <3>1, <4>1
    <3> QED BY <3>2, <3>3
  <2>8. {t[k] : k \in DOMAIN t} = V
    <3>1. \A k \in DOMAIN t : t[k] \in V
      BY <2>6
    <3>2. \A x \in V : \E k \in DOMAIN t : t[k] = x
      <4> TAKE x \in V
      <4>1. CASE x = m
        BY <2>1, <2>6, <4>1
      <4>2. CASE x # m
        <5>1. PICK k \in 1..n : s[k] = x
          BY <2>5, <2>6, <4>2
        <5> QED BY <2>1, <2>6, <5>1
      <4> QED BY <4>1, <4>2
    <3> QED BY <3>1, <3>2
  <2> QED BY <2>6, <2>7, <2>8
<1>3. G = Nat
  <2> HIDE DEF G
  <2>1. G \in SUBSET Nat
    BY DEF G
  <2> QED BY <1>1, <1>2, <2>1, NatSetInduction
<1>4. Cardinality(T) \in Nat
  BY FS_CardinalityType
<1>5. Cardinality(T) \in G
  BY <1>3, <1>4
<1> QED BY <1>5

LEMMA FilesBegin ==
  ASSUME FilesInit
  PROVE  FilesTypeOK
BY MailboxFilesAssumption DEF FilesInit, FilesTypeOK, NoScan, Dirs

LEMMA FilesStutter ==
  ASSUME FilesTypeOK, UNCHANGED filesVars
  PROVE  FilesTypeOK'
BY DEF filesVars, FilesTypeOK

-----------------------------------------------------------------------------
(* The stand-alone monitor for Codex. *)

CodexSpec == CodexInit /\ FilesInit /\ [][CodexNext]_<<filesVars, codexVars>>

LEMMA WireTypes ==
  ASSUME NEW W
  PROVE  /\ <<>> \in Seq(W) /\ Len(<<>>) = 0
         /\ \A a \in W : <<a>> \in Seq(W) /\ Len(<<a>>) = 1
         /\ \A a, b \in W : <<a, b>> \in Seq(W) /\ Len(<<a, b>>) = 2
OBVIOUS

LEMMA WireMoves ==
  ASSUME NEW a, NEW b
  PROVE  /\ Append(<<>>, a) = <<a>> /\ Append(<<a>>, b) = <<a, b>>
         /\ Head(<<a>>) = a /\ Tail(<<a>>) = <<>>
         /\ Head(<<a, b>>) = a /\ Tail(<<a, b>>) = <<b>>
         /\ <<a>> # <<>> /\ <<a, b>> # <<>>
         /\ DOMAIN <<>> = {} /\ DOMAIN <<a>> = {1} /\ DOMAIN <<a, b>> = {1, 2}
         /\ <<a>>[1] = a /\ <<a, b>>[1] = a /\ <<a, b>>[2] = b
<1>1. /\ <<a>> # <<>> /\ <<a, b>> # <<>>
      /\ DOMAIN <<>> = {} /\ DOMAIN <<a>> = {1} /\ DOMAIN <<a, b>> = {1, 2}
      /\ <<a>>[1] = a /\ <<a, b>>[1] = a /\ <<a, b>>[2] = b
  OBVIOUS
<1>2. /\ Append(<<>>, a) = <<a>>
  OBVIOUS
<1>3. Append(<<a>>, b) = <<a, b>>
  <2>1. <<a>> \in Seq({a, b}) /\ Len(<<a>>) = 1
    OBVIOUS
  <2>2. <<a, b>> \in Seq({a, b}) /\ Len(<<a, b>>) = 2
    OBVIOUS
  <2>3. /\ Append(<<a>>, b) \in Seq({a, b}) /\ Len(Append(<<a>>, b)) = 2
        /\ Append(<<a>>, b)[1] = a /\ Append(<<a>>, b)[2] = b
    BY <2>1, AppendProperties
  <2>4. <<a, b>>[1] = a /\ <<a, b>>[2] = b
    OBVIOUS
  <2> DEFINE t == Append(<<a>>, b)
             u == <<a, b>>
  <2> HIDE DEF t, u
  <2>5. /\ t \in Seq({a, b}) /\ u \in Seq({a, b}) /\ Len(t) = 2 /\ Len(u) = 2
        /\ t[1] = u[1] /\ t[2] = u[2]
    BY <2>2, <2>3, <2>4 DEF t, u
  <2>6. \A i \in 1 .. Len(t) : t[i] = u[i]
    BY <2>5
  <2>7. t = u
    BY <2>5, <2>6, SeqEqual
  <2> QED BY <2>7 DEF t, u
<1>4. Head(<<a>>) = a /\ Head(<<a, b>>) = a
  OBVIOUS
<1>5. Tail(<<a>>) = <<>>
  OBVIOUS
<1>6. Tail(<<a, b>>) = <<b>>
  OBVIOUS
<1> QED BY <1>1, <1>2, <1>3, <1>4, <1>5, <1>6

LEMMA CodexBegins ==
  ASSUME CodexInit, FilesTypeOK
  PROVE  CodexInv
<1> USE MailboxFilesAssumption DEF CodexInit, NoMonitor, NoMark
<1>1a. wire \in Seq({"answer"} \cup Statuses) /\ Len(wire) <= 2
  BY WireTypes
<1>1b. given \in [Ids -> 0..2] /\ mon \in [at : {"off"}, frontier : NoMark..MaxMail]
  BY DEF Ids
<1>1c. CodexTypeOK
  BY <1>1a, <1>1b DEF CodexTypeOK
<1>2. PassMissesNone /\ BatchMissesNone /\ GivenIsPassed /\ OriginIsBelow
  BY DEF PassMissesNone, BatchMissesNone, Delivering, GivenIsPassed, OriginIsBelow
<1>3. WireIsOfTheTurn /\ CompletedIsServed /\ TurnFollowsLoop
  BY DEF WireIsOfTheTurn, CompletedIsServed, TurnFollowsLoop, Delivering, Statuses
<1>4. CodexPromise
  BY DEF CodexPromise, Ids
<1> QED BY <1>1c, <1>2, <1>3, <1>4 DEF CodexInv

LEMMA StartMonitorKeeps ==
  ASSUME FilesTypeOK, CodexInv, StartMonitor
  PROVE  FilesTypeOK' /\ CodexInv'
<1> PICK since \in NoMark..MaxMail :
           /\ mon' = [at |-> IF since = NoMark THEN "baseline" ELSE "scan", frontier |-> since]
           /\ origin' = since
           /\ PassStarts(Dirs, since)
  BY DEF StartMonitor
<1>1. /\ batch' = {} /\ turn' = "none" /\ wire' = <<>> /\ answered' = FALSE /\ done' = "none"
      /\ given' = [i \in Ids |-> 0] /\ served' = {}
  BY DEF StartMonitor
<1>2. FilesTypeOK'
  BY DEF FilesTypeOK, PassStarts
<1>3a. wire' \in Seq({"answer"} \cup Statuses) /\ Len(wire') <= 2
  BY <1>1, WireTypes
<1>3b. given' \in [Ids -> 0..2]
  BY <1>1
<1>3. CodexTypeOK'
  BY <1>1, <1>3a, <1>3b, MailboxFilesAssumption DEF CodexTypeOK, NoMark
<1>4. PassMissesNone'
  BY DEF PassStarts, PassMissesNone, In
<1>5. ~Delivering' /\ mon'.frontier = since /\ mon'.at \in {"baseline", "scan"}
  BY DEF Delivering
<1>6. BatchMissesNone' /\ GivenIsPassed' /\ OriginIsBelow'
  BY <1>1, <1>5, MailboxFilesAssumption DEF BatchMissesNone, GivenIsPassed, OriginIsBelow, NoMark
<1>7. WireIsOfTheTurn' /\ CompletedIsServed' /\ TurnFollowsLoop'
  BY <1>1, <1>5 DEF WireIsOfTheTurn, CompletedIsServed, TurnFollowsLoop
<1>8. CodexPromise'
  BY <1>1, <1>5, MailboxFilesAssumption DEF CodexPromise, Answerable, In, Ids, NoMark
<1> QED BY <1>2, <1>3, <1>4, <1>6, <1>7, <1>8 DEF CodexInv

LEMMA WalkDirKeeps ==
  ASSUME FilesTypeOK, CodexInv, WalkDir
  PROVE  FilesTypeOK' /\ CodexInv'
<1>1. /\ mon.at \in {"baseline", "scan"} /\ landed' = landed /\ excused' = excused
      /\ scan' = [todo |-> scan.todo \ {NextInbox}, seen |-> scan.seen \cup In({NextInbox})]
      /\ UNCHANGED codexVars
  BY DEF WalkDir, InboxRead
<1>2. FilesTypeOK'
  BY <1>1 DEF FilesTypeOK, In
<1>3. PassMissesNone'
  BY <1>1 DEF PassMissesNone, In, codexVars, CodexInv
<1> QED BY <1>1, <1>2, <1>3 DEF codexVars, CodexInv, CodexTypeOK, BatchMissesNone,
     Delivering, WireIsOfTheTurn, CompletedIsServed, TurnFollowsLoop, GivenIsPassed,
     OriginIsBelow, CodexPromise, Answerable, In

LEMMA BaselinedKeeps ==
  ASSUME FilesTypeOK, CodexInv, Baselined
  PROVE  FilesTypeOK' /\ CodexInv'
<1> DEFINE top == HighestOf(scan.seen)
<1>1. top \in 0..MaxMail
  BY HighestOfIds DEF FilesTypeOK
<1> HIDE DEF top
<1>2. /\ mon.at = "baseline" /\ mon' = [at |-> "scan", frontier |-> top] /\ origin' = top
      /\ PassStarts(Dirs, top) /\ UNCHANGED <<deliveryVars, given, served>>
  BY DEF Baselined, top
<1>3. FilesTypeOK'
  BY <1>2 DEF FilesTypeOK, PassStarts
<1>4. CodexTypeOK'
  BY <1>1, <1>2, MailboxFilesAssumption DEF CodexTypeOK, CodexInv, deliveryVars, NoMark
<1>5. PassMissesNone'
  BY <1>2 DEF PassStarts, PassMissesNone, In
<1>6a. \A i \in Ids : given[i] # 1
  BY <1>2, MailboxFilesAssumption DEF GivenIsPassed, CodexInv, OriginIsBelow, Delivering, NoMark, Ids
<1>6. GivenIsPassed'
  BY <1>2, <1>6a DEF GivenIsPassed
<1>7. BatchMissesNone' /\ OriginIsBelow' /\ WireIsOfTheTurn' /\ CompletedIsServed' /\ TurnFollowsLoop'
  BY <1>1, <1>2 DEF CodexInv, BatchMissesNone, Delivering, OriginIsBelow, WireIsOfTheTurn,
     CompletedIsServed, TurnFollowsLoop, deliveryVars
<1>8. CodexPromise'
  BY <1>1, <1>2, <1>6a DEF CodexInv, CodexPromise, Answerable, In, Ids, deliveryVars
<1> QED BY <1>3, <1>4, <1>5, <1>6, <1>7, <1>8 DEF CodexInv

LEMMA NothingFreshKeeps ==
  ASSUME FilesTypeOK, CodexInv, NothingFresh
  PROVE  FilesTypeOK' /\ CodexInv'
<1> DEFINE top == Max({mon.frontier, HighestOf(scan.seen)})
<1>1. mon.frontier \in Int /\ HighestOf(scan.seen) \in Int
  BY HighestOfIds, MailboxFilesAssumption DEF FilesTypeOK, CodexInv, CodexTypeOK, NoMark
<1>2. top >= mon.frontier
  BY <1>1, HigherOfTwo
<1>3. /\ mon.at = "scan" /\ mon' = [mon EXCEPT !.at = "wait"] /\ UNCHANGED <<landed, scan>>
      /\ excused' = {i \in excused : i <= top} /\ UNCHANGED <<deliveryVars, historyVars>>
  BY DEF NothingFresh, PassEnds
<1>4. top \in Int
  BY <1>1, HigherOfTwo
<1> HIDE DEF top
<1>5. /\ mon' \in [at : {"wait"}, frontier : NoMark..MaxMail] /\ mon'.frontier = mon.frontier
      /\ mon'.at = "wait"
  BY <1>3 DEF CodexInv, CodexTypeOK
<1>6. FilesTypeOK'
  BY <1>3 DEF FilesTypeOK
<1>7. CodexTypeOK'
  BY <1>3, <1>5 DEF CodexTypeOK, CodexInv, deliveryVars, historyVars
<1>8. PassMissesNone' /\ BatchMissesNone' /\ GivenIsPassed' /\ OriginIsBelow'
  BY <1>3, <1>5 DEF PassMissesNone, BatchMissesNone, Delivering, GivenIsPassed, OriginIsBelow,
     CodexInv, historyVars
<1>9. WireIsOfTheTurn' /\ CompletedIsServed' /\ TurnFollowsLoop'
  BY <1>3, <1>5 DEF WireIsOfTheTurn, CompletedIsServed, TurnFollowsLoop, Delivering, CodexInv,
     deliveryVars, historyVars
<1>10. CodexPromise'
  <2>1. \A i \in Ids : i \in Int /\ mon.frontier \in Int
    BY <1>1 DEF Ids
  <2>2. Answerable(Dirs, origin, mon.frontier)' \subseteq Answerable(Dirs, origin, mon.frontier)
    BY <1>1, <1>2, <1>3, <1>4, <1>5, <2>1 DEF Answerable, In, historyVars
  <2> QED BY <1>3, <1>5, <2>2 DEF CodexPromise, CodexInv, historyVars, deliveryVars
<1> QED BY <1>6, <1>7, <1>8, <1>9, <1>10 DEF CodexInv

LEMMA DeliverKeeps ==
  ASSUME FilesTypeOK, CodexInv, Deliver
  PROVE  FilesTypeOK' /\ CodexInv'
<1> DEFINE top == Max({mon.frontier, HighestOf(scan.seen)})
<1>1. /\ mon.frontier \in Int /\ HighestOf(scan.seen) \in Int
      /\ \A i \in scan.seen : i <= HighestOf(scan.seen) /\ i \in Ids
  BY HighestOfIds, MailboxFilesAssumption DEF FilesTypeOK, CodexInv, CodexTypeOK, NoMark
<1>2. top >= mon.frontier /\ top >= HighestOf(scan.seen) /\ top \in Int
  BY <1>1, HigherOfTwo
<1>3. /\ mon.at = "scan" /\ mon' = [mon EXCEPT !.at = "starting"] /\ UNCHANGED <<landed, scan>>
      /\ excused' = {i \in excused : i <= top} /\ scan.todo = {} /\ Fresh # {}
      /\ batch' = Fresh /\ turn' = "asked" /\ answered' = FALSE /\ done' = "none"
      /\ given' = [i \in Ids |-> IF i \in Fresh THEN given[i] + 1 ELSE given[i]]
      /\ UNCHANGED <<wire, origin, served>>
  BY DEF Deliver, PassEnds
<1> HIDE DEF top
<1>4. /\ mon' \in [at : {"starting"}, frontier : NoMark..MaxMail] /\ mon'.frontier = mon.frontier
      /\ mon'.at = "starting" /\ Delivering' /\ ~Delivering
  BY <1>3 DEF CodexInv, CodexTypeOK, Delivering
<1>5. Fresh \in SUBSET Ids /\ \A i \in Fresh : i \in scan.seen /\ i > mon.frontier
  BY DEF Fresh, FilesTypeOK
<1>6. Max(Fresh) \in Fresh /\ Max(Fresh) \in Ids /\ \A i \in Fresh : i <= Max(Fresh)
  BY <1>3, <1>5, BatchTop
<1>7. \A i \in Ids : given[i] \in 0..1 /\ i \in Int /\ (i \in Fresh => given[i] = 0)
  <2> TAKE i \in Ids
  <2>1. given[i] \in 0..2 /\ given[i] <= 1 /\ i \in Int
    BY DEF CodexInv, CodexTypeOK, CodexPromise, Ids
  <2>2. given[i] = 1 => i <= mon.frontier
    BY <1>3, <1>4 DEF CodexInv, GivenIsPassed
  <2> QED BY <1>1, <1>5, <2>1, <2>2
<1>8. FilesTypeOK'
  BY <1>3 DEF FilesTypeOK
<1>9. CodexTypeOK'
  <2>1. given' \in [Ids -> 0..2]
    BY <1>3, <1>7
  <2> QED BY <1>3, <1>4, <1>5, <2>1 DEF CodexTypeOK, CodexInv
<1>10. BatchMissesNone'
  <2> DEFINE m == Max(Fresh)
  <2>1. m \in Int /\ m <= top
    BY <1>1, <1>2, <1>5, <1>6 DEF Ids
  <2>2. ASSUME NEW i \in Ids, landed[i] \in Dirs, mon.frontier < i, i <= m
        PROVE  i \in Fresh \cup excused'
    <3>1. i \in scan.seen \/ i \in excused
      BY <1>3, <2>2 DEF CodexInv, PassMissesNone, In
    <3> QED BY <1>1, <1>2, <1>3, <2>1, <2>2, <3>1 DEF Fresh, Ids
  <2> HIDE DEF m
  <2>3. Max(batch') = m
    BY <1>3 DEF m
  <2> QED BY <1>3, <1>4, <1>5, <2>2, <2>3 DEF BatchMissesNone, In
<1>11. PassMissesNone' /\ OriginIsBelow'
  BY <1>3, <1>4 DEF PassMissesNone, OriginIsBelow, CodexInv
<1>12. GivenIsPassed'
  <2>1. ASSUME NEW i \in Ids, given'[i] = 1 PROVE i <= mon.frontier \/ i \in Fresh
    BY <1>3, <1>4, <2>1 DEF CodexInv, GivenIsPassed
  <2> QED BY <1>3, <1>4, <2>1 DEF GivenIsPassed
<1>13. WireIsOfTheTurn' /\ CompletedIsServed' /\ TurnFollowsLoop'
  BY <1>3, <1>4 DEF WireIsOfTheTurn, CompletedIsServed, TurnFollowsLoop, Delivering, CodexInv
<1>14. CodexPromise'
  <2>1. Answerable(Dirs, origin, mon.frontier)' \subseteq Answerable(Dirs, origin, mon.frontier)
    BY <1>1, <1>2, <1>3, <1>4, <1>7 DEF Answerable, In
  <2>2. ASSUME NEW i \in Ids PROVE given'[i] <= 1 /\ (given'[i] = 1 => i > origin)
    <3>1. origin <= mon.frontier /\ origin \in Int
      BY <1>3, MailboxFilesAssumption DEF CodexInv, OriginIsBelow, CodexTypeOK, NoMark
    <3>2. CASE i \in Fresh
      BY <1>1, <1>3, <1>5, <1>7, <3>1, <3>2
    <3>3. CASE i \notin Fresh
      BY <1>3, <3>3 DEF CodexInv, CodexPromise
    <3> QED BY <3>2, <3>3
  <2>3. origin' # NoMark => Answerable(Dirs, origin, mon.frontier)' \subseteq served'
    BY <1>3, <2>1 DEF CodexInv, CodexPromise
  <2>4. ~(mon'.at \in {"baseline", "scan", "wait"})
    BY <1>4
  <2>5. \A i \in Ids : given'[i] <= 1 /\ (given'[i] = 1 => i > origin')
    BY <1>3, <2>2
  <2> QED BY <2>3, <2>4, <2>5 DEF CodexPromise
<1> QED BY <1>8, <1>9, <1>10, <1>11, <1>12, <1>13, <1>14 DEF CodexInv

(* The app server and the read loop move the turn and its lines.           *)
LEMMA ServerAnswersKeeps ==
  ASSUME FilesTypeOK, CodexInv, ServerAnswers
  PROVE  FilesTypeOK' /\ CodexInv'
<1>1. /\ turn = "asked" /\ turn' = "running" /\ wire' = Append(wire, "answer")
      /\ UNCHANGED <<landed, scan, excused, mon, batch, answered, done, origin, given, served>>
  BY DEF ServerAnswers, filesVars, historyVars
<1>2. wire = <<>> /\ ~answered /\ done = "none"
  BY <1>1 DEF CodexInv, WireIsOfTheTurn
<1>3. /\ wire' = <<"answer">> /\ wire'[1] = "answer" /\ DOMAIN wire' = {1}
      /\ wire' \in Seq({"answer"} \cup Statuses) /\ Len(wire') = 1
  BY <1>1, <1>2, WireMoves, WireTypes
<1>4. FilesTypeOK'
  BY <1>1 DEF FilesTypeOK
<1>5. CodexTypeOK'
  BY <1>1, <1>3 DEF CodexTypeOK, CodexInv
<1>6. WireIsOfTheTurn' /\ CompletedIsServed' /\ TurnFollowsLoop'
  BY <1>1, <1>2, <1>3 DEF WireIsOfTheTurn, CompletedIsServed, TurnFollowsLoop, Delivering, CodexInv
<1>7. PassMissesNone' /\ BatchMissesNone' /\ GivenIsPassed' /\ OriginIsBelow'
  BY <1>1 DEF PassMissesNone, BatchMissesNone, Delivering, GivenIsPassed, OriginIsBelow, In, CodexInv
<1>8. CodexPromise'
  BY <1>1 DEF CodexPromise, Answerable, In, CodexInv, TurnFollowsLoop
<1> QED BY <1>4, <1>5, <1>6, <1>7, <1>8 DEF CodexInv

LEMMA TurnEndsKeeps ==
  ASSUME FilesTypeOK, CodexInv, TurnEnds
  PROVE  FilesTypeOK' /\ CodexInv'
<1> PICK status \in Statuses :
           /\ wire' = Append(wire, status)
           /\ served' = IF status = "completed" THEN served \cup batch ELSE served
  BY DEF TurnEnds
<1>1. /\ turn = "running" /\ turn' = "over"
      /\ UNCHANGED <<landed, scan, excused, mon, batch, answered, done, origin, given>>
  BY DEF TurnEnds, filesVars
<1>2. done = "none" /\ wire = IF answered THEN <<>> ELSE <<"answer">>
  BY <1>1 DEF CodexInv, WireIsOfTheTurn
<1>3. /\ answered => wire' = <<status>> /\ DOMAIN wire' = {1} /\ wire'[1] = status
      /\ ~answered => /\ wire' = <<"answer", status>> /\ DOMAIN wire' = {1, 2}
                      /\ wire'[1] = "answer" /\ wire'[2] = status
  <2>1. CASE answered
    <3>1. wire' = <<status>>
      BY <1>2, <2>1, WireMoves
    <3> QED BY <2>1, <3>1, WireMoves
  <2>2. CASE ~answered
    <3>1. wire' = <<"answer", status>>
      BY <1>2, <2>2, WireMoves
    <3> QED BY <2>2, <3>1, WireMoves
  <2> QED BY <2>1, <2>2
<1>4. wire' \in Seq({"answer"} \cup Statuses) /\ Len(wire') <= 2
  <2> DEFINE W == {"answer"} \cup Statuses
  <2>1. status \in W /\ "answer" \in W
    OBVIOUS
  <2> HIDE DEF W
  <2>2. wire' \in Seq(W) /\ Len(wire') <= 2
    <3>1. CASE wire' = <<status>>
      BY <2>1, <3>1, WireTypes
    <3>2. CASE wire' = <<"answer", status>>
      BY <2>1, <3>2, WireTypes
    <3> QED BY <1>3, <3>1, <3>2
  <2> QED BY <2>2 DEF W
<1>5. FilesTypeOK'
  BY <1>1 DEF FilesTypeOK
<1>6. CodexTypeOK'
  BY <1>1, <1>4 DEF CodexTypeOK, CodexInv
<1>7. answered \in BOOLEAN
  BY DEF CodexTypeOK, CodexInv
<1>8. WireIsOfTheTurn'
  BY <1>1, <1>2, <1>3, <1>7 DEF WireIsOfTheTurn
<1>9. CompletedIsServed'
  <2>1. status # "completed" => ~\E k \in DOMAIN wire' : wire'[k] = "completed"
    BY <1>3, <1>7
  <2>2. status = "completed" => batch' \subseteq served'
    BY <1>1
  <2> QED BY <1>1, <1>2, <2>1, <2>2 DEF CompletedIsServed
<1>10. TurnFollowsLoop'
  BY <1>1 DEF TurnFollowsLoop, Delivering, CodexInv
<1>11. PassMissesNone' /\ BatchMissesNone' /\ GivenIsPassed' /\ OriginIsBelow'
  BY <1>1 DEF PassMissesNone, BatchMissesNone, Delivering, GivenIsPassed, OriginIsBelow, In, CodexInv
<1>12. CodexPromise'
  BY <1>1 DEF CodexPromise, Answerable, In, CodexInv
<1> QED BY <1>5, <1>6, <1>8, <1>9, <1>10, <1>11, <1>12 DEF CodexInv

LEMMA ReadLineKeeps ==
  ASSUME FilesTypeOK, CodexInv, ReadLine
  PROVE  FilesTypeOK' /\ CodexInv'
<1>1. /\ wire # <<>> /\ wire' = Tail(wire)
      /\ IF Head(wire) = "answer" THEN answered' = TRUE /\ done' = done
         ELSE done' = Head(wire) /\ answered' = answered
      /\ UNCHANGED <<landed, scan, excused, mon, batch, turn, origin, given, served>>
  BY DEF ReadLine, filesVars, historyVars
<1>2. done = "none" /\ (answered => turn = "over") /\ turn \in {"running", "over"}
  BY <1>1 DEF CodexInv, WireIsOfTheTurn, CodexTypeOK
<1>3. FilesTypeOK'
  BY <1>1 DEF FilesTypeOK
<1>4. ~(mon.at \in {"baseline", "scan", "wait"})
  BY <1>1 DEF CodexInv, TurnFollowsLoop
<1>5. \A s \in Statuses : s # "answer" /\ s # "none"
  BY DEF Statuses
<1>6. /\ WireIsOfTheTurn' /\ CompletedIsServed' /\ (answered => answered')
      /\ wire' \in Seq({"answer"} \cup Statuses) /\ Len(wire') <= 2
      /\ answered' \in BOOLEAN /\ done' \in {"none"} \cup Statuses
  <2>1. CASE ~answered /\ turn = "running"
    <3>1. wire = <<"answer">>
      BY <2>1 DEF CodexInv, WireIsOfTheTurn
    <3>2. wire' = <<>> /\ answered' = TRUE /\ done' = "none" /\ DOMAIN wire' = {}
      BY <1>1, <1>2, <3>1, WireMoves
    <3>3. wire' \in Seq({"answer"} \cup Statuses) /\ Len(wire') = 0
      BY <3>2, WireTypes
    <3>4. WireIsOfTheTurn' /\ CompletedIsServed'
      BY <1>1, <2>1, <3>2 DEF WireIsOfTheTurn, CompletedIsServed
    <3> QED BY <3>2, <3>3, <3>4
  <2>2. CASE ~answered /\ turn = "over"
    <3>1. PICK s \in Statuses : wire = <<"answer", s>>
      BY <2>2 DEF CodexInv, WireIsOfTheTurn
    <3>2. /\ wire' = <<s>> /\ answered' = TRUE /\ done' = "none"
          /\ DOMAIN wire' = {1} /\ wire'[1] = s
      BY <1>1, <1>2, <3>1, WireMoves
    <3>3. wire[2] = s /\ 2 \in DOMAIN wire
      BY <3>1, WireMoves
    <3>4. WireIsOfTheTurn'
      BY <1>1, <2>2, <3>2 DEF WireIsOfTheTurn
    <3>5. CompletedIsServed'
      BY <1>1, <3>2, <3>3 DEF CompletedIsServed, CodexInv
    <3>6. wire' \in Seq({"answer"} \cup Statuses) /\ Len(wire') = 1
      BY <3>2, WireTypes
    <3> QED BY <3>2, <3>4, <3>5, <3>6
  <2>3. CASE answered
    <3>1. PICK s \in Statuses : wire = <<s>>
      BY <1>1, <1>2, <2>3 DEF CodexInv, WireIsOfTheTurn
    <3>2. wire' = <<>> /\ answered' = TRUE /\ done' = s /\ DOMAIN wire' = {}
      BY <1>1, <1>5, <2>3, <3>1, WireMoves
    <3>3. wire[1] = s /\ 1 \in DOMAIN wire
      BY <3>1, WireMoves
    <3>4. CompletedIsServed'
      BY <1>1, <3>2, <3>3 DEF CompletedIsServed, CodexInv
    <3>5. wire' \in Seq({"answer"} \cup Statuses) /\ Len(wire') = 0
      BY <3>2, WireTypes
    <3>6. WireIsOfTheTurn'
      BY <1>1, <1>2, <1>5, <2>3, <3>2 DEF WireIsOfTheTurn
    <3> QED BY <3>2, <3>4, <3>5, <3>6
  <2> QED BY <1>2, <2>1, <2>2, <2>3 DEF CodexInv, CodexTypeOK
<1>7. CodexTypeOK'
  BY <1>1, <1>6 DEF CodexTypeOK, CodexInv
<1>8. TurnFollowsLoop'
  BY <1>1, <1>4, <1>6 DEF TurnFollowsLoop, Delivering, CodexInv
<1>9. PassMissesNone' /\ BatchMissesNone' /\ GivenIsPassed' /\ OriginIsBelow'
  BY <1>1 DEF PassMissesNone, BatchMissesNone, Delivering, GivenIsPassed, OriginIsBelow, In, CodexInv
<1>10. CodexPromise'
  BY <1>1 DEF CodexPromise, Answerable, In, CodexInv
<1> QED BY <1>3, <1>6, <1>7, <1>8, <1>9, <1>10 DEF CodexInv

(* Only the loop's place moves: the process resumes, stops or fails.       *)
LEMMA LoopMovesKeeps ==
  ASSUME FilesTypeOK, CodexInv,
         DeliverResumes \/ StopsAfterOne \/ MonitorFails
  PROVE  FilesTypeOK' /\ CodexInv'
<1>1. UNCHANGED <<landed, scan, excused, batch, turn, wire, answered, done, origin, given, served>>
  BY DEF DeliverResumes, StopsAfterOne, MonitorFails, filesVars, deliveryVars, historyVars
<1>2. \/ mon.at = "starting" /\ answered /\ mon' = [mon EXCEPT !.at = "running"]
      \/ mon' = [mon EXCEPT !.at = "off"]
  BY DEF DeliverResumes, StopsAfterOne, MonitorFails
<1>3. /\ mon'.frontier = mon.frontier
      /\ mon' \in [at : {"off", "baseline", "scan", "starting", "running", "wait"},
                   frontier : NoMark..MaxMail]
      /\ mon'.at = "off" \/ (mon.at = "starting" /\ answered /\ mon'.at = "running")
  BY <1>2 DEF CodexInv, CodexTypeOK
<1> HIDE DEF NoMark
<1>4. FilesTypeOK' /\ CodexTypeOK'
  BY <1>1, <1>3 DEF FilesTypeOK, CodexTypeOK, CodexInv
<1>5. PassMissesNone' /\ BatchMissesNone' /\ GivenIsPassed' /\ OriginIsBelow'
  BY <1>1, <1>3 DEF PassMissesNone, BatchMissesNone, Delivering, GivenIsPassed, OriginIsBelow, In,
     CodexInv
<1>6. WireIsOfTheTurn' /\ CompletedIsServed' /\ TurnFollowsLoop'
  BY <1>1, <1>3 DEF WireIsOfTheTurn, CompletedIsServed, TurnFollowsLoop, Delivering, CodexInv
<1>7. CodexPromise'
  BY <1>1, <1>3 DEF CodexPromise, Answerable, In, CodexInv
<1> QED BY <1>4, <1>5, <1>6, <1>7 DEF CodexInv

LEMMA DeliveredKeeps ==
  ASSUME FilesTypeOK, CodexInv, Delivered
  PROVE  FilesTypeOK' /\ CodexInv'
<1> DEFINE top == Max(batch)
<1>1. /\ mon.at = "running" /\ done = "completed" /\ mon' = [at |-> "wait", frontier |-> top]
      /\ UNCHANGED <<landed, scan, excused, batch, turn, wire, answered, done, origin, given, served>>
  BY DEF Delivered, filesVars, deliveryVars, historyVars
<1>2. /\ batch \in SUBSET Ids /\ batch # {} /\ \A i \in batch : i > mon.frontier
      /\ \A i \in In(Dirs) : mon.frontier < i /\ i <= top => i \in batch \cup excused
  BY <1>1 DEF CodexInv, CodexTypeOK, BatchMissesNone, Delivering
<1>3. top \in batch /\ top \in Ids /\ \A i \in batch : i <= top
  BY <1>2, BatchTop
<1> HIDE DEF top
<1>4. turn = "over" /\ wire = <<>> /\ batch \subseteq served
  BY <1>1 DEF CodexInv, WireIsOfTheTurn, CompletedIsServed, CodexTypeOK
<1>5. /\ mon.frontier \in Int /\ origin \in Int /\ origin <= mon.frontier /\ mon.frontier < top
      /\ top \in 1..MaxMail /\ \A i \in Ids : i \in Int
  BY <1>1, <1>2, <1>3, MailboxFilesAssumption DEF CodexInv, CodexTypeOK, OriginIsBelow, NoMark, Ids
<1>6. FilesTypeOK' /\ CodexTypeOK'
  BY <1>1, <1>5, MailboxFilesAssumption DEF FilesTypeOK, CodexTypeOK, CodexInv, NoMark
<1>7. PassMissesNone' /\ BatchMissesNone' /\ OriginIsBelow'
  BY <1>1, <1>5 DEF PassMissesNone, BatchMissesNone, Delivering, OriginIsBelow
<1>8. GivenIsPassed'
  <2>1. ASSUME NEW i \in Ids, given[i] = 1 PROVE i <= top
    <3>1. i <= mon.frontier \/ i \in batch
      BY <1>1, <2>1 DEF GivenIsPassed, CodexInv
    <3> QED BY <1>3, <1>5, <3>1
  <2> QED BY <1>1, <2>1 DEF GivenIsPassed
<1>9. WireIsOfTheTurn' /\ CompletedIsServed' /\ TurnFollowsLoop'
  BY <1>1, <1>4 DEF WireIsOfTheTurn, CompletedIsServed, TurnFollowsLoop, Delivering, CodexInv
<1>10. CodexPromise'
  <2>1. ASSUME origin # NoMark, NEW i \in In(Dirs), origin < i, i <= top, i \notin excused
        PROVE  i \in served
    <3>1. i \in Ids /\ i \in Int
      BY <1>5 DEF In
    <3>2. CASE i <= mon.frontier
      BY <2>1, <3>2 DEF CodexInv, CodexPromise, Answerable
    <3>3. CASE mon.frontier < i
      BY <1>2, <1>4, <2>1, <3>3
    <3> QED BY <1>5, <3>1, <3>2, <3>3
  <2>2. (origin # NoMark => Answerable(Dirs, origin, mon.frontier) \subseteq served)'
    BY <1>1, <2>1 DEF Answerable, In
  <2> QED BY <1>1, <1>4, <2>2 DEF CodexPromise, CodexInv
<1> QED BY <1>6, <1>7, <1>8, <1>9, <1>10 DEF CodexInv

LEMMA WaitEndsKeeps ==
  ASSUME FilesTypeOK, CodexInv, WaitEnds
  PROVE  FilesTypeOK' /\ CodexInv'
<1>1. /\ mon.at = "wait" /\ mon' = [mon EXCEPT !.at = "scan"] /\ PassStarts(Dirs, mon.frontier)
      /\ UNCHANGED <<batch, turn, wire, answered, done, origin, given, served>>
  BY DEF WaitEnds, deliveryVars, historyVars
<1>2. /\ mon' \in [at : {"scan"}, frontier : NoMark..MaxMail] /\ mon'.frontier = mon.frontier
      /\ mon'.at = "scan" /\ mon.frontier \in Int
  BY <1>1, MailboxFilesAssumption DEF CodexInv, CodexTypeOK, NoMark
<1>3. FilesTypeOK'
  BY <1>1 DEF FilesTypeOK, PassStarts
<1>4. CodexTypeOK'
  BY <1>1, <1>2 DEF CodexTypeOK, CodexInv
<1>5. PassMissesNone'
  BY <1>1 DEF PassStarts, PassMissesNone, In
<1>6. BatchMissesNone' /\ GivenIsPassed' /\ OriginIsBelow'
  BY <1>1, <1>2 DEF BatchMissesNone, Delivering, GivenIsPassed, OriginIsBelow, CodexInv
<1>7. WireIsOfTheTurn' /\ CompletedIsServed' /\ TurnFollowsLoop'
  BY <1>1, <1>2 DEF WireIsOfTheTurn, CompletedIsServed, TurnFollowsLoop, Delivering, CodexInv
<1>8. CodexPromise'
  BY <1>1, <1>2 DEF CodexPromise, CodexInv, Answerable, In, PassStarts
<1> QED BY <1>3, <1>4, <1>5, <1>6, <1>7, <1>8 DEF CodexInv

(* A file that lands late, or below the mark, is excused.                  *)
LEMMA CodexLandsKeeps ==
  ASSUME FilesTypeOK, CodexInv, CodexLands
  PROVE  FilesTypeOK' /\ CodexInv'
<1> DEFINE mark == IF mon.at \in {"starting", "running"} THEN Max(batch) ELSE mon.frontier
           passing == mon.at \in {"baseline", "scan"}
<1>1. PICK n \in Ids, d \in Dirs :
        /\ landed[n] = 0
        /\ landed' = [landed EXCEPT ![n] = d]
        /\ excused' = IF n <= mark \/ (passing /\ d \notin scan.todo)
                      THEN excused \cup {n} ELSE excused
        /\ UNCHANGED scan
  BY DEF CodexLands, Lands
<1>2. UNCHANGED <<mon, batch, turn, wire, answered, done, origin, given, served>>
  BY DEF CodexLands, codexVars
<1>3. FilesTypeOK'
  BY <1>1 DEF FilesTypeOK, Dirs
<1>4. CodexTypeOK' /\ WireIsOfTheTurn' /\ CompletedIsServed' /\ TurnFollowsLoop' /\ GivenIsPassed' /\ OriginIsBelow'
  BY <1>2 DEF CodexTypeOK, WireIsOfTheTurn, CompletedIsServed, TurnFollowsLoop, Delivering,
     GivenIsPassed, OriginIsBelow, CodexInv
<1>5. \A i \in In(Dirs)' : i = n \/ (i \in In(Dirs) /\ landed'[i] = landed[i])
  BY <1>1 DEF In, FilesTypeOK
<1>6. excused \subseteq excused' /\ excused' \subseteq excused \cup {n}
  BY <1>1
<1>7. landed'[n] = d
  BY <1>1 DEF FilesTypeOK
<1>8. PassMissesNone'
  <2> SUFFICES ASSUME passing, NEW i \in In(Dirs)'
               PROVE  i \in scan.seen \/ i \in In(scan.todo)' \/ i \in excused'
    BY <1>1, <1>2 DEF PassMissesNone
  <2>1. CASE i = n
    BY <1>1, <1>7, <2>1 DEF In
  <2>2. CASE i # n
    BY <1>1, <1>5, <1>6, <2>2 DEF PassMissesNone, CodexInv, In
  <2> QED BY <2>1, <2>2
<1>9. BatchMissesNone'
  <2> SUFFICES ASSUME Delivering, NEW i \in In(Dirs)', mon.frontier < i, i <= Max(batch)
               PROVE  i \in batch \/ i \in excused'
    BY <1>2 DEF BatchMissesNone, Delivering, CodexInv
  <2>1. CASE i = n
    BY <1>1, <2>1 DEF Delivering
  <2>2. CASE i # n
    BY <1>5, <1>6, <2>2 DEF BatchMissesNone, CodexInv
  <2> QED BY <2>1, <2>2
<1>10. CodexPromise'
  <2>1. ASSUME n <= mon.frontier PROVE n \in excused'
    <3>1. CASE Delivering
      <4>1. /\ batch \in SUBSET Ids /\ batch # {} /\ \A i \in batch : i > mon.frontier
        BY <3>1 DEF CodexInv, CodexTypeOK, BatchMissesNone
      <4>2. Max(batch) \in batch /\ Max(batch) \in Ids
        BY <4>1, BatchTop
      <4>3. n <= Max(batch)
        BY <2>1, <4>1, <4>2, MailboxFilesAssumption DEF CodexInv, CodexTypeOK, NoMark, Ids
      <4> QED BY <1>1, <3>1, <4>3 DEF Delivering
    <3>2. CASE ~Delivering
      BY <1>1, <2>1, <3>2 DEF Delivering
    <3> QED BY <3>1, <3>2
  <2>2. Answerable(Dirs, origin, mon.frontier)' \subseteq Answerable(Dirs, origin, mon.frontier)
    BY <1>2, <1>5, <1>6, <2>1 DEF Answerable
  <2>3. (origin # NoMark => Answerable(Dirs, origin, mon.frontier) \subseteq served)'
    BY <1>2, <2>2 DEF CodexPromise, CodexInv
  <2> QED BY <1>2, <2>3 DEF CodexPromise, CodexInv
<1> QED BY <1>3, <1>4, <1>8, <1>9, <1>10 DEF CodexInv
LEMMA CodexStutters ==
  ASSUME CodexInv, UNCHANGED <<filesVars, codexVars>>
  PROVE  CodexInv'
BY DEF filesVars, codexVars, CodexInv, CodexTypeOK, PassMissesNone,
   BatchMissesNone, Delivering, WireIsOfTheTurn, CompletedIsServed, TurnFollowsLoop,
   GivenIsPassed, OriginIsBelow, CodexPromise, Answerable, In

LEMMA CodexStepKeeps ==
  ASSUME FilesTypeOK, CodexInv, CodexNext
  PROVE  FilesTypeOK' /\ CodexInv'
<1>1. CASE StartMonitor
  BY <1>1, StartMonitorKeeps
<1>2. CASE WalkDir
  BY <1>2, WalkDirKeeps
<1>3. CASE Baselined
  BY <1>3, BaselinedKeeps
<1>4. CASE NothingFresh
  BY <1>4, NothingFreshKeeps
<1>5. CASE Deliver
  BY <1>5, DeliverKeeps
<1>6. CASE ServerAnswers
  BY <1>6, ServerAnswersKeeps
<1>7. CASE TurnEnds
  BY <1>7, TurnEndsKeeps
<1>8. CASE ReadLine
  BY <1>8, ReadLineKeeps
<1>9. CASE DeliverResumes \/ StopsAfterOne \/ MonitorFails
  BY <1>9, LoopMovesKeeps
<1>10. CASE Delivered
  BY <1>10, DeliveredKeeps
<1>11. CASE WaitEnds
  BY <1>11, WaitEndsKeeps
<1>12. CASE CodexLands
  BY <1>12, CodexLandsKeeps
<1> QED BY <1>1, <1>2, <1>3, <1>4, <1>5, <1>6, <1>7, <1>8, <1>9, <1>10, <1>11, <1>12
       DEF CodexNext

(* Theorem: at every point of the loop, the pass over the files, the       *)
(* batch, the app server's turn and the lines about it agree with the      *)
(* frontier (scripts/codex-monitor.ts), for any number of inboxes and      *)
(* messages.                                                               *)
THEOREM CodexIsConsistent == CodexSpec => []CodexInv
<1>1. CodexInit /\ FilesInit => FilesTypeOK /\ CodexInv
  BY FilesBegin, CodexBegins
<1>2. FilesTypeOK /\ CodexInv /\ [CodexNext]_<<filesVars, codexVars>> => (FilesTypeOK /\ CodexInv)'
  BY CodexStepKeeps, CodexStutters, FilesStutter DEF filesVars
<1> QED BY <1>1, <1>2, PTL DEF CodexSpec

(* Theorem: the stand-alone monitor's frontier passes only mail whose turn *)
(* has completed, a message is given to at most one turn of a run, and a   *)
(* turn is asked for only when the one before it is over                   *)
(* (scripts/codex-monitor.ts).                                             *)
THEOREM CodexKeepsPromise == CodexSpec => []CodexPromise
<1>1. CodexInv => CodexPromise
  BY DEF CodexInv
<1> QED BY <1>1, CodexIsConsistent, PTL

-----------------------------------------------------------------------------
(* The watch. *)

WatchSpec == WatchInit /\ FilesInit /\ [][WatchNext]_<<filesVars, watchVars>>

LEMMA WatchBegins ==
  ASSUME WatchInit, FilesTypeOK
  PROVE  WatchInv
<1> USE DEF WatchInit, NoWatch, NoMark
<1>1. printed \in Seq(Ids) /\ DOMAIN printed = {}
  OBVIOUS
<1>2. WatchTypeOK
  BY <1>1, MailboxFilesAssumption DEF WatchTypeOK
<1>3. WatchSeesAll /\ EmitsTheRest /\ PrintedIsPassed /\ AdoptedIsBelow
  BY DEF WatchSeesAll, EmitsTheRest, PrintedIsPassed, AdoptedIsBelow
<1>4. WatchPromise
  BY <1>1 DEF WatchPromise, Ascending
<1> QED BY <1>2, <1>3, <1>4 DEF WatchInv

(* What the invariant says of numbers. *)
LEMMA WatchNumbers ==
  ASSUME FilesTypeOK, WatchInv
  PROVE  /\ watch.last \in Int /\ adopted \in Int /\ HighestOf(scan.seen) \in 0..MaxMail
         /\ watch.last \in NoMark..MaxMail /\ NoMark = -1 /\ MaxMail \in Nat
         /\ \A i \in Ids : i \in Int /\ i > 0 /\ i <= MaxMail
         /\ \A i \in scan.seen : i \in Ids /\ i <= HighestOf(scan.seen)
         /\ \A k \in DOMAIN printed : printed[k] \in Ids
         /\ queue \in SUBSET Ids /\ queue \in SUBSET Nat
<1>1. watch.last \in NoMark..MaxMail /\ adopted \in NoMark..MaxMail
  BY DEF WatchInv, WatchTypeOK
<1>2. scan.seen \in SUBSET Ids
  BY DEF FilesTypeOK
<1>3. \A k \in DOMAIN printed : printed[k] \in Ids
  BY DEF WatchInv, WatchTypeOK
<1> QED BY <1>1, <1>2, <1>3, HighestOfIds, MailboxFilesAssumption DEF WatchInv, WatchTypeOK, Ids, NoMark

LEMMA ArmKeeps ==
  ASSUME FilesTypeOK, WatchInv, Arm
  PROVE  FilesTypeOK' /\ WatchInv'
<1>1. ProjectDir \in Dirs
  BY MailWatchAssumption
<1>2. PICK dirs \in SUBSET Dirs, since \in NoMark..MaxMail, filter \in BOOLEAN :
        ArmWith(dirs, since, filter)
  <2>1. CASE \E dirs \in ResolveScopeSlugs("project"), since \in NoMark..MaxMail :
               ArmWith(dirs, since, FALSE)
    BY <1>1, <2>1 DEF ResolveScopeSlugs
  <2>2. CASE \E scope \in {"project", "all"}, filter \in BOOLEAN :
               \E dirs \in ResolveScopeSlugs(scope) : ArmWith(dirs, NoMark, filter)
    <3>1. \A scope : ResolveScopeSlugs(scope) \subseteq SUBSET Dirs
      BY <1>1 DEF ResolveScopeSlugs
    <3>2. NoMark \in NoMark..MaxMail
      BY MailboxFilesAssumption DEF NoMark
    <3> QED BY <2>2, <3>1, <3>2
  <2> QED BY <2>1, <2>2 DEF Arm
<1>3. /\ watch' = [at |-> "scan", dirs |-> dirs, last |-> since, filter |-> filter, aborted |-> FALSE]
      /\ queue' = {} /\ adopted' = since /\ printed' = <<>>
      /\ scan' = [todo |-> dirs, seen |-> {}] /\ excused' = {i \in excused : i <= since}
      /\ landed' = landed
  BY <1>2 DEF ArmWith, PassStarts
<1>4. printed' \in Seq(Ids) /\ DOMAIN printed' = {}
  BY <1>3
<1>5. FilesTypeOK'
  BY <1>3 DEF FilesTypeOK
<1>6. WatchTypeOK'
  BY <1>3, <1>4 DEF WatchTypeOK
<1>7. WatchSeesAll' /\ EmitsTheRest' /\ PrintedIsPassed' /\ AdoptedIsBelow'
  BY <1>3, <1>4, MailboxFilesAssumption
     DEF WatchSeesAll, EmitsTheRest, PrintedIsPassed, AdoptedIsBelow, In, NoMark
<1>8. \A i \in Ids : ~(since < i /\ i <= since)
  BY MailboxFilesAssumption DEF Ids, NoMark
<1>9. WatchPromise'
  BY <1>3, <1>4, <1>8 DEF WatchPromise, Ascending, Answerable, In
<1> QED BY <1>5, <1>6, <1>7, <1>9 DEF WatchInv

(* A smaller set to answer for, the rest as it was. *)
LEMMA WatchAnswersForLess ==
  ASSUME WatchPromise, UNCHANGED <<printed, adopted>>,
         watch'.filter = watch.filter,
         Answerable(watch.dirs, adopted, watch.last)' \subseteq Answerable(watch.dirs, adopted, watch.last)
  PROVE  WatchPromise'
BY DEF WatchPromise, Ascending

LEMMA WatchReadsKeeps ==
  ASSUME FilesTypeOK, WatchInv, WatchReads
  PROVE  FilesTypeOK' /\ WatchInv'
<1> DEFINE N == NextInbox
<1>1. /\ watch.at = "scan" /\ landed' = landed
      /\ UNCHANGED <<watch, queue, adopted, printed>>
      /\ \E unread \in SUBSET In({N}) :
           /\ scan' = [todo |-> scan.todo \ {N}, seen |-> scan.seen \cup (In({N}) \ unread)]
           /\ excused' = excused \cup unread
  BY DEF WatchReads, ReadInbox, watchVars
<1> HIDE DEF N
<1>2. /\ scan'.todo = scan.todo \ {N} /\ excused \subseteq excused'
      /\ scan.seen \subseteq scan'.seen /\ In({N}) \subseteq scan'.seen \cup excused'
      /\ FilesTypeOK'
  <2>1. PICK unread \in SUBSET In({N}) :
          /\ scan' = [todo |-> scan.todo \ {N}, seen |-> scan.seen \cup (In({N}) \ unread)]
          /\ excused' = excused \cup unread
    BY <1>1
  <2>2. In({N}) \subseteq Ids
    BY DEF In
  <2>3. scan'.todo = scan.todo \ {N} /\ scan'.seen = scan.seen \cup (In({N}) \ unread)
    BY <2>1
  <2>4. FilesTypeOK'
    BY <1>1, <2>1, <2>2 DEF FilesTypeOK
  <2> QED BY <2>1, <2>3, <2>4
<1>3. WatchSeesAll'
  BY <1>1, <1>2 DEF WatchSeesAll, WatchInv, In
<1>4. WatchPromise'
  <2>1. Answerable(watch.dirs, adopted, watch.last)' \subseteq Answerable(watch.dirs, adopted, watch.last)
    BY <1>1, <1>2 DEF Answerable, In
  <2> QED BY <1>1, <2>1, WatchAnswersForLess DEF WatchInv
<1>5. WatchTypeOK' /\ EmitsTheRest' /\ PrintedIsPassed' /\ AdoptedIsBelow'
  BY <1>1 DEF WatchInv, WatchTypeOK, EmitsTheRest, PrintedIsPassed, AdoptedIsBelow
<1> QED BY <1>2, <1>3, <1>4, <1>5 DEF WatchInv

LEMMA SnapshottedKeeps ==
  ASSUME FilesTypeOK, WatchInv, Snapshotted
  PROVE  FilesTypeOK' /\ WatchInv'
<1> DEFINE most == HighestOf(scan.seen)
           top == Max({watch.last, most})
<1>1. /\ watch.last \in Int /\ adopted \in Int /\ most \in 0..MaxMail
      /\ watch.last \in NoMark..MaxMail /\ NoMark = -1 /\ MaxMail \in Nat
      /\ \A i \in Ids : i \in Int /\ i > 0 /\ i <= MaxMail
      /\ \A i \in scan.seen : i \in Ids /\ i <= most
      /\ \A k \in DOMAIN printed : printed[k] \in Ids
      /\ queue \in SUBSET Ids
  BY WatchNumbers
<1>2. top \in Int /\ top >= watch.last /\ top >= most
  <2> HIDE DEF most
  <2>1. most \in Int /\ watch.last \in Int
    BY <1>1
  <2> QED BY <2>1, HigherOfTwo
<1>3. /\ watch.at = "scan" /\ scan.todo = {} /\ landed' = landed /\ scan' = scan
      /\ excused' = {i \in excused : i <= top} /\ printed' = printed
  BY DEF Snapshotted, PassEnds
<1>4. \/ /\ watch' = [watch EXCEPT !.at = "off"]
         /\ UNCHANGED <<queue, adopted>>
      \/ /\ watch.last = NoMark
         /\ watch' = [watch EXCEPT !.at = "sleep", !.last = most]
         /\ adopted' = most /\ queue' = queue
      \/ /\ watch.last # NoMark /\ most > watch.last
         /\ watch' = [watch EXCEPT !.at = "emit"]
         /\ queue' = {i \in scan.seen : i > watch.last} /\ adopted' = adopted
      \/ /\ watch' = [watch EXCEPT !.at = "sleep"]
         /\ UNCHANGED <<queue, adopted>>
  BY DEF Snapshotted
<1>5. HighestOf(scan.seen)' = most
  BY <1>3
<1> HIDE DEF most, top
<1>6. FilesTypeOK'
  BY <1>3 DEF FilesTypeOK
<1>7. /\ WatchTypeOK /\ WatchSeesAll /\ PrintedIsPassed /\ AdoptedIsBelow /\ WatchPromise
  BY DEF WatchInv
<1>8. \A k \in DOMAIN printed : printed[k] <= watch.last
  BY <1>3, <1>7 DEF PrintedIsPassed
<1>9. watch'.dirs = watch.dirs /\ watch'.filter = watch.filter
  BY <1>4, <1>7 DEF WatchTypeOK
<1>10. CASE watch.last = NoMark /\ watch' = [watch EXCEPT !.at = "sleep", !.last = most]
            /\ adopted' = most /\ queue' = queue
  <2>1. DOMAIN printed = {}
    <3> SUFFICES ASSUME NEW k \in DOMAIN printed PROVE FALSE
      OBVIOUS
    <3>1. printed[k] \in Int /\ printed[k] > 0 /\ printed[k] <= NoMark
      BY <1>1, <1>8, <1>10
    <3> QED BY <1>1, <3>1
  <2>2. watch'.last = most /\ watch'.at = "sleep"
    BY <1>7, <1>10 DEF WatchTypeOK
  <2>3a. most \in NoMark..MaxMail
    BY <1>1
  <2>3b. watch' \in [at : {"off", "scan", "emit", "sleep"}, dirs : SUBSET Dirs,
                     last : NoMark..MaxMail, filter : BOOLEAN, aborted : BOOLEAN]
    <3> HIDE DEF NoMark
    <3> QED BY <1>7, <1>10, <2>3a DEF WatchTypeOK
  <2>3. WatchTypeOK'
    BY <1>3, <1>7, <1>10, <2>3a, <2>3b DEF WatchTypeOK
  <2>4. WatchSeesAll' /\ EmitsTheRest' /\ PrintedIsPassed' /\ AdoptedIsBelow'
    BY <1>1, <1>3, <1>10, <2>1, <2>2 DEF WatchSeesAll, EmitsTheRest, PrintedIsPassed, AdoptedIsBelow
  <2>5. \A i \in Ids : ~(most < i /\ i <= most)
    BY <1>1
  <2>6. WatchPromise'
    BY <1>3, <1>10, <2>1, <2>2, <2>5 DEF WatchPromise, Ascending, Answerable, In
  <2> QED BY <1>6, <2>3, <2>4, <2>6 DEF WatchInv
<1>11. Answerable(watch.dirs, adopted, watch.last) = {i \in In(watch.dirs) : adopted < i /\ i <= watch.last} \ excused
  BY DEF Answerable
<1>12. ASSUME NEW at \in {"off", "emit", "sleep"}, watch' = [watch EXCEPT !.at = at],
              adopted' = adopted, queue' \subseteq Ids,
              at = "emit" => /\ watch.last # NoMark /\ most > watch.last
                             /\ queue' = {i \in scan.seen : i > watch.last}
       PROVE  WatchInv'
  <2>1. watch'.last = watch.last /\ watch'.at = at
    BY <1>7, <1>12 DEF WatchTypeOK
  <2>2. WatchTypeOK'
    BY <1>3, <1>7, <1>12 DEF WatchTypeOK
  <2>3. Answerable(watch.dirs, adopted, watch.last)' \subseteq Answerable(watch.dirs, adopted, watch.last)
    BY <1>1, <1>2, <1>3, <1>9, <1>12, <2>1 DEF Answerable, In
  <2>4. WatchPromise'
    BY <1>3, <1>7, <1>9, <1>12, <2>3, WatchAnswersForLess
  <2>5. WatchSeesAll' /\ AdoptedIsBelow'
    BY <1>3, <1>7, <1>12, <2>1 DEF WatchSeesAll, AdoptedIsBelow
  <2>6. PrintedIsPassed'
    <3>1. \A k \in DOMAIN printed, i \in queue' : at = "emit" => printed[k] < i
      BY <1>1, <1>8, <1>12
    <3> QED BY <1>3, <1>8, <2>1, <3>1 DEF PrintedIsPassed
  <2>7. EmitsTheRest'
    <3> SUFFICES ASSUME at = "emit" PROVE EmitsTheRest'
      BY <2>1 DEF EmitsTheRest
    <3>1. \A i \in In(watch.dirs) : watch.last < i /\ i <= most => i \in queue' \cup excused'
      <4> SUFFICES ASSUME NEW i \in In(watch.dirs), watch.last < i, i <= most
                   PROVE  i \in queue' \cup excused'
        OBVIOUS
      <4>1. i \in Ids /\ (i \in scan.seen \/ i \in excused)
        BY <1>3, <1>7 DEF WatchSeesAll, In
      <4>2. i <= top
        BY <1>1, <1>2, <4>1
      <4> QED BY <1>3, <1>12, <4>1, <4>2
    <3>2. watch.last # NoMark /\ watch.last < most /\ queue' = {i \in scan.seen : i > watch.last}
      BY <1>1, <1>12
    <3>3. In(watch.dirs)' = In(watch.dirs)
      BY <1>3, <1>9 DEF In
    <3> QED BY <1>3, <1>5, <2>1, <3>1, <3>2, <3>3 DEF EmitsTheRest
  <2> QED BY <2>2, <2>4, <2>5, <2>6, <2>7 DEF WatchInv
<1>13. CASE watch' = [watch EXCEPT !.at = "off"] /\ UNCHANGED <<queue, adopted>>
  BY <1>1, <1>6, <1>12, <1>13
<1>14. CASE /\ watch.last # NoMark /\ most > watch.last
            /\ watch' = [watch EXCEPT !.at = "emit"]
            /\ queue' = {i \in scan.seen : i > watch.last} /\ adopted' = adopted
  <2>1. queue' \subseteq Ids
    BY <1>1, <1>14
  <2> QED BY <1>6, <1>12, <1>14, <2>1
<1>15. CASE watch' = [watch EXCEPT !.at = "sleep"] /\ UNCHANGED <<queue, adopted>>
  BY <1>1, <1>6, <1>12, <1>15
<1> QED BY <1>4, <1>10, <1>13, <1>14, <1>15

LEMMA EmitKeeps ==
  ASSUME FilesTypeOK, WatchInv, Emit
  PROVE  FilesTypeOK' /\ WatchInv'
<1> DEFINE i == Min(queue)
<1>1. PICK readable \in BOOLEAN :
        /\ printed' = IF MatchesFilter(i, readable) THEN Append(printed, i) ELSE printed
        /\ excused' = IF readable THEN excused ELSE excused \cup {i}
  BY DEF Emit
<1>2. /\ watch.at = "emit" /\ queue # {} /\ queue' = queue \ {i}
      /\ UNCHANGED <<watch, adopted, landed, scan>>
  BY DEF Emit
<1>3. /\ watch.last \in Int /\ adopted \in Int /\ HighestOf(scan.seen) \in Int
      /\ \A j \in Ids : j \in Int
      /\ \A k \in DOMAIN printed : printed[k] \in Ids
      /\ queue \in SUBSET Ids /\ queue \in SUBSET Nat
      /\ \A j \in scan.seen : j \in Ids /\ j <= HighestOf(scan.seen)
  BY WatchNumbers
<1>4. i \in queue /\ \A j \in queue : i <= j
  BY <1>2, <1>3, LeastOf
<1> HIDE DEF i
<1>5. /\ WatchTypeOK /\ EmitsTheRest /\ PrintedIsPassed /\ AdoptedIsBelow /\ WatchPromise
  BY DEF WatchInv
<1>6. /\ watch.last # NoMark /\ watch.last < HighestOf(scan.seen)
      /\ queue \subseteq {j \in scan.seen : j > watch.last}
      /\ \A j \in In(watch.dirs) : watch.last < j /\ j <= HighestOf(scan.seen) =>
             j \in queue \cup excused \/ (watch.filter /\ j \notin Matching) \/ InPrinted(j)
  BY <1>2, <1>5 DEF EmitsTheRest
<1>7. /\ i \in Ids /\ i > watch.last /\ i <= HighestOf(scan.seen) /\ adopted <= watch.last
      /\ adopted < i /\ i \in Int
  BY <1>2, <1>3, <1>4, <1>5, <1>6 DEF AdoptedIsBelow
<1>8. printed \in Seq(Ids) /\ DOMAIN printed = 1..Len(printed) /\ Len(printed) \in Nat
  BY <1>5 DEF WatchTypeOK
<1>9. /\ printed' \in Seq(Ids)
      /\ DOMAIN printed' \in {DOMAIN printed, 1..(Len(printed) + 1)}
      /\ \A k \in DOMAIN printed : k \in DOMAIN printed' /\ printed'[k] = printed[k]
      /\ \A k \in DOMAIN printed' : k \in DOMAIN printed \/ (printed'[k] = i /\ k = Len(printed) + 1)
      /\ MatchesFilter(i, readable) => \E k \in DOMAIN printed' : printed'[k] = i
  <2>1. CASE MatchesFilter(i, readable)
    <3> DEFINE s == Append(printed, i)
    <3>1. /\ s \in Seq(Ids) /\ DOMAIN s = 1..(Len(printed) + 1)
          /\ \A k \in 1..Len(printed) : s[k] = printed[k]
          /\ s[Len(printed) + 1] = i
      BY <1>7, <1>8, Appended
    <3>2. printed' = s
      BY <1>1, <2>1
    <3> HIDE DEF s
    <3>3. Len(printed) + 1 \in DOMAIN s
      BY <1>8, <3>1
    <3> QED BY <1>8, <3>1, <3>2, <3>3
  <2>2. CASE ~MatchesFilter(i, readable)
    BY <1>1, <1>8, <2>2
  <2> QED BY <2>1, <2>2
<1>10. \A k \in DOMAIN printed : printed[k] < i /\ printed[k] \in Int
  BY <1>2, <1>3, <1>4, <1>5, <1>7 DEF PrintedIsPassed
<1>11. excused \subseteq excused' /\ (~readable => i \in excused')
  BY <1>1
<1>12. FilesTypeOK'
  BY <1>1, <1>2, <1>7 DEF FilesTypeOK
<1>13. WatchTypeOK'
  BY <1>2, <1>5, <1>9 DEF WatchTypeOK
<1>14. WatchSeesAll' /\ AdoptedIsBelow'
  BY <1>2, <1>5 DEF WatchSeesAll, AdoptedIsBelow
<1>15. \A j : InPrinted(j) => InPrinted(j)'
  BY <1>9 DEF InPrinted
<1>16. EmitsTheRest'
  <2>1. ASSUME NEW j \in In(watch.dirs), watch.last < j, j <= HighestOf(scan.seen)
        PROVE  j \in queue' \cup excused' \/ (watch.filter /\ j \notin Matching) \/ InPrinted(j)'
    <3>1. CASE j = i
      <4>1. CASE MatchesFilter(i, readable)
        BY <1>9, <3>1, <4>1 DEF InPrinted
      <4>2. CASE ~readable
        BY <1>11, <3>1, <4>2
      <4>3. CASE ~MatchesFilter(i, readable) /\ readable
        BY <3>1, <4>3 DEF MatchesFilter
      <4> QED BY <4>1, <4>2, <4>3
    <3>2. CASE j # i
      BY <1>2, <1>6, <1>11, <1>15, <2>1, <3>2
    <3> QED BY <3>1, <3>2
  <2>2. In(watch.dirs)' = In(watch.dirs) /\ HighestOf(scan.seen)' = HighestOf(scan.seen)
    BY <1>2 DEF In
  <2> QED BY <1>2, <1>6, <2>1, <2>2 DEF EmitsTheRest
<1>17. PrintedIsPassed'
  <2>1. ASSUME NEW k \in DOMAIN printed'
        PROVE  /\ printed'[k] <= watch.last \/ printed'[k] <= HighestOf(scan.seen)
               /\ \A j \in queue' : printed'[k] < j
    <3>1. CASE k \in DOMAIN printed
      BY <1>2, <1>5, <1>9, <3>1 DEF PrintedIsPassed
    <3>2. CASE printed'[k] = i
      <4>1. \A j \in queue' : i <= j /\ i # j /\ j \in Int
        BY <1>2, <1>3, <1>4
      <4> QED BY <1>7, <3>2, <4>1
    <3> QED BY <1>9, <3>1, <3>2
  <2>2. HighestOf(scan.seen)' = HighestOf(scan.seen)
    BY <1>2
  <2> QED BY <1>2, <2>1, <2>2 DEF PrintedIsPassed
<1>18. WatchPromise'
  <2>1. Ascending(printed')
    <3> SUFFICES ASSUME NEW j \in DOMAIN printed', NEW k \in DOMAIN printed', j < k
                 PROVE  printed'[j] < printed'[k]
      BY DEF Ascending
    <3>1. CASE j \in DOMAIN printed /\ k \in DOMAIN printed
      BY <1>5, <1>9, <3>1 DEF WatchPromise, Ascending
    <3>2. CASE j \in DOMAIN printed /\ k \notin DOMAIN printed
      BY <1>9, <1>10, <3>2
    <3>3. CASE j \notin DOMAIN printed
      <4>1. j = Len(printed) + 1 /\ k \in 1..(Len(printed) + 1)
        BY <1>8, <1>9, <3>3
      <4> QED BY <1>8, <4>1
    <3> QED BY <3>1, <3>2, <3>3
  <2>2. \A k \in DOMAIN printed' : printed'[k] > adopted
    BY <1>5, <1>7, <1>9 DEF WatchPromise
  <2>3. ASSUME adopted # NoMark, NEW j \in Answerable(watch.dirs, adopted, watch.last)'
        PROVE  (watch.filter /\ j \notin Matching) \/ InPrinted(j)'
    <3>1. j \in Answerable(watch.dirs, adopted, watch.last)
      BY <1>2, <1>11 DEF Answerable, In
    <3> QED BY <1>5, <1>15, <2>3, <3>1 DEF WatchPromise, InPrinted
  <2> QED BY <1>2, <2>1, <2>2, <2>3 DEF WatchPromise, InPrinted
<1> QED BY <1>12, <1>13, <1>14, <1>16, <1>17, <1>18 DEF WatchInv

LEMMA EmittedAllKeeps ==
  ASSUME FilesTypeOK, WatchInv, EmittedAll
  PROVE  FilesTypeOK' /\ WatchInv'
<1> DEFINE most == HighestOf(scan.seen)
<1>1. /\ watch.last \in Int /\ adopted \in Int /\ most \in 0..MaxMail
      /\ NoMark = -1 /\ MaxMail \in Nat
      /\ \A i \in Ids : i \in Int
      /\ \A k \in DOMAIN printed : printed[k] \in Ids
  BY WatchNumbers
<1>2. /\ watch.at = "emit" /\ queue = {} /\ watch' = [watch EXCEPT !.at = "sleep", !.last = most]
      /\ UNCHANGED <<landed, scan, excused, queue, adopted, printed>>
  BY DEF EmittedAll, filesVars
<1>3. /\ WatchTypeOK /\ EmitsTheRest /\ PrintedIsPassed /\ AdoptedIsBelow /\ WatchPromise
  BY DEF WatchInv
<1>4. /\ watch.last < most
      /\ \A j \in In(watch.dirs) : watch.last < j /\ j <= most =>
             j \in excused \/ (watch.filter /\ j \notin Matching) \/ InPrinted(j)
  BY <1>2, <1>3 DEF EmitsTheRest
<1> HIDE DEF most
<1>5. /\ watch'.at = "sleep" /\ watch'.last = most /\ watch'.dirs = watch.dirs
      /\ watch'.filter = watch.filter
  BY <1>2, <1>3 DEF WatchTypeOK
<1>6. most \in NoMark..MaxMail /\ most \in Int
  BY <1>1
<1>7. FilesTypeOK'
  BY <1>2 DEF FilesTypeOK
<1>8a. watch' \in [at : {"off", "scan", "emit", "sleep"}, dirs : SUBSET Dirs,
                    last : NoMark..MaxMail, filter : BOOLEAN, aborted : BOOLEAN]
  <2> HIDE DEF NoMark
  <2> QED BY <1>2, <1>3, <1>6 DEF WatchTypeOK
<1>8. WatchTypeOK'
  BY <1>2, <1>3, <1>8a DEF WatchTypeOK
<1>9. WatchSeesAll' /\ EmitsTheRest' /\ AdoptedIsBelow'
  BY <1>1, <1>2, <1>3, <1>4, <1>5, <1>6 DEF WatchSeesAll, EmitsTheRest, AdoptedIsBelow
<1>10. PrintedIsPassed'
  <2>1. \A k \in DOMAIN printed : printed[k] <= most
    <3> TAKE k \in DOMAIN printed
    <3>1. printed[k] \in Int /\ (printed[k] <= watch.last \/ printed[k] <= most)
      BY <1>1, <1>2, <1>3 DEF PrintedIsPassed, most
    <3> QED BY <1>1, <1>4, <1>6, <3>1
  <2> QED BY <1>2, <1>5, <2>1 DEF PrintedIsPassed
<1>11. WatchPromise'
  <2>1. ASSUME adopted # NoMark, NEW j \in Answerable(watch.dirs, adopted, watch.last)'
        PROVE  (watch.filter /\ j \notin Matching) \/ InPrinted(j)
    <3>1. /\ j \in In(watch.dirs) /\ j \in Int /\ adopted < j /\ j <= most /\ j \notin excused
      BY <1>1, <1>2, <1>5, <2>1 DEF Answerable, In
    <3>2. CASE j <= watch.last
      BY <1>3, <2>1, <3>1, <3>2 DEF WatchPromise, Answerable, InPrinted
    <3>3. CASE watch.last < j
      BY <1>4, <3>1, <3>3
    <3> QED BY <1>1, <3>1, <3>2, <3>3
  <2> QED BY <1>2, <1>3, <1>5, <2>1 DEF WatchPromise, InPrinted, Ascending
<1> QED BY <1>7, <1>8, <1>9, <1>10, <1>11 DEF WatchInv

LEMMA WakeKeeps ==
  ASSUME FilesTypeOK, WatchInv, Wake, ~watch.aborted
  PROVE  FilesTypeOK' /\ WatchInv'
<1>1. /\ watch.at = "sleep" /\ watch' = [watch EXCEPT !.at = "scan"]
      /\ scan' = [todo |-> watch.dirs, seen |-> {}]
      /\ excused' = {i \in excused : i <= watch.last} /\ landed' = landed
      /\ UNCHANGED <<queue, adopted, printed>>
  BY DEF Wake, PassStarts
<1>2. /\ WatchTypeOK /\ PrintedIsPassed /\ AdoptedIsBelow /\ WatchPromise
  BY DEF WatchInv
<1>3. /\ watch'.at = "scan" /\ watch'.last = watch.last /\ watch'.dirs = watch.dirs
      /\ watch'.filter = watch.filter
  BY <1>1, <1>2 DEF WatchTypeOK
<1>4. FilesTypeOK' /\ WatchTypeOK'
  BY <1>1, <1>2 DEF FilesTypeOK, WatchTypeOK
<1>5. WatchSeesAll' /\ EmitsTheRest' /\ PrintedIsPassed' /\ AdoptedIsBelow'
  BY <1>1, <1>2, <1>3 DEF WatchSeesAll, EmitsTheRest, PrintedIsPassed, AdoptedIsBelow, In
<1>6. Answerable(watch.dirs, adopted, watch.last)' \subseteq Answerable(watch.dirs, adopted, watch.last)
  BY <1>1, <1>3 DEF Answerable, In
<1>7. WatchPromise'
  BY <1>1, <1>2, <1>3, <1>6, WatchAnswersForLess
<1> QED BY <1>4, <1>5, <1>7 DEF WatchInv

(* The watch stops, or learns that it is to stop.                          *)
LEMMA WatchEndsKeeps ==
  ASSUME FilesTypeOK, WatchInv, Abort \/ Killed \/ (Wake /\ watch.aborted)
  PROVE  FilesTypeOK' /\ WatchInv'
<1>1. UNCHANGED <<landed, scan, excused, queue, adopted, printed>>
  BY DEF Abort, Killed, Wake, filesVars
<1>2. watch' = [watch EXCEPT !.aborted = TRUE] \/ watch' = [watch EXCEPT !.at = "off"]
  BY DEF Abort, Killed, Wake
<1>3. /\ WatchTypeOK /\ WatchSeesAll /\ EmitsTheRest /\ PrintedIsPassed /\ AdoptedIsBelow /\ WatchPromise
  BY DEF WatchInv
<1>4. /\ watch'.at \in {watch.at, "off"} /\ watch'.last = watch.last /\ watch'.dirs = watch.dirs
      /\ watch'.filter = watch.filter
  BY <1>2, <1>3 DEF WatchTypeOK
<1>5. FilesTypeOK'
  BY <1>1 DEF FilesTypeOK
<1>6. WatchTypeOK'
  BY <1>1, <1>2, <1>3 DEF WatchTypeOK
<1>7. WatchSeesAll' /\ PrintedIsPassed' /\ AdoptedIsBelow'
  BY <1>1, <1>3, <1>4 DEF WatchSeesAll, PrintedIsPassed, AdoptedIsBelow, In
<1>7a. EmitsTheRest'
  BY <1>1, <1>3, <1>4 DEF EmitsTheRest, In, InPrinted
<1>8. Answerable(watch.dirs, adopted, watch.last)' = Answerable(watch.dirs, adopted, watch.last)
  BY <1>1, <1>4 DEF Answerable, In
<1>9. WatchPromise'
  BY <1>1, <1>3, <1>4, <1>8, WatchAnswersForLess
<1> QED BY <1>5, <1>6, <1>7, <1>7a, <1>9 DEF WatchInv

(* A file that lands late, or below the mark, is excused.                  *)
LEMMA WatchLandsKeeps ==
  ASSUME FilesTypeOK, WatchInv, WatchLands
  PROVE  FilesTypeOK' /\ WatchInv'
<1> DEFINE most == HighestOf(scan.seen)
           mark == IF watch.at = "emit" THEN most ELSE watch.last
           passing == watch.at = "scan"
<1>1. PICK n \in Ids, d \in Dirs :
        /\ landed[n] = 0
        /\ landed' = [landed EXCEPT ![n] = d]
        /\ excused' = IF n <= mark \/ (passing /\ d \notin scan.todo)
                      THEN excused \cup {n} ELSE excused
        /\ UNCHANGED scan
  BY DEF WatchLands, Lands
<1>2. UNCHANGED <<watch, queue, adopted, printed>>
  BY DEF WatchLands, watchVars
<1>2a. watch.last \in Int /\ most \in Int /\ n \in Int
  BY WatchNumbers
<1>3. /\ WatchTypeOK /\ WatchSeesAll /\ EmitsTheRest /\ PrintedIsPassed /\ AdoptedIsBelow /\ WatchPromise
  BY DEF WatchInv
<1>4. FilesTypeOK'
  BY <1>1 DEF FilesTypeOK, Dirs
<1>5. most' = most
  BY <1>1
<1> HIDE DEF most
<1>6. /\ landed'[n] = d
      /\ \A i \in Ids : i # n => landed'[i] = landed[i]
  BY <1>1 DEF FilesTypeOK
<1>7. excused \subseteq excused'
  BY <1>1
<1>8. WatchTypeOK' /\ PrintedIsPassed' /\ AdoptedIsBelow'
  BY <1>2, <1>3, <1>5 DEF WatchTypeOK, PrintedIsPassed, AdoptedIsBelow, most
<1>9. WatchSeesAll'
  <2> SUFFICES ASSUME passing, NEW i \in In(watch.dirs)'
               PROVE  i \in scan.seen \/ i \in In(scan.todo)' \/ i \in excused'
    BY <1>1, <1>2 DEF WatchSeesAll
  <2>1. CASE i = n
    BY <1>1, <1>6, <2>1 DEF In
  <2>2. CASE i # n
    BY <1>1, <1>2, <1>3, <1>6, <1>7, <2>2 DEF WatchSeesAll, In
  <2> QED BY <2>1, <2>2
<1>10. EmitsTheRest'
  <2> SUFFICES ASSUME watch.at = "emit" PROVE EmitsTheRest'
    BY <1>2 DEF EmitsTheRest
  <2>1. /\ watch.last # NoMark /\ watch.last < most
        /\ queue \subseteq {i \in scan.seen : i > watch.last}
        /\ \A i \in In(watch.dirs) : watch.last < i /\ i <= most =>
             i \in queue \cup excused \/ (watch.filter /\ i \notin Matching) \/ InPrinted(i)
    BY <1>3 DEF EmitsTheRest, most
  <2>2. ASSUME NEW i \in In(watch.dirs)', watch.last < i, i <= most
        PROVE  i \in queue \cup excused' \/ (watch.filter /\ i \notin Matching) \/ InPrinted(i)
    <3>1. CASE i = n
      BY <1>1, <2>2, <3>1
    <3>2. CASE i # n
      <4>1. i \in In(watch.dirs)
        BY <1>2, <1>6, <2>2, <3>2 DEF In
      <4> QED BY <1>7, <2>1, <2>2, <4>1
    <3> QED BY <3>1, <3>2
  <2>3. \A i : InPrinted(i)' <=> InPrinted(i)
    BY <1>2 DEF InPrinted
  <2> QED BY <1>1, <1>2, <1>5, <2>1, <2>2, <2>3 DEF EmitsTheRest, most
<1>11. WatchPromise'
  <2>1. n <= watch.last => n \in excused'
    <3>1. CASE watch.at = "emit"
      <4>1. watch.last < most
        BY <1>3, <3>1 DEF EmitsTheRest, most
      <4> QED BY <1>1, <1>2a, <3>1, <4>1
    <3>2. CASE watch.at # "emit"
      BY <1>1, <3>2
    <3> QED BY <3>1, <3>2
  <2>2. Answerable(watch.dirs, adopted, watch.last)' \subseteq Answerable(watch.dirs, adopted, watch.last)
    <3> SUFFICES ASSUME NEW i \in Answerable(watch.dirs, adopted, watch.last)'
                 PROVE  i \in Answerable(watch.dirs, adopted, watch.last)
      OBVIOUS
    <3>1. i # n
      BY <1>2, <2>1 DEF Answerable
    <3> QED BY <1>2, <1>6, <1>7, <3>1 DEF Answerable, In
  <2> QED BY <1>2, <1>3, <2>2, WatchAnswersForLess
<1> QED BY <1>4, <1>8, <1>9, <1>10, <1>11 DEF WatchInv

LEMMA WatchStutters ==
  ASSUME WatchInv, UNCHANGED <<filesVars, watchVars>>
  PROVE  WatchInv'
BY DEF filesVars, watchVars, WatchInv, WatchTypeOK, WatchSeesAll, EmitsTheRest, InPrinted,
   PrintedIsPassed, AdoptedIsBelow, WatchPromise, Ascending, Answerable, In

LEMMA WatchStepKeeps ==
  ASSUME FilesTypeOK, WatchInv, WatchNext
  PROVE  FilesTypeOK' /\ WatchInv'
<1>1. CASE Arm
  BY <1>1, ArmKeeps
<1>2. CASE WatchReads
  BY <1>2, WatchReadsKeeps
<1>3. CASE Snapshotted
  BY <1>3, SnapshottedKeeps
<1>4. CASE Emit
  BY <1>4, EmitKeeps
<1>5. CASE EmittedAll
  BY <1>5, EmittedAllKeeps
<1>6. CASE Wake /\ ~watch.aborted
  BY <1>6, WakeKeeps
<1>7. CASE Abort \/ Killed \/ (Wake /\ watch.aborted)
  BY <1>7, WatchEndsKeeps
<1>8. CASE WatchLands
  BY <1>8, WatchLandsKeeps
<1> QED BY <1>1, <1>2, <1>3, <1>4, <1>5, <1>6, <1>7, <1>8 DEF WatchNext

(* Theorem: a watch prints each message of its inboxes once, in the order  *)
(* of the ids, and its mark passes none that it could have seen and has    *)
(* not printed (commands/watch.ts), for any number of inboxes and ids.     *)
THEOREM WatchKeepsPromise == WatchSpec => []WatchPromise
<1>1. WatchInit /\ FilesInit => FilesTypeOK /\ WatchInv
  BY FilesBegin, WatchBegins
<1>2. FilesTypeOK /\ WatchInv /\ [WatchNext]_<<filesVars, watchVars>> => (FilesTypeOK /\ WatchInv)'
  BY WatchStepKeeps, WatchStutters, FilesStutter DEF filesVars
<1>3. WatchInv => WatchPromise
  BY DEF WatchInv
<1> QED BY <1>1, <1>2, <1>3, PTL DEF WatchSpec

-----------------------------------------------------------------------------
(* The shadow tail. *)

ShadowSpec == ShadowInit /\ FilesInit /\ [][ShadowNext]_<<filesVars, tailVars>>

LEMMA ShadowBegins ==
  ASSUME ShadowInit
  PROVE  ShadowInv
<1> USE DEF ShadowInit
<1>1. pending = NothingPending /\ DOMAIN pending = {}
  BY DEF NothingPending
<1>2. ShadowTypeOK
  <2>1. /\ shown \in [Ids -> 0..2] /\ outcome \in [Ids -> {"none", "corroborated", "diverged"}]
        /\ reads \in [Ids -> 0..Confirm]
    BY ShadowTailAssumption
  <2>2. \A s \in {fsSeen, known, adoptedIds, due, DOMAIN pending} : s = {}
    BY <1>1
  <2> QED BY <1>1, <2>1, <2>2 DEF ShadowTypeOK
<1>3. ShadowSeesDue /\ SeenIsShown /\ MissesAreReads
  BY <1>1 DEF ShadowSeesDue, SeenIsShown, MissesAreReads
<1>4. ShadowPromise
  BY <1>1 DEF ShadowPromise
<1> QED BY <1>2, <1>3, <1>4 DEF ShadowInv

(* What is followed, missed and known stays; only where the tail is, and   *)
(* what its pass has seen, moves.                                          *)
LEMMA ShadowFollowsOn ==
  ASSUME ShadowInv, UNCHANGED <<landed, baselined, fsSeen, pending, adoptedIds, shown, outcome, reads>>,
         known \subseteq known', known' \subseteq Ids, due' \subseteq Ids,
         tail' \in {"off", "scan", "sleep"}, ShadowSeesDue',
         tail' = "sleep" => tail = "sleep" /\ due' = due /\ excused' = excused
  PROVE  ShadowInv'
<1>1. ShadowTypeOK'
  BY DEF ShadowInv, ShadowTypeOK
<1>2. SeenIsShown'
  BY DEF ShadowInv, SeenIsShown
<1>3. MissesAreReads'
  BY DEF ShadowInv, MissesAreReads
<1>4. ShadowPromise'
  BY DEF ShadowInv, ShadowPromise
<1> QED BY <1>1, <1>2, <1>3, <1>4 DEF ShadowInv

LEMMA NextInboxIsOne ==
  ASSUME FilesTypeOK, scan.todo # {}
  PROVE  NextInbox \in scan.todo /\ NextInbox \in Dirs /\ NextInbox # 0
<1>1. scan.todo \in SUBSET Nat /\ scan.todo \in SUBSET Dirs /\ 0 \notin Dirs
  BY MailboxFilesAssumption DEF FilesTypeOK, Dirs
<1> QED BY <1>1, LeastOf DEF NextInbox

LEMMA RunShadowKeeps ==
  ASSUME FilesTypeOK, ShadowInv, RunShadow
  PROVE  FilesTypeOK' /\ ShadowInv'
<1>1. /\ scan' = [todo |-> Dirs, seen |-> {}] /\ excused' = {i \in excused : i <= NoMark}
      /\ landed' = landed /\ tail' = "scan" /\ due' = In(Dirs) /\ known' = known
      /\ baselined' = FALSE /\ fsSeen' = {} /\ pending' = NothingPending /\ adoptedIds' = {}
      /\ shown' = [i \in Ids |-> 0] /\ outcome' = [i \in Ids |-> "none"]
      /\ reads' = [i \in Ids |-> 0]
  BY DEF RunShadow, ShadowPassStarts, PassStarts
<1>2. FilesTypeOK'
  BY <1>1 DEF FilesTypeOK
<1>3. DOMAIN pending' = {}
  BY <1>1 DEF NothingPending
<1>4. ShadowTypeOK'
  <2>1. /\ shown' \in [Ids -> 0..2] /\ outcome' \in [Ids -> {"none", "corroborated", "diverged"}]
        /\ reads' \in [Ids -> 0..Confirm]
    BY <1>1, ShadowTailAssumption
  <2>2. known' \subseteq Ids /\ due' \subseteq Ids
    BY <1>1 DEF ShadowTypeOK, ShadowInv, In
  <2>3. \A s \in {fsSeen', known', adoptedIds', due', DOMAIN pending'} : s \subseteq Ids
    BY <1>1, <1>3, <2>2
  <2> QED BY <1>1, <1>3, <2>1, <2>3 DEF ShadowTypeOK
<1>5. ShadowSeesDue' /\ SeenIsShown' /\ MissesAreReads'
  BY <1>1, <1>3 DEF ShadowSeesDue, SeenIsShown, MissesAreReads, In
<1>6. ShadowPromise'
  BY <1>1, <1>3 DEF ShadowPromise
<1> QED BY <1>2, <1>4, <1>5, <1>6 DEF ShadowInv

LEMMA ShadowReadsKeeps ==
  ASSUME FilesTypeOK, ShadowInv, ShadowReads
  PROVE  FilesTypeOK' /\ ShadowInv'
<1> DEFINE N == NextInbox
<1>1. /\ tail = "scan" /\ landed' = landed /\ scan.todo # {}
      /\ UNCHANGED <<tail, baselined, fsSeen, pending, known, adoptedIds, shown, outcome, reads, due>>
      /\ \E unread \in SUBSET In({N}) :
           /\ scan' = [todo |-> scan.todo \ {N}, seen |-> scan.seen \cup (In({N}) \ unread)]
           /\ excused' = excused \cup unread
  BY DEF ShadowReads, ReadInbox, tailVars
<1>2. N # 0
  BY <1>1, NextInboxIsOne
<1> HIDE DEF N
<1>3. /\ scan'.todo = scan.todo \ {N} /\ excused \subseteq excused'
      /\ scan.seen \subseteq scan'.seen /\ In({N}) \subseteq scan'.seen \cup excused'
      /\ scan'.seen \subseteq scan.seen \cup In({N})
      /\ FilesTypeOK'
  <2>1. PICK unread \in SUBSET In({N}) :
          /\ scan' = [todo |-> scan.todo \ {N}, seen |-> scan.seen \cup (In({N}) \ unread)]
          /\ excused' = excused \cup unread
    BY <1>1
  <2>2. In({N}) \subseteq Ids
    BY DEF In
  <2>3. scan'.todo = scan.todo \ {N} /\ scan'.seen = scan.seen \cup (In({N}) \ unread)
    BY <2>1
  <2>4. FilesTypeOK'
    BY <1>1, <2>1, <2>2 DEF FilesTypeOK
  <2> QED BY <2>1, <2>3, <2>4
<1>5. \A i \in scan'.seen : landed[i] # 0
  BY <1>1, <1>2, <1>3 DEF ShadowInv, ShadowSeesDue, In
<1>4. ShadowSeesDue'
  BY <1>1, <1>3, <1>5 DEF ShadowSeesDue, ShadowInv, In
<1>6. known' \subseteq Ids /\ due' \subseteq Ids
  BY <1>1 DEF ShadowInv, ShadowTypeOK
<1> QED BY <1>1, <1>3, <1>4, <1>6, ShadowFollowsOn

LEMMA ShadowRestsKeeps ==
  ASSUME FilesTypeOK, ShadowInv, ShadowWakes \/ ShadowStops \/ SqliteCatchesUp
  PROVE  FilesTypeOK' /\ ShadowInv'
<1>1. /\ UNCHANGED <<landed, baselined, fsSeen, pending, adoptedIds, shown, outcome, reads>>
  BY DEF ShadowWakes, ShadowPassStarts, PassStarts, ShadowStops, SqliteCatchesUp, filesVars
<1>2. known \in SUBSET Ids /\ due \in SUBSET Ids /\ tail \in {"off", "scan", "sleep"}
  BY DEF ShadowInv, ShadowTypeOK
<1>4. CASE ShadowWakes
  <2>1. /\ scan' = [todo |-> Dirs, seen |-> {}] /\ excused' = {i \in excused : i <= NoMark}
        /\ landed' = landed /\ tail' = "scan" /\ due' = In(Dirs) /\ known' = known
    BY <1>4 DEF ShadowWakes, ShadowPassStarts, PassStarts
  <2>2. FilesTypeOK'
    BY <2>1 DEF FilesTypeOK
  <2>3. ShadowSeesDue' /\ due' \subseteq Ids
    BY <2>1 DEF ShadowSeesDue, In
  <2> QED BY <1>1, <1>2, <2>1, <2>2, <2>3, ShadowFollowsOn
<1>5. CASE ShadowStops
  <2>1. tail' = "off" /\ UNCHANGED <<landed, scan, excused, known, due>>
    BY <1>5 DEF ShadowStops, filesVars
  <2>2. FilesTypeOK' /\ ShadowSeesDue'
    BY <2>1 DEF FilesTypeOK, ShadowSeesDue
  <2> QED BY <1>1, <1>2, <2>1, <2>2, ShadowFollowsOn
<1>6. CASE SqliteCatchesUp
  <2>1. PICK i \in Ids : known' = known \cup {i}
    BY <1>6 DEF SqliteCatchesUp
  <2>2. UNCHANGED <<landed, scan, excused, tail, due>>
    BY <1>6 DEF SqliteCatchesUp, filesVars
  <2>3. FilesTypeOK' /\ ShadowSeesDue'
    BY <2>2 DEF FilesTypeOK, ShadowSeesDue, ShadowInv, In
  <2> QED BY <1>1, <1>2, <2>1, <2>2, <2>3, ShadowFollowsOn
<1> QED BY <1>4, <1>5, <1>6

LEMMA ShadowLandsKeeps ==
  ASSUME FilesTypeOK, ShadowInv, ShadowLands
  PROVE  FilesTypeOK' /\ ShadowInv'
<1>1. PICK n \in Ids, d \in Dirs :
        /\ landed[n] = 0
        /\ landed' = [landed EXCEPT ![n] = d]
        /\ excused' \in {excused, excused \cup {n}}
        /\ UNCHANGED scan
  BY DEF ShadowLands, Lands
<1>2. UNCHANGED <<tail, baselined, fsSeen, pending, known, adoptedIds, shown, outcome, reads, due>>
  BY DEF ShadowLands, tailVars
<1>3. /\ landed'[n] = d /\ d # 0
      /\ \A i \in Ids : i # n => landed'[i] = landed[i]
  BY <1>1 DEF FilesTypeOK, Dirs
<1>4. FilesTypeOK'
  BY <1>1 DEF FilesTypeOK, Dirs
<1>5. excused \subseteq excused'
  BY <1>1
<1>6. /\ ShadowTypeOK /\ ShadowSeesDue /\ SeenIsShown /\ MissesAreReads /\ ShadowPromise
      /\ scan.seen \subseteq Ids /\ fsSeen \subseteq Ids
  BY DEF ShadowInv, FilesTypeOK, ShadowTypeOK
<1>7. n \notin fsSeen /\ (tail = "scan" => n \notin scan.seen) /\ shown[n] # 1
  BY <1>1, <1>6 DEF SeenIsShown, ShadowSeesDue
<1>8. ShadowTypeOK' /\ MissesAreReads'
  BY <1>2, <1>6 DEF ShadowTypeOK, MissesAreReads
<1>9. ShadowSeesDue'
  <2>1. 0 \notin scan.todo
    BY DEF FilesTypeOK, Dirs
  <2>2. In(scan.todo) \subseteq In(scan.todo)'
    BY <1>1, <1>3, <2>1 DEF In
  <2>3. tail = "scan" => \A i \in scan.seen : landed'[i] # 0
    BY <1>3, <1>6, <1>7 DEF ShadowSeesDue
  <2> QED BY <1>1, <1>2, <1>5, <1>6, <2>2, <2>3 DEF ShadowSeesDue
<1>10. SeenIsShown'
  BY <1>1, <1>2, <1>3, <1>6, <1>7 DEF SeenIsShown
<1>11. ShadowPromise'
  <2>1. tail' = "sleep" => due' \ excused' \subseteq adoptedIds' \cup {i \in Ids : shown'[i] = 1}
    BY <1>2, <1>5, <1>6 DEF ShadowPromise
  <2>2. ASSUME NEW i \in Ids
        PROVE  /\ shown[i] <= IF i \in adoptedIds THEN 0 ELSE 1
               /\ i \in DOMAIN pending \/ outcome[i] # "none" =>
                    shown[i] = 1 /\ landed'[i] = PrimaryDir
               /\ shown[i] = 1 /\ landed'[i] = PrimaryDir =>
                    (i \in DOMAIN pending) # (outcome[i] # "none")
               /\ outcome[i] = "corroborated" => i \in known
               /\ outcome[i] = "diverged" => reads[i] = Confirm
    <3>1. CASE i = n
      BY <1>6, <1>7, <3>1 DEF ShadowPromise
    <3>2. CASE i # n
      BY <1>3, <1>6, <3>2 DEF ShadowPromise
    <3> QED BY <3>1, <3>2
  <2> HIDE DEF ShadowInv, FilesTypeOK
  <2> QED BY <1>2, <2>1, <2>2 DEF ShadowPromise
<1> QED BY <1>4, <1>8, <1>9, <1>10, <1>11 DEF ShadowInv

(* A tick prints what is fresh, follows what is fresh in the primary       *)
(* project, and settles or counts a miss of what it follows.               *)
LEMMA TickKeeps ==
  ASSUME FilesTypeOK, ShadowInv, Tick
  PROVE  FilesTypeOK' /\ ShadowInv'
<1> DEFINE fresh == IF baselined THEN scan.seen \ fsSeen ELSE {}
           followed == DOMAIN pending \cup {i \in fresh : landed[i] = PrimaryDir}
           p == [i \in followed |-> IF i \in DOMAIN pending THEN pending[i] ELSE 0]
<1>1. /\ tail = "scan" /\ scan.todo = {}
      /\ shown' = [i \in Ids |-> IF i \in fresh THEN shown[i] + 1 ELSE shown[i]]
      /\ \/ \E found \in QueryKnownIds(followed) : CrossCheck(p, found)
         \/ pending' = p /\ UNCHANGED <<outcome, reads>>
      /\ fsSeen' = fsSeen \cup scan.seen
      /\ baselined' = TRUE
      /\ adoptedIds' = (IF baselined THEN adoptedIds ELSE scan.seen)
      /\ tail' = "sleep"
      /\ UNCHANGED <<landed, scan, excused, known, due>>
  BY DEF Tick, filesVars
<1>2. FilesTypeOK'
  BY <1>1 DEF FilesTypeOK
<1>3. /\ ShadowTypeOK /\ ShadowSeesDue /\ SeenIsShown /\ MissesAreReads /\ ShadowPromise
      /\ scan.seen \subseteq Ids
  BY DEF ShadowInv, FilesTypeOK
<1>4. /\ fsSeen \subseteq Ids /\ known \subseteq Ids /\ adoptedIds \subseteq Ids /\ due \subseteq Ids
      /\ DOMAIN pending \subseteq Ids /\ baselined \in BOOLEAN
      /\ \A i \in DOMAIN pending : pending[i] \in 0..(Confirm - 1)
      /\ shown \in [Ids -> 0..2] /\ outcome \in [Ids -> {"none", "corroborated", "diverged"}]
      /\ reads \in [Ids -> 0..Confirm] /\ Confirm \in Nat /\ Confirm > 0
  BY <1>3, ShadowTailAssumption DEF ShadowTypeOK
<1>5. /\ fresh \subseteq scan.seen /\ fresh \subseteq Ids /\ followed \subseteq Ids
      /\ fresh \cap fsSeen = {} /\ (baselined => scan.seen \subseteq fresh \cup fsSeen)
  BY <1>3, <1>4
<1>6. /\ DOMAIN p = followed /\ DOMAIN pending \subseteq followed
      /\ followed = DOMAIN pending \cup {i \in fresh : landed[i] = PrimaryDir}
      /\ \A i \in DOMAIN pending : p[i] = pending[i]
      /\ \A i \in followed : i \notin DOMAIN pending => p[i] = 0
  OBVIOUS
<1> HIDE DEF p, followed, fresh
<1>7. \A i \in Ids :
        /\ shown[i] <= IF i \in adoptedIds THEN 0 ELSE 1
        /\ i \in DOMAIN pending \/ outcome[i] # "none" => shown[i] = 1 /\ landed[i] = PrimaryDir
        /\ shown[i] = 1 /\ landed[i] = PrimaryDir => (i \in DOMAIN pending) # (outcome[i] # "none")
        /\ outcome[i] = "corroborated" => i \in known
        /\ outcome[i] = "diverged" => reads[i] = Confirm
  BY <1>3 DEF ShadowPromise
<1>8. /\ fsSeen = adoptedIds \cup {i \in Ids : shown[i] = 1}
      /\ ~baselined => fsSeen = {}
      /\ \A i \in scan.seen \cup fsSeen : landed[i] # 0
  BY <1>1, <1>3 DEF SeenIsShown, ShadowSeesDue
<1>9. \A i \in Ids : /\ i \in DOMAIN pending => reads[i] = pending[i]
                     /\ shown[i] = 0 => reads[i] = 0
                     /\ shown[i] \in 0..2
  BY <1>3, <1>4 DEF MissesAreReads
<1>10. \A i \in fresh : shown[i] = 0 /\ i \notin adoptedIds /\ i \notin DOMAIN pending /\ outcome[i] = "none"
  <2> TAKE i \in fresh
  <2>1. i \in Ids /\ i \notin adoptedIds /\ shown[i] # 1
    BY <1>5, <1>8
  <2>2. shown[i] = 0
    BY <1>7, <1>9, <2>1
  <2> QED BY <1>7, <2>1, <2>2
<1>11. \A i \in Ids : /\ shown'[i] = IF i \in fresh THEN 1 ELSE shown[i]
                      /\ shown'[i] \in 0..2
                      /\ shown'[i] = 1 <=> i \in fresh \/ shown[i] = 1
  BY <1>1, <1>9, <1>10
<1>12. adoptedIds' \subseteq Ids /\ (baselined => adoptedIds' = adoptedIds) /\ (~baselined => fresh = {} /\ adoptedIds' = scan.seen)
  BY <1>1, <1>3, <1>4 DEF fresh
<1>13. \A i \in Ids : shown'[i] <= IF i \in adoptedIds' THEN 0 ELSE 1
  <2> SUFFICES ASSUME NEW i \in Ids
               PROVE  shown'[i] <= IF i \in adoptedIds' THEN 0 ELSE 1
    OBVIOUS
  <2>1. CASE baselined
    BY <1>7, <1>10, <1>11, <1>12, <2>1
  <2>2. CASE ~baselined
    <3>1. i \notin fresh /\ shown[i] # 1 /\ i \notin adoptedIds
      BY <1>8, <1>12, <2>2
    <3>2. shown[i] = 0
      BY <1>7, <1>9, <3>1
    <3> QED BY <1>11, <3>1, <3>2
  <2> QED BY <2>1, <2>2
<1>14. SeenIsShown'
  <2>1. fsSeen' = adoptedIds' \cup {i \in Ids : shown'[i] = 1}
    <3>1. CASE baselined
      BY <1>1, <1>5, <1>8, <1>11, <1>12, <3>1
    <3>2. CASE ~baselined
      BY <1>1, <1>8, <1>11, <1>12, <3>2
    <3> QED BY <3>1, <3>2
  <2> QED BY <1>1, <1>8, <2>1 DEF SeenIsShown
<1>15. \A i \in followed : /\ i \in Ids /\ shown'[i] = 1 /\ landed[i] = PrimaryDir /\ outcome[i] = "none"
                           /\ p[i] \in 0..(Confirm - 1) /\ reads[i] = p[i]
  <2> TAKE i \in followed
  <2>1. CASE i \in DOMAIN pending
    BY <1>4, <1>6, <1>7, <1>9, <1>11, <2>1
  <2>2. CASE i \notin DOMAIN pending
    BY <1>4, <1>5, <1>6, <1>9, <1>10, <1>11, <2>2
  <2> QED BY <2>1, <2>2
<1>16. \A i \in Ids : /\ outcome[i] # "none" => i \notin followed /\ shown'[i] = 1 /\ landed[i] = PrimaryDir
                      /\ shown'[i] = 1 /\ landed[i] = PrimaryDir /\ i \notin followed => outcome[i] # "none"
                      /\ shown'[i] = 0 => i \notin followed /\ reads[i] = 0
  <2> TAKE i \in Ids
  <2>1. outcome[i] # "none" => i \notin followed /\ shown'[i] = 1 /\ landed[i] = PrimaryDir
    BY <1>7, <1>11, <1>15
  <2>2. shown'[i] = 1 /\ landed[i] = PrimaryDir /\ i \notin followed => outcome[i] # "none"
    BY <1>6, <1>7, <1>11
  <2>3. shown'[i] = 0 => i \notin followed /\ reads[i] = 0
    BY <1>9, <1>11, <1>15
  <2> QED BY <2>1, <2>2, <2>3
<1>17. due' \ excused' \subseteq adoptedIds' \cup {i \in Ids : shown'[i] = 1}
  <2>1. due \ excused \subseteq scan.seen
    BY <1>1, <1>3 DEF ShadowSeesDue, In
  <2>2. scan.seen \subseteq fsSeen'
    BY <1>1
  <2>3. fsSeen' = adoptedIds' \cup {i \in Ids : shown'[i] = 1}
    BY <1>14 DEF SeenIsShown
  <2> QED BY <1>1, <2>1, <2>2, <2>3
<1>18. /\ DOMAIN pending' \subseteq followed
       /\ \A i \in DOMAIN pending' : pending'[i] \in 0..(Confirm - 1) /\ reads'[i] = pending'[i]
       /\ outcome' \in [Ids -> {"none", "corroborated", "diverged"}] /\ reads' \in [Ids -> 0..Confirm]
       /\ \A i \in Ids :
            /\ i \notin followed => outcome'[i] = outcome[i] /\ reads'[i] = reads[i]
            /\ i \in followed => (i \in DOMAIN pending') # (outcome'[i] # "none")
            /\ outcome'[i] = "corroborated" => i \in known
            /\ outcome'[i] = "diverged" => reads'[i] = Confirm
  <2>1. CASE pending' = p /\ UNCHANGED <<outcome, reads>>
    BY <1>4, <1>6, <1>7, <1>15, <2>1
  <2>2. CASE \E found \in QueryKnownIds(followed) : CrossCheck(p, found)
    <3>1. PICK found \in QueryKnownIds(followed) : CrossCheck(p, found)
      BY <2>2
    <3> DEFINE diverges == {i \in followed \ found : p[i] + 1 >= Confirm}
    <3>2. /\ pending' = [i \in followed \ (found \cup diverges) |-> p[i] + 1]
          /\ outcome' = [i \in Ids |-> CASE i \in found -> "corroborated"
                                         [] i \in diverges -> "diverged"
                                         [] OTHER -> outcome[i]]
          /\ reads' = [i \in Ids |-> IF i \in followed THEN reads[i] + 1 ELSE reads[i]]
      BY <1>6, <3>1 DEF CrossCheck
    <3>3. found \subseteq known /\ found \subseteq followed
      BY <3>1 DEF QueryKnownIds
    <3>4. \A i \in diverges : i \in followed /\ i \notin found /\ p[i] + 1 = Confirm
      BY <1>4, <1>15
    <3>5. \A i \in followed : i \notin found /\ i \notin diverges => p[i] + 1 \in 0..(Confirm - 1)
      BY <1>4, <1>15
    <3> HIDE DEF diverges
    <3>6. \A i \in Ids : /\ i \in found => outcome'[i] = "corroborated"
                         /\ i \notin found /\ i \in diverges => outcome'[i] = "diverged"
                         /\ i \notin found /\ i \notin diverges => outcome'[i] = outcome[i]
      <4> TAKE i \in Ids
      <4>1. outcome'[i] = CASE i \in found -> "corroborated"
                            [] i \in diverges -> "diverged"
                            [] OTHER -> outcome[i]
        BY <3>2
      <4>2. ~(i \in found /\ i \in diverges)
        BY <3>4
      <4>3. CASE i \in found
        BY <4>1, <4>2, <4>3
      <4>4. CASE i \in diverges
        BY <4>1, <4>2, <4>4
      <4>5. CASE i \notin found /\ i \notin diverges
        BY <4>1, <4>5
      <4> QED BY <4>2, <4>3, <4>4, <4>5
    <3>7. \A i \in Ids : /\ i \in followed => reads'[i] = reads[i] + 1
                         /\ i \notin followed => reads'[i] = reads[i]
      BY <3>2
    <3>8. /\ DOMAIN pending' = followed \ (found \cup diverges)
          /\ \A i \in DOMAIN pending' : pending'[i] = p[i] + 1
      BY <3>2
    <3>9. \A i \in DOMAIN pending' : pending'[i] \in 0..(Confirm - 1) /\ reads'[i] = pending'[i]
      <4> TAKE i \in DOMAIN pending'
      <4>1. i \in followed /\ i \in Ids /\ i \notin found /\ i \notin diverges
        BY <1>15, <3>8
      <4> QED BY <1>15, <3>5, <3>7, <3>8, <4>1
    <3>10. outcome' \in [Ids -> {"none", "corroborated", "diverged"}]
      <4>1. \A i \in Ids : outcome'[i] \in {"none", "corroborated", "diverged"}
        BY <1>4, <3>6
      <4> QED BY <3>2, <4>1
    <3>11. reads' \in [Ids -> 0..Confirm]
      <4>1. \A i \in Ids : reads'[i] \in 0..Confirm
        <5> TAKE i \in Ids
        <5>1. CASE i \in followed
          BY <1>4, <1>15, <3>7, <5>1
        <5>2. CASE i \notin followed
          BY <1>4, <3>7, <5>2
        <5> QED BY <5>1, <5>2
      <4> QED BY <3>2, <4>1
    <3>12. ASSUME NEW i \in Ids
           PROVE /\ i \notin followed => outcome'[i] = outcome[i] /\ reads'[i] = reads[i]
                 /\ i \in followed => (i \in DOMAIN pending') # (outcome'[i] # "none")
                 /\ outcome'[i] = "corroborated" => i \in known
                 /\ outcome'[i] = "diverged" => reads'[i] = Confirm
      <4>1. CASE i \in found
        BY <3>3, <3>6, <3>7, <3>8, <4>1
      <4>2. CASE i \notin found /\ i \in diverges
        BY <1>15, <3>4, <3>6, <3>7, <3>8, <4>2
      <4>3. CASE i \notin found /\ i \notin diverges /\ i \in followed
        BY <1>15, <3>6, <3>7, <3>8, <4>3
      <4>4. CASE i \notin followed
        BY <1>7, <3>3, <3>4, <3>6, <3>7, <3>8, <4>4
      <4> QED BY <4>1, <4>2, <4>3, <4>4
    <3> QED BY <3>8, <3>9, <3>10, <3>11, <3>12
  <2> QED BY <1>1, <2>1, <2>2
<1>19. ShadowTypeOK'
  <2>1. shown' \in [Ids -> 0..2]
    BY <1>1, <1>11
  <2>2. fsSeen' \subseteq Ids /\ DOMAIN pending' \subseteq Ids
    BY <1>1, <1>3, <1>4, <1>5, <1>18
  <2> QED BY <1>1, <1>4, <1>12, <1>18, <2>1, <2>2 DEF ShadowTypeOK
<1>20. ShadowSeesDue'
  BY <1>1 DEF ShadowSeesDue
<1>21. MissesAreReads'
  BY <1>16, <1>18 DEF MissesAreReads
<1>22. ShadowPromise'
  <2>1. ASSUME NEW i \in Ids
        PROVE  /\ i \in DOMAIN pending' \/ outcome'[i] # "none" => shown'[i] = 1 /\ landed[i] = PrimaryDir
               /\ shown'[i] = 1 /\ landed[i] = PrimaryDir => (i \in DOMAIN pending') # (outcome'[i] # "none")
               /\ outcome'[i] = "corroborated" => i \in known
               /\ outcome'[i] = "diverged" => reads'[i] = Confirm
    <3>1. CASE i \in followed
      BY <1>15, <1>18, <3>1
    <3>2. CASE i \notin followed
      <4>1. i \notin DOMAIN pending' /\ outcome'[i] = outcome[i] /\ reads'[i] = reads[i]
        BY <1>18, <3>2
      <4> QED BY <1>7, <1>16, <3>2, <4>1
    <3> QED BY <3>1, <3>2
  <2> QED BY <1>1, <1>13, <1>17, <2>1 DEF ShadowPromise
<1> QED BY <1>2, <1>14, <1>19, <1>20, <1>21, <1>22 DEF ShadowInv

LEMMA ShadowStutters ==
  ASSUME ShadowInv, UNCHANGED <<filesVars, tailVars>>
  PROVE  ShadowInv'
BY DEF filesVars, tailVars, ShadowInv, ShadowTypeOK, ShadowSeesDue, SeenIsShown, MissesAreReads,
   ShadowPromise, In

LEMMA ShadowStepKeeps ==
  ASSUME FilesTypeOK, ShadowInv, ShadowNext
  PROVE  FilesTypeOK' /\ ShadowInv'
<1>1. CASE RunShadow
  BY <1>1, RunShadowKeeps
<1>2. CASE ShadowReads
  BY <1>2, ShadowReadsKeeps
<1>3. CASE Tick
  BY <1>3, TickKeeps
<1>4. CASE ShadowWakes \/ ShadowStops \/ SqliteCatchesUp
  BY <1>4, ShadowRestsKeeps
<1>5. CASE ShadowLands
  BY <1>5, ShadowLandsKeeps
<1> QED BY <1>1, <1>2, <1>3, <1>4, <1>5 DEF ShadowNext

(* Theorem: the shadow tail prints each message that is due once, and      *)
(* follows each of the primary project to exactly one end                  *)
(* (commands/shadow.ts), for any number of inboxes, ids and reads.         *)
THEOREM ShadowKeepsPromise == ShadowSpec => []ShadowPromise
<1>1. ShadowInit /\ FilesInit => FilesTypeOK /\ ShadowInv
  BY FilesBegin, ShadowBegins
<1>2. FilesTypeOK /\ ShadowInv /\ [ShadowNext]_<<filesVars, tailVars>> => (FilesTypeOK /\ ShadowInv)'
  BY ShadowStepKeeps, ShadowStutters, FilesStutter DEF filesVars
<1>3. ShadowInv => ShadowPromise
  BY DEF ShadowInv
<1> QED BY <1>1, <1>2, <1>3, PTL DEF ShadowSpec

-----------------------------------------------------------------------------
(* The product watch. *)

ProductSpec == ProductInit /\ [][ProductNext]_productVars

LEMMA ProductBegins ==
  ASSUME ProductInit
  PROVE  ProductInv
<1> USE DEF ProductInit, NoProductWatch, NoStamp, FailWarnThreshold
<1>1. lines \in Seq(Posted) /\ DOMAIN lines = {}
  OBVIOUS
<1>2. ProductTypeOK
  BY <1>1, ProductWatchAssumption DEF ProductTypeOK
<1>3. PastIsPassed /\ ProductPromise
  BY <1>1 DEF PastIsPassed, ProductPromise
<1> QED BY <1>2, <1>3 DEF ProductInv

LEMMA PagesHaveOrder ==
  ASSUME ProductTypeOK, NEW page \in SUBSET Posted
  PROVE  /\ IsFiniteSet(page)
         /\ page # {} => \E m \in page : \A n \in page \ {m} : Newer(m, n)
         /\ InReadingOrder(page) \in Seq(page)
         /\ Range(InReadingOrder(page)) = page
         /\ \A j, k \in DOMAIN InReadingOrder(page) :
              j < k => Newer(InReadingOrder(page)[k], InReadingOrder(page)[j])
<1> DEFINE R == {p \in Posted \X Posted : Newer(p[2], p[1])}
<1>1. \A m \in Posted : m \in Int /\ stamp[m] \in Int
  BY ProductWatchAssumption DEF ProductTypeOK, Posted
<1>2. \A x, y \in Posted : <<x, y>> \in R <=> Newer(y, x)
  OBVIOUS
<1> HIDE DEF R
<1>3. Orders(R, Posted)
  <2>1. \A x, y \in Posted : x # y => Newer(x, y) \/ Newer(y, x)
    BY <1>1 DEF Newer
  <2>2. \A x, y, z \in Posted : Newer(y, x) /\ Newer(z, y) => Newer(z, x)
    BY <1>1 DEF Newer
  <2> QED BY <1>2, <2>1, <2>2 DEF Orders
<1>4. IsFiniteSet(page)
  <2>1. IsFiniteSet(Posted)
    BY FS_Interval, ProductWatchAssumption DEF Posted
  <2> QED BY <2>1, FS_Subset
<1>5. page # {} => \E m \in page : \A n \in page \ {m} : Newer(m, n)
  <2> SUFFICES ASSUME page # {} PROVE \E m \in page : \A n \in page \ {m} : Newer(m, n)
    OBVIOUS
  <2>1. PICK m \in page : \A n \in page \ {m} : <<n, m>> \in R
    BY <1>3, <1>4, TopmostExists
  <2> QED BY <1>2, <2>1
<1>6. \E s \in [1..Cardinality(page) -> page] :
        /\ Range(s) = page
        /\ \A j, k \in DOMAIN s : j < k => Newer(s[k], s[j])
  <2>1. PICK s \in [1..Cardinality(page) -> page] :
        /\ {s[k] : k \in DOMAIN s} = page
        /\ \A j, k \in DOMAIN s : j < k => <<s[j], s[k]>> \in R
    BY <1>3, <1>4, ListingExists
  <2>2. \A j \in DOMAIN s : s[j] \in Posted
    OBVIOUS
  <2>3. \A j, k \in DOMAIN s : j < k => Newer(s[k], s[j])
    BY <1>2, <2>1, <2>2
  <2> QED BY <2>1, <2>3 DEF Range
<1> DEFINE s == InReadingOrder(page)
<1>7. /\ s \in [1..Cardinality(page) -> page] /\ Range(s) = page
      /\ \A j, k \in DOMAIN s : j < k => Newer(s[k], s[j])
  BY <1>6 DEF InReadingOrder
<1>8. Cardinality(page) \in Nat
  BY <1>4, FS_CardinalityType
<1> HIDE DEF s
<1>9. s \in Seq(page)
  BY <1>7, <1>8
<1> QED BY <1>4, <1>5, <1>7, <1>9 DEF s

LEMMA NewestOf ==
  ASSUME ProductTypeOK, NEW page \in SUBSET Posted
  PROVE  NewestTs(page) \in 0..MaxStamp /\ \A m \in page : stamp[m] <= NewestTs(page)
<1> DEFINE S == {stamp[m] : m \in page} \cup {NoStamp}
<1>1. S \in SUBSET (0..MaxStamp) /\ S # {} /\ MaxStamp \in Nat
  BY ProductWatchAssumption DEF ProductTypeOK, NoStamp
<1>2. \A m \in page : stamp[m] \in S /\ stamp[m] \in Int
  BY DEF ProductTypeOK
<1> HIDE DEF S
<1>3. Max(S) \in S /\ \A y \in S : Max(S) >= y
  BY <1>1, BoundedMax
<1>4. Max(S) \in Int
  <2>1. \A y \in S : y \in Int
    BY <1>1
  <2> QED BY <1>3, <2>1
<1>5. Max(S) = NewestTs(page)
  BY DEF NewestTs, S
<1> QED BY <1>1, <1>2, <1>3, <1>4, <1>5

(* What a page leaves out is not newer than what it holds.                 *)
LEMMA PageHasNewest ==
  ASSUME ProductTypeOK, NEW mark \in 0..MaxStamp
  PROVE  /\ Page(mark) \in SUBSET Posted /\ Page(mark) \subseteq Above(mark)
         /\ \A m \in Above(mark) : stamp[m] > mark /\ m \in Posted
         /\ \A m \in Above(mark) : stamp[m] <= NewestTs(Page(mark))
<1> DEFINE above == Above(mark)
           page == Page(mark)
<1>1. /\ page \in SUBSET Posted /\ page \subseteq above /\ above \in SUBSET Posted
      /\ \A m \in above : stamp[m] > mark /\ m \in Posted
  BY DEF Page, Above
<1>2. \A m \in Posted : m \in Int /\ stamp[m] \in Int
  BY ProductWatchAssumption DEF ProductTypeOK, Posted
<1>3. ASSUME NEW m \in above PROVE stamp[m] <= NewestTs(page)
  <2>1. PICK t \in above : \A n \in above \ {t} : Newer(t, n)
    BY <1>1, <1>3, PagesHaveOrder
  <2>2. \A n \in above : ~Newer(n, t)
    <3> SUFFICES ASSUME NEW n \in above, Newer(n, t) PROVE FALSE
      OBVIOUS
    <3>1. n \in Posted /\ t \in Posted
      BY <1>1, <2>1
    <3>2. CASE n = t
      BY <1>2, <3>1, <3>2 DEF Newer
    <3>3. CASE n # t
      <4>1. Newer(t, n)
        BY <2>1, <3>3
      <4> QED BY <1>2, <3>1, <4>1 DEF Newer
    <3> QED BY <3>2, <3>3
  <2>3. {n \in above : Newer(n, t)} = {}
    BY <2>2
  <2>4. Cardinality({n \in above : Newer(n, t)}) = 0
    BY <2>3, FS_EmptySet
  <2>5. t \in page
    BY <2>4, ProductWatchAssumption DEF Page
  <2>6. stamp[t] <= NewestTs(page) /\ NewestTs(page) \in Int
    BY <1>1, <2>5, NewestOf
  <2>7. stamp[m] <= stamp[t]
    <3>1. m \in Posted /\ t \in Posted
      BY <1>1, <2>1
    <3>2. CASE m = t
      BY <1>2, <3>1, <3>2
    <3>3. CASE m # t
      <4>1. Newer(t, m)
        BY <2>1, <3>3
      <4> QED BY <1>2, <3>1, <4>1 DEF Newer
    <3> QED BY <3>2, <3>3
  <2> QED BY <1>1, <1>2, <2>6, <2>7
<1> QED BY <1>1, <1>3

LEMMA RunProductWatchKeeps ==
  ASSUME ProductInv, RunProductWatch
  PROVE  ProductInv'
<1>1. /\ ProductTypeOK /\ product' = [at |-> "on", started |-> FALSE, lastTs |-> NoStamp,
                                      fails |-> 0, warned |-> FALSE]
      /\ began' = 0 /\ lines' = <<>> /\ missed' = {} /\ cut' = {} /\ stamp' = stamp
  BY DEF ProductInv, RunProductWatch, NoProductWatch
<1>2. lines' \in Seq(Posted) /\ DOMAIN lines' = {}
  BY <1>1
<1>3. ProductTypeOK'
  BY <1>1, <1>2, ProductWatchAssumption DEF ProductTypeOK, NoStamp, FailWarnThreshold
<1>4. PastIsPassed' /\ ProductPromise'
  BY <1>1, <1>2 DEF PastIsPassed, ProductPromise, FailWarnThreshold
<1> QED BY <1>3, <1>4 DEF ProductInv

LEMMA FirstPollKeeps ==
  ASSUME ProductInv, PollOk, ~product.started
  PROVE  ProductInv'
<1> DEFINE page == Page(product.lastTs)
           newest == NewestTs(page)
<1>1. /\ ProductTypeOK /\ PastIsPassed /\ ProductPromise /\ product.at = "on"
      /\ UNCHANGED <<stamp, missed, lines, cut>> /\ began' = newest
      /\ product' = [[product EXCEPT !.started = TRUE, !.fails = 0, !.warned = FALSE]
                       EXCEPT !.lastTs = newest]
  BY DEF ProductInv, PollOk
<1>2. product.lastTs \in 0..MaxStamp
  BY <1>1 DEF ProductTypeOK
<1>3. newest \in 0..MaxStamp
  BY <1>1, <1>2, PageHasNewest, NewestOf
<1> HIDE DEF newest
<1>4. product' = [at |-> "on", started |-> TRUE, lastTs |-> newest, fails |-> 0, warned |-> FALSE]
  BY <1>1 DEF ProductTypeOK
<1>5. lines = <<>> /\ missed = {} /\ cut = {}
  BY <1>1 DEF PastIsPassed
<1>6. DOMAIN lines' = {} /\ Range(lines') = {}
  BY <1>1, <1>5 DEF Range
<1>7. ProductTypeOK'
  <2>1. product' \in [at : {"off", "on"}, started : BOOLEAN, lastTs : 0..MaxStamp,
                       fails : 0..(FailWarnThreshold + 1), warned : BOOLEAN]
    BY <1>3, <1>4 DEF FailWarnThreshold
  <2>2. began' \in 0..MaxStamp
    BY <1>1, <1>3
  <2> QED BY <1>1, <2>1, <2>2 DEF ProductTypeOK
<1>8. PastIsPassed'
  BY <1>1, <1>3, <1>4, <1>5, <1>6 DEF PastIsPassed
<1>9. \A m \in Posted : ~(newest < stamp[m] /\ stamp[m] <= newest)
  BY <1>1, <1>3 DEF ProductTypeOK
<1>10. ProductPromise'
  BY <1>1, <1>4, <1>6, <1>9 DEF ProductPromise, FailWarnThreshold
<1> QED BY <1>7, <1>8, <1>10 DEF ProductInv

(* Lines printed of a page above the mark, in reading order, follow those  *)
(* that are printed.                                                       *)
LEMMA PrintedInOrder ==
  ASSUME ProductInv, product.started,
         NEW t \in Seq(Above(product.lastTs)),
         \A j, k \in DOMAIN t : j < k => Newer(t[k], t[j])
  PROVE  LET out == lines \o t
         IN  /\ out \in Seq(Posted)
             /\ \A k \in DOMAIN out : stamp[out[k]] > 0
             /\ \A j, k \in DOMAIN out :
                  j < k => out[j] # out[k] /\ stamp[out[j]] <= stamp[out[k]]
<1> DEFINE out == lines \o t
           above == Above(product.lastTs)
           last == product.lastTs
<1>1. ProductTypeOK /\ PastIsPassed /\ ProductPromise
  BY DEF ProductInv
<1>2. last \in 0..MaxStamp /\ MaxStamp \in Nat /\ lines \in Seq(Posted)
  BY <1>1, ProductWatchAssumption DEF ProductTypeOK
<1>3. /\ above \in SUBSET Posted
      /\ \A m \in above : stamp[m] > last /\ m \in Posted
  BY DEF Above
<1>3a. \A m \in Posted : stamp[m] \in Nat /\ m \in Int
  BY <1>1, <1>2 DEF ProductTypeOK, Posted
<1>4. t \in Seq(Posted) /\ t \in Seq(above)
  BY <1>3, SeqMonotonic
<1> HIDE DEF above, last
<1>5. \A k \in DOMAIN lines : stamp[lines[k]] > 0
  BY <1>1 DEF PastIsPassed
<1>6. \A k \in DOMAIN lines : lines[k] \in Posted /\ stamp[lines[k]] <= last
  <2>1. \A k \in DOMAIN lines : lines[k] \in Posted /\ lines[k] \in Range(lines)
    BY <1>2 DEF Range
  <2> QED BY <1>1, <2>1 DEF ProductPromise, last
<1>7. \A k \in DOMAIN t : t[k] \in above
  BY <1>4
<1> DEFINE n == Len(lines)
           l == Len(t)
<1>8. /\ n \in Nat /\ l \in Nat /\ DOMAIN lines = 1..n /\ DOMAIN t = 1..l
      /\ out \in Seq(Posted) /\ DOMAIN out = 1..(n + l)
      /\ \A k \in 1..(n + l) : out[k] = IF k <= n THEN lines[k] ELSE t[k - n]
  <2>1. /\ out \in Seq(Posted) /\ Len(out) = n + l
        /\ \A k \in 1..(n + l) : out[k] = IF k <= n THEN lines[k] ELSE t[k - n]
    BY <1>2, <1>4, ConcatProperties
  <2>2. n \in Nat /\ l \in Nat /\ DOMAIN lines = 1..n /\ DOMAIN t = 1..l
    BY <1>2, <1>4
  <2>3. DOMAIN out = 1..Len(out)
    BY <2>1
  <2> QED BY <2>1, <2>2, <2>3
<1> HIDE DEF n, l, out
<1>9. \A k \in 1..(n + l) :
        \/ k \in DOMAIN lines /\ out[k] = lines[k]
        \/ k > n /\ k - n \in DOMAIN t /\ out[k] = t[k - n]
  BY <1>8
<1>10. \A k \in DOMAIN out : stamp[out[k]] > 0
  <2> SUFFICES ASSUME NEW k \in 1..(n + l) PROVE stamp[out[k]] > 0
    BY <1>8
  <2>1. CASE k \in DOMAIN lines /\ out[k] = lines[k]
    BY <1>5, <2>1
  <2>2. CASE k - n \in DOMAIN t /\ out[k] = t[k - n]
    <3>1. out[k] \in above
      BY <1>7, <2>2
    <3>2. stamp[out[k]] > last /\ stamp[out[k]] \in Nat /\ last \in Nat
      BY <1>2, <1>3, <1>3a, <3>1
    <3> QED BY <3>2
  <2> QED BY <1>9, <2>1, <2>2
<1>11. \A j, k \in DOMAIN out :
         j < k => out[j] # out[k] /\ stamp[out[j]] <= stamp[out[k]]
  <2> SUFFICES ASSUME NEW j \in 1..(n + l), NEW k \in 1..(n + l), j < k
               PROVE  out[j] # out[k] /\ stamp[out[j]] <= stamp[out[k]]
    BY <1>8
  <2>1. CASE k \in DOMAIN lines /\ out[k] = lines[k]
    <3>1. j \in DOMAIN lines /\ out[j] = lines[j]
      BY <1>8, <2>1
    <3> QED BY <1>1, <2>1, <3>1 DEF ProductPromise
  <2>2. CASE k > n /\ k - n \in DOMAIN t /\ out[k] = t[k - n]
    <3>1. out[k] \in above /\ out[k] \in Posted /\ stamp[out[k]] > last
      BY <1>3, <1>7, <2>2
    <3>2. CASE j \in DOMAIN lines /\ out[j] = lines[j]
      <4>1. out[j] \in Posted /\ stamp[out[j]] <= last
        BY <1>6, <3>2
      <4>2. stamp[out[j]] \in Int /\ stamp[out[k]] \in Int
        BY <1>3a, <3>1, <4>1
      <4> QED BY <1>2, <3>1, <4>1, <4>2
    <3>3. CASE j > n /\ j - n \in DOMAIN t /\ out[j] = t[j - n]
      <4>1. j - n < k - n
        BY <1>8
      <4>2. Newer(out[k], out[j])
        BY <2>2, <3>3, <4>1
      <4>3. out[j] \in Posted
        BY <1>3, <1>7, <3>3
      <4>4. /\ stamp[out[j]] \in Int /\ stamp[out[k]] \in Int
            /\ out[j] \in Int /\ out[k] \in Int
        BY <1>3a, <3>1, <4>3
      <4> QED BY <4>2, <4>4 DEF Newer
    <3> QED BY <1>9, <3>2, <3>3
  <2> QED BY <1>9, <2>1, <2>2
<1> QED BY <1>8, <1>10, <1>11 DEF out

LEMMA LaterPollKeeps ==
  ASSUME ProductInv, PollOk, product.started
  PROVE  ProductInv'
<1> DEFINE page == Page(product.lastTs)
           above == Above(product.lastTs)
           last == product.lastTs
           next == Max({last, NewestTs(page)})
           tailOf == InReadingOrder(page)
<1>1. /\ ProductTypeOK /\ PastIsPassed /\ ProductPromise /\ product.at = "on"
      /\ UNCHANGED <<stamp, missed, began>>
      /\ lines' = lines \o tailOf /\ cut' = cut \cup (above \ page)
      /\ product' = [[product EXCEPT !.started = TRUE, !.fails = 0, !.warned = FALSE]
                       EXCEPT !.lastTs = Max({@, NewestTs(page)})]
  BY DEF ProductInv, PollOk
<1>2. last \in 0..MaxStamp /\ MaxStamp \in Nat /\ began \in 0..MaxStamp /\ lines \in Seq(Posted)
  BY <1>1, ProductWatchAssumption DEF ProductTypeOK
<1>3. /\ page \in SUBSET Posted /\ page \subseteq above
      /\ \A m \in above : stamp[m] > last /\ m \in Posted
      /\ \A m \in above : stamp[m] <= NewestTs(page)
  BY <1>1, <1>2, PageHasNewest
<1>4. NewestTs(page) \in 0..MaxStamp
  BY <1>1, <1>3, NewestOf
<1>5. /\ tailOf \in Seq(page) /\ Range(tailOf) = page
      /\ \A j, k \in DOMAIN tailOf : j < k => Newer(tailOf[k], tailOf[j])
  BY <1>1, <1>3, PagesHaveOrder
<1>6. next \in {last, NewestTs(page)} /\ next >= last /\ next >= NewestTs(page)
  <2> DEFINE b == NewestTs(page)
  <2> HIDE DEF b, last
  <2>1. last \in Int /\ b \in Int
    BY <1>2, <1>4 DEF b
  <2> QED BY <2>1, HigherOfTwo DEF b
<1>7. product' = [at |-> "on", started |-> TRUE, lastTs |-> next, fails |-> 0, warned |-> FALSE]
  BY <1>1 DEF ProductTypeOK
<1>7a. /\ product'.at = "on" /\ product'.started = TRUE /\ product'.lastTs = next
       /\ product'.fails = 0 /\ product'.warned = FALSE
  BY <1>7
<1>8. \A m \in Posted : stamp[m] \in 0..MaxStamp /\ (m \in above <=> stamp[m] > last)
  BY <1>1 DEF ProductTypeOK, Above
<1>9. tailOf \in Seq(Posted)
  BY <1>3, <1>5, SeqMonotonic
<1> HIDE DEF page, above, last, next, tailOf
<1>10. next \in 0..MaxStamp /\ next >= last /\ \A m \in above : stamp[m] <= next
  <2>1. next \in 0..MaxStamp
    BY <1>2, <1>4, <1>6
  <2>2. ASSUME NEW m \in above PROVE stamp[m] <= next
    <3>1. stamp[m] \in Int /\ stamp[m] <= NewestTs(page) /\ NewestTs(page) \in Int /\ next \in Int
      BY <1>3, <1>4, <1>8, <2>1
    <3> QED BY <1>6, <3>1
  <2> QED BY <1>6, <2>1, <2>2
<1>11. /\ began <= last
       /\ \A k \in DOMAIN lines : stamp[lines[k]] > 0
       /\ \A m \in missed \cup cut : 0 < stamp[m] /\ stamp[m] <= last
       /\ missed \subseteq Posted /\ cut \subseteq Posted
  BY <1>1 DEF PastIsPassed, last, ProductTypeOK
<1>12. \A m \in Posted : m \in Range(lines) <=>
          began < stamp[m] /\ stamp[m] <= last /\ m \notin missed \cup cut
  BY <1>1 DEF ProductPromise, last
<1>13. \A k \in DOMAIN lines : lines[k] \in Posted /\ lines[k] \in Range(lines)
  BY <1>2 DEF Range
<1>14. \A k \in DOMAIN tailOf : tailOf[k] \in page
  BY <1>5 DEF Range
<1> DEFINE n == Len(lines)
           l == Len(tailOf)
<1>15. /\ n \in Nat /\ l \in Nat /\ DOMAIN lines = 1..n /\ DOMAIN tailOf = 1..l
       /\ lines' \in Seq(Posted) /\ DOMAIN lines' = 1..(n + l)
       /\ \A k \in 1..(n + l) : lines'[k] = IF k <= n THEN lines[k] ELSE tailOf[k - n]
  <2>1. /\ lines' \in Seq(Posted) /\ Len(lines') = n + l
        /\ \A k \in 1..(n + l) : lines'[k] = IF k <= n THEN lines[k] ELSE tailOf[k - n]
    BY <1>1, <1>2, <1>9, ConcatProperties
  <2>2. n \in Nat /\ l \in Nat /\ DOMAIN lines = 1..n /\ DOMAIN tailOf = 1..l
    BY <1>2, <1>9
  <2>3. DOMAIN lines' = 1..Len(lines')
    BY <2>1
  <2> QED BY <2>1, <2>2, <2>3
<1> HIDE DEF n, l
<1>16. \A k \in 1..(n + l) :
          \/ k \in DOMAIN lines /\ lines'[k] = lines[k]
          \/ k > n /\ k - n \in DOMAIN tailOf /\ lines'[k] = tailOf[k - n]
  BY <1>15
<1>17. Range(lines') = Range(lines) \cup page
  <2>1. Range(lines') \subseteq Range(lines) \cup page
    BY <1>14, <1>15, <1>16 DEF Range
  <2>2. \A m \in Range(lines) : m \in Range(lines')
    BY <1>15 DEF Range
  <2>3. ASSUME NEW m \in page PROVE m \in Range(lines')
    <3>1. PICK k \in 1..l : tailOf[k] = m
      BY <1>5, <1>15 DEF Range
    <3>2. k + n \in 1..(n + l) /\ ~(k + n <= n) /\ (k + n) - n = k
      BY <1>15
    <3>3. lines'[k + n] = m
      BY <1>15, <3>1, <3>2
    <3> QED BY <1>15, <3>2, <3>3 DEF Range
  <2> QED BY <2>1, <2>2, <2>3
<1>18. ProductTypeOK'
  <2>1. above \subseteq Posted
    BY <1>3
  <2>2. product' \in [at : {"off", "on"}, started : BOOLEAN, lastTs : 0..MaxStamp,
                       fails : 0..(FailWarnThreshold + 1), warned : BOOLEAN]
    BY <1>7, <1>10 DEF FailWarnThreshold
  <2>3. cut' \subseteq Posted
    BY <1>1, <1>11, <2>1
  <2> QED BY <1>1, <1>15, <2>2, <2>3 DEF ProductTypeOK
<1>19. /\ \A k \in DOMAIN lines' : stamp[lines'[k]] > 0
       /\ \A j, k \in DOMAIN lines' :
            j < k => lines'[j] # lines'[k] /\ stamp[lines'[j]] <= stamp[lines'[k]]
  <2>1. tailOf \in Seq(Above(product.lastTs))
    BY <1>3, <1>5, SeqMonotonic DEF above
  <2> QED BY <1>1, <1>5, <2>1, PrintedInOrder
<1>20. \A m \in missed \cup cut' : 0 < stamp[m] /\ stamp[m] <= next
  <2> SUFFICES ASSUME NEW m \in missed \cup cut \cup above
               PROVE  0 < stamp[m] /\ stamp[m] <= next
    BY <1>1
  <2>1. CASE m \in missed \cup cut
    <3>1. stamp[m] \in Int /\ stamp[m] <= last /\ 0 < stamp[m]
      BY <1>8, <1>11, <2>1
    <3> QED BY <1>2, <1>10, <3>1
  <2>2. CASE m \in above
    BY <1>2, <1>3, <1>8, <1>10, <2>2
  <2> QED BY <2>1, <2>2
<1>21. PastIsPassed'
  <2>1. began <= next
    BY <1>2, <1>10, <1>11
  <2> QED BY <1>1, <1>7a, <1>19, <1>20, <2>1 DEF PastIsPassed
<1>23. ASSUME NEW m \in Posted
       PROVE  m \in Range(lines') <=>
                began < stamp[m] /\ stamp[m] <= next /\ m \notin missed \cup cut'
  <2>1. stamp[m] \in Int /\ last \in Int /\ next \in Int /\ began \in Int
    BY <1>2, <1>8, <1>10
  <2>2. CASE stamp[m] <= last
    <3>1. m \notin above /\ m \notin page
      BY <1>3, <1>8, <2>1, <2>2
    <3> QED BY <1>1, <1>10, <1>12, <1>17, <2>1, <2>2, <3>1
  <2>3. CASE stamp[m] > last
    <3>1. m \in above /\ m \notin missed \cup cut /\ m \notin Range(lines)
      BY <1>8, <1>11, <1>12, <2>1, <2>3
    <3> QED BY <1>1, <1>10, <1>11, <1>17, <2>1, <2>3, <3>1
  <2> QED BY <2>1, <2>2, <2>3
<1>24. ProductPromise'
  <2>1. product'.warned <=> product'.fails >= FailWarnThreshold
    BY <1>7a DEF FailWarnThreshold
  <2>2. \A m \in Posted :
          began < stamp[m] /\ stamp[m] <= next /\ m \notin missed \cup cut' <=> m \in Range(lines')
    BY <1>23
  <2> QED BY <1>1, <1>7a, <1>19, <2>1, <2>2 DEF ProductPromise
<1> QED BY <1>18, <1>21, <1>24 DEF ProductInv

LEMMA LeastOfTwo ==
  ASSUME NEW a \in Int, NEW b \in Int
  PROVE  Min({a, b}) \in {a, b} /\ Min({a, b}) <= a /\ Min({a, b}) <= b
<1>1. \E x \in {a, b} : \A y \in {a, b} : x <= y
  <2>1. CASE a <= b
    BY <2>1
  <2>2. CASE b <= a
    BY <2>2
  <2> QED BY <2>1, <2>2
<1> QED BY <1>1 DEF Min

LEMMA PollFailsKeeps ==
  ASSUME ProductInv, PollFails, product.started
  PROVE  ProductInv'
<1> DEFINE n == Min({product.fails + 1, FailWarnThreshold + 1})
<1>1. /\ ProductTypeOK /\ PastIsPassed /\ ProductPromise /\ product.at = "on"
      /\ UNCHANGED <<stamp, began, lines, missed, cut>>
      /\ product' = [product EXCEPT !.fails = n, !.warned = @ \/ n >= FailWarnThreshold]
  BY DEF ProductInv, PollFails
<1>2. /\ product.fails \in 0..4 /\ product.warned \in BOOLEAN
      /\ product.warned <=> product.fails >= 3
  BY <1>1 DEF ProductTypeOK, ProductPromise, FailWarnThreshold
<1>3. n \in 0..4 /\ (n >= 3 <=> product.fails >= 2)
  <2> DEFINE a == product.fails + 1
  <2>1. a \in Int
    BY <1>2
  <2> HIDE DEF a
  <2>2. Min({a, 4}) \in {a, 4} /\ Min({a, 4}) <= a /\ Min({a, 4}) <= 4
    BY <2>1, LeastOfTwo
  <2> QED BY <1>2, <2>2 DEF a, FailWarnThreshold
<1> HIDE DEF n
<1>4. product' = [at |-> "on", started |-> TRUE, lastTs |-> product.lastTs, fails |-> n,
                  warned |-> product.warned \/ n >= 3]
  BY <1>1 DEF ProductTypeOK, FailWarnThreshold
<1>5. /\ product'.at = "on" /\ product'.started = TRUE /\ product'.lastTs = product.lastTs
      /\ product'.fails = n /\ (product'.warned <=> product.warned \/ n >= 3)
  BY <1>4
<1>6. product'.warned <=> n >= 3
  BY <1>2, <1>3, <1>5
<1>7. ProductTypeOK'
  <2> DEFINE w == product.warned \/ n >= 3
  <2>1. w \in BOOLEAN
    OBVIOUS
  <2> HIDE DEF w
  <2>2. product' = [at |-> "on", started |-> TRUE, lastTs |-> product.lastTs, fails |-> n, warned |-> w]
    BY <1>4 DEF w
  <2>3. product.lastTs \in 0..MaxStamp
    BY <1>1 DEF ProductTypeOK
  <2>4. product' \in [at : {"off", "on"}, started : BOOLEAN, lastTs : 0..MaxStamp,
                       fails : 0..(FailWarnThreshold + 1), warned : BOOLEAN]
    BY <1>3, <2>1, <2>2, <2>3 DEF FailWarnThreshold
  <2> QED BY <1>1, <2>4 DEF ProductTypeOK
<1>8. PastIsPassed'
  BY <1>1, <1>5 DEF PastIsPassed
<1>9. ProductPromise'
  <2>1. product'.warned <=> product'.fails >= FailWarnThreshold
    BY <1>5, <1>6 DEF FailWarnThreshold
  <2> QED BY <1>1, <1>5, <2>1 DEF ProductPromise
<1> QED BY <1>7, <1>8, <1>9 DEF ProductInv

(* The watch ends: it is stopped, or its first poll failed.                *)
LEMMA ProductStopsKeeps ==
  ASSUME ProductInv, ProductStops \/ (PollFails /\ ~product.started)
  PROVE  ProductInv'
<1>1. /\ ProductTypeOK /\ PastIsPassed /\ ProductPromise
      /\ UNCHANGED <<stamp, began, lines, missed, cut>>
      /\ product' = [at |-> "off", started |-> FALSE, lastTs |-> 0, fails |-> 0, warned |-> FALSE]
  BY DEF ProductInv, ProductStops, PollFails, NoProductWatch, NoStamp
<1>2. ProductTypeOK'
  BY <1>1, ProductWatchAssumption DEF ProductTypeOK, FailWarnThreshold
<1>3. PastIsPassed' /\ ProductPromise'
  BY <1>1 DEF PastIsPassed, ProductPromise, FailWarnThreshold
<1> QED BY <1>2, <1>3 DEF ProductInv

(* A lookup fails while a page is printed: some lines of it are out, and   *)
(* the watch is over.                                                      *)
LEMMA PrintingFailsKeeps ==
  ASSUME ProductInv, PrintingFails
  PROVE  ProductInv'
<1> DEFINE page == Page(product.lastTs)
           order == InReadingOrder(page)
<1>1. /\ ProductTypeOK /\ PastIsPassed /\ product.started
      /\ UNCHANGED <<stamp, began, missed, cut>>
      /\ product' = [at |-> "off", started |-> FALSE, lastTs |-> 0, fails |-> 0, warned |-> FALSE]
  BY DEF ProductInv, PrintingFails, NoProductWatch, NoStamp
<1>2. PICK n \in 0..Len(order) - 1 : lines' = lines \o SubSeq(order, 1, n)
  BY DEF PrintingFails
<1>3. /\ page \in SUBSET Posted /\ page \subseteq Above(product.lastTs)
  <2>1. product.lastTs \in 0..MaxStamp
    BY <1>1 DEF ProductTypeOK
  <2> QED BY <1>1, <2>1, PageHasNewest
<1>4. /\ order \in Seq(page)
      /\ \A j, k \in DOMAIN order : j < k => Newer(order[k], order[j])
  BY <1>1, <1>3, PagesHaveOrder
<1> DEFINE t == SubSeq(order, 1, n)
<1>5. order \in Seq(Above(product.lastTs))
  BY <1>3, <1>4, SeqMonotonic
<1> HIDE DEF order
<1>6. /\ t \in Seq(Above(product.lastTs)) /\ Len(t) = n
      /\ \A k \in 1..n : t[k] = order[k] /\ k \in DOMAIN order
  BY <1>5
<1>7. \A j, k \in DOMAIN t : j < k => Newer(t[k], t[j])
  <2>1. DOMAIN t = 1..n
    BY <1>6
  <2> QED BY <1>4, <1>6, <2>1
<1> HIDE DEF t
<1>8. /\ lines' \in Seq(Posted)
      /\ \A k \in DOMAIN lines' : stamp[lines'[k]] > 0
      /\ \A j, k \in DOMAIN lines' :
           j < k => lines'[j] # lines'[k] /\ stamp[lines'[j]] <= stamp[lines'[k]]
  BY <1>1, <1>2, <1>6, <1>7, PrintedInOrder DEF t
<1>9. ProductTypeOK'
  BY <1>1, <1>8, ProductWatchAssumption DEF ProductTypeOK, FailWarnThreshold
<1>10. PastIsPassed' /\ ProductPromise'
  BY <1>1, <1>8 DEF PastIsPassed, ProductPromise, FailWarnThreshold
<1> QED BY <1>9, <1>10 DEF ProductInv

LEMMA PostsKeeps ==
  ASSUME ProductInv, Posts
  PROVE  ProductInv'
<1>1. PICK m \in Posted, t \in 1..MaxStamp :
         /\ stamp[m] = 0
         /\ stamp' = [stamp EXCEPT ![m] = t]
         /\ missed' = IF product.started /\ t <= product.lastTs
                      THEN missed \cup {m} ELSE missed
  BY DEF Posts
<1>2. /\ ProductTypeOK /\ PastIsPassed /\ ProductPromise
      /\ UNCHANGED <<product, began, lines, cut>>
  BY DEF ProductInv, Posts
<1>3. /\ stamp'[m] = t /\ \A k \in Posted : k # m => stamp'[k] = stamp[k]
      /\ stamp' \in [Posted -> 0..MaxStamp]
  BY <1>1, <1>2 DEF ProductTypeOK
<1>4. /\ lines \in Seq(Posted) /\ missed \subseteq Posted /\ cut \subseteq Posted
      /\ product.lastTs \in 0..MaxStamp /\ began \in 0..MaxStamp /\ MaxStamp \in Nat
      /\ product.started \in BOOLEAN
  BY <1>2, ProductWatchAssumption DEF ProductTypeOK
<1>5. \A k \in DOMAIN lines : lines[k] \in Posted /\ lines[k] # m /\ stamp[lines[k]] > 0
  BY <1>1, <1>2, <1>4 DEF PastIsPassed
<1>6. m \notin Range(lines) /\ (product.started => m \notin cut)
  BY <1>1, <1>2, <1>5 DEF Range, PastIsPassed
<1>7. ProductTypeOK'
  BY <1>1, <1>2, <1>3 DEF ProductTypeOK
<1>8. PastIsPassed'
  <2>1. \A k \in DOMAIN lines : stamp'[lines[k]] > 0
    BY <1>3, <1>5
  <2>2. ASSUME product.started
        PROVE  \A k \in missed' \cup cut : 0 < stamp'[k] /\ stamp'[k] <= product.lastTs
    <3> SUFFICES ASSUME NEW k \in missed' \cup cut PROVE 0 < stamp'[k] /\ stamp'[k] <= product.lastTs
      OBVIOUS
    <3>1. CASE k = m
      BY <1>1, <1>3, <1>6, <1>2, <2>2, <3>1 DEF PastIsPassed
    <3>2. CASE k # m
      BY <1>1, <1>2, <1>3, <1>4, <2>2, <3>2 DEF PastIsPassed
    <3> QED BY <3>1, <3>2
  <2>3. product.at = "on" /\ ~product.started =>
         lines = <<>> /\ missed' = {} /\ cut = {} /\ product.lastTs = NoStamp
    BY <1>1, <1>2 DEF PastIsPassed
  <2> QED BY <1>2, <2>1, <2>2, <2>3 DEF PastIsPassed
<1>9. ProductPromise'
  <2>1. \A j, k \in DOMAIN lines :
          j < k => lines[j] # lines[k] /\ stamp'[lines[j]] <= stamp'[lines[k]]
    BY <1>2, <1>3, <1>5 DEF ProductPromise
  <2>2. ASSUME product.started, NEW k \in Posted
        PROVE  began < stamp'[k] /\ stamp'[k] <= product.lastTs /\ k \notin missed' \cup cut
                 <=> k \in Range(lines)
    <3>1. CASE k = m
      BY <1>1, <1>3, <1>6, <2>2, <3>1
    <3>2. CASE k # m
      <4>1. stamp'[k] = stamp[k] /\ (k \in missed' <=> k \in missed)
        BY <1>1, <1>3, <3>2
      <4> QED BY <1>2, <2>2, <4>1 DEF ProductPromise
    <3> QED BY <3>1, <3>2
  <2> QED BY <1>2, <2>1, <2>2 DEF ProductPromise
<1> QED BY <1>7, <1>8, <1>9 DEF ProductInv

LEMMA ProductStutters ==
  ASSUME ProductInv, UNCHANGED productVars
  PROVE  ProductInv'
BY DEF productVars, ProductInv, ProductTypeOK, PastIsPassed, ProductPromise, Range

LEMMA ProductStepKeeps ==
  ASSUME ProductInv, ProductNext
  PROVE  ProductInv'
<1>1. CASE RunProductWatch
  BY <1>1, RunProductWatchKeeps
<1>2. CASE PollOk
  BY <1>2, FirstPollKeeps, LaterPollKeeps
<1>3. CASE PollFails
  BY <1>3, PollFailsKeeps, ProductStopsKeeps
<1>4. CASE ProductStops
  BY <1>4, ProductStopsKeeps
<1>5. CASE Posts
  BY <1>5, PostsKeeps
<1>6. CASE PrintingFails
  BY <1>6, PrintingFailsKeeps
<1> QED BY <1>1, <1>2, <1>3, <1>4, <1>5, <1>6 DEF ProductNext

(* Theorem: a product watch prints each message once, oldest first, and    *)
(* its mark passes none but those that were printed, that a full page left *)
(* out or that appeared behind it; and it warns of an outage from the      *)
(* third failed poll until one succeeds (commands/product.ts), for any     *)
(* number of messages, times and any page size.                            *)
THEOREM ProductKeepsPromise == ProductSpec => []ProductPromise
<1>1. ProductInit => ProductInv
  BY ProductBegins
<1>2. ProductInv /\ [ProductNext]_productVars => ProductInv'
  BY ProductStepKeeps, ProductStutters
<1>3. ProductInv => ProductPromise
  BY DEF ProductInv
<1> QED BY <1>1, <1>2, <1>3, PTL DEF ProductSpec

-----------------------------------------------------------------------------
(* The lookup. *)

LookupSpec == LookupInit /\ [][LookupNext]_lookupVars

LEMMA LookupBegins ==
  ASSUME LookupInit
  PROVE  LookupInv
<1> USE DEF LookupInit, NoLookup, NoStart
<1>1. LookupTypeOK
  BY MessageLookupAssumption DEF LookupTypeOK
<1>2. ProbesAccount /\ LookupPromise
  BY DEF ProbesAccount, LookupPromise
<1> QED BY <1>1, <1>2 DEF LookupInv

LEMMA RunMessageKeeps ==
  ASSUME LookupInv, RunMessage
  PROVE  LookupInv'
<1>1. /\ LookupTypeOK /\ ProbesAccount /\ LookupPromise /\ lookup.at = "off" /\ home' = home
      /\ code = "none"
  BY DEF LookupInv, RunMessage, ProbesAccount
<1>2. PICK candidates \in {Linked, Projects} :
        /\ start' = [home |-> home, candidates |-> candidates]
        /\ \/ /\ lookup' = [NoLookup EXCEPT
                   !.at = "probing", !.left = FirstOf(candidates, MaxFanout),
                   !.skipped = candidates \ FirstOf(candidates, MaxFanout)]
              /\ UNCHANGED code
           \/ /\ lookup' = [NoLookup EXCEPT !.at = "over"]
              /\ code' = "SERVER_UNREACHABLE"
  BY DEF RunMessage
<1>3. candidates \in SUBSET Projects /\ FirstOf(candidates, MaxFanout) \subseteq candidates
  BY MessageLookupAssumption DEF Projects, FirstOf
<1> DEFINE first == FirstOf(candidates, MaxFanout)
<1> HIDE DEF first
<1>4. \/ /\ lookup' = [at |-> "probing", left |-> first, probed |-> {}, errored |-> {},
                       skipped |-> candidates \ first, aborted |-> FALSE]
         /\ code' = code
      \/ /\ lookup' = [at |-> "over", left |-> {}, probed |-> {}, errored |-> {},
                       skipped |-> {}, aborted |-> FALSE]
         /\ code' = "SERVER_UNREACHABLE"
  BY <1>2 DEF NoLookup, first
<1>5. first \subseteq candidates
  BY <1>3 DEF first
<1>6. LookupTypeOK'
  <2>1. first \in SUBSET Projects /\ candidates \ first \in SUBSET Projects
    BY <1>3, <1>5
  <2>2. lookup' \in [at : {"off", "probing", "over"}, left : SUBSET Projects,
                     probed : SUBSET Projects, errored : SUBSET Projects,
                     skipped : SUBSET Projects, aborted : BOOLEAN]
    <3> DEFINE rest == candidates \ first
    <3>1. rest \in SUBSET Projects /\ {} \in SUBSET Projects
      BY <2>1
    <3> HIDE DEF rest
    <3>2. CASE lookup' = [at |-> "probing", left |-> first, probed |-> {}, errored |-> {},
                          skipped |-> rest, aborted |-> FALSE]
      BY <2>1, <3>1, <3>2
    <3>3. CASE lookup' = [at |-> "over", left |-> {}, probed |-> {}, errored |-> {},
                          skipped |-> {}, aborted |-> FALSE]
      BY <3>1, <3>3
    <3> QED BY <1>4, <3>2, <3>3 DEF rest
  <2>3. start' \in [home : 0..NumProjects, candidates : SUBSET Projects]
    BY <1>1, <1>2, <1>3 DEF LookupTypeOK
  <2> QED BY <1>1, <1>4, <2>2, <2>3 DEF LookupTypeOK
<1>7. ProbesAccount'
  BY <1>1, <1>2, <1>3, <1>4, <1>5 DEF ProbesAccount
<1>8. LookupPromise'
  BY <1>1, <1>2, <1>4 DEF LookupPromise
<1> QED BY <1>6, <1>7, <1>8 DEF LookupInv

LEMMA CandidateIsLeft ==
  ASSUME LookupTypeOK, lookup.left # {}
  PROVE  Candidate \in lookup.left /\ Candidate \in Projects /\ Candidate # 0
<1>1. lookup.left \in SUBSET Projects /\ lookup.left \in SUBSET Nat
  BY DEF LookupTypeOK, Projects
<1> QED BY <1>1, LeastOf DEF Candidate, Projects

LEMMA ProbeHitsKeeps ==
  ASSUME LookupInv, ProbeHits
  PROVE  LookupInv'
<1> DEFINE C == Candidate
<1>1. /\ LookupTypeOK /\ ProbesAccount /\ LookupPromise
      /\ lookup.at = "probing" /\ lookup.left # {} /\ home = C
      /\ lookup' = [lookup EXCEPT !.at = "over", !.probed = @ \cup {C}]
      /\ code' = "OK" /\ UNCHANGED <<home, start>>
  BY DEF LookupInv, ProbeHits
<1>2. C \in lookup.left /\ C \in Projects
  BY <1>1, CandidateIsLeft
<1> HIDE DEF C
<1>3. lookup' = [at |-> "over", left |-> lookup.left, probed |-> lookup.probed \cup {C},
                 errored |-> lookup.errored, skipped |-> lookup.skipped, aborted |-> lookup.aborted]
  BY <1>1 DEF LookupTypeOK
<1>4. C \notin lookup.errored
  BY <1>1, <1>2 DEF ProbesAccount
<1>5. LookupTypeOK'
  BY <1>1, <1>2, <1>3 DEF LookupTypeOK
<1>6. ProbesAccount'
  BY <1>1, <1>3 DEF ProbesAccount
<1>7. LookupPromise'
  BY <1>1, <1>3, <1>4 DEF LookupPromise
<1> QED BY <1>5, <1>6, <1>7 DEF LookupInv

LEMMA ProbeMissesKeeps ==
  ASSUME LookupInv, ProbeMisses
  PROVE  LookupInv'
<1> DEFINE C == Candidate
<1>1. /\ LookupTypeOK /\ ProbesAccount /\ LookupPromise
      /\ lookup.at = "probing" /\ lookup.left # {} /\ UNCHANGED <<home, code, start>>
  BY DEF LookupInv, ProbeMisses
<1>2. PICK failed \in {{C}} \cup (IF home = C THEN {} ELSE {{}}) :
         lookup' = [lookup EXCEPT !.left = @ \ {C}, !.probed = @ \cup {C}, !.errored = @ \cup failed]
  BY DEF ProbeMisses
<1>3. C \in lookup.left /\ C \in Projects /\ C # 0
  BY <1>1, CandidateIsLeft
<1> HIDE DEF C
<1>4. lookup' = [at |-> "probing", left |-> lookup.left \ {C}, probed |-> lookup.probed \cup {C},
                 errored |-> lookup.errored \cup failed, skipped |-> lookup.skipped,
                 aborted |-> lookup.aborted]
  BY <1>1, <1>2 DEF LookupTypeOK
<1>5. failed \subseteq {C} /\ (home = C => C \in failed)
  BY <1>2
<1>6. LookupTypeOK'
  BY <1>1, <1>3, <1>4, <1>5 DEF LookupTypeOK
<1>7. /\ code = "none" /\ lookup.left \cap lookup.probed = {} /\ lookup.errored \subseteq lookup.probed
      /\ start.home # 0 => home = start.home
      /\ start.candidates \subseteq lookup.left \cup lookup.probed \cup lookup.skipped \/ lookup.aborted
      /\ start.home \in lookup.probed => start.home \in lookup.errored
  BY <1>1 DEF ProbesAccount
<1>8. ProbesAccount'
  <2>1. start.home \in lookup'.probed => start.home \in lookup'.errored
    BY <1>3, <1>4, <1>5, <1>7
  <2>2. lookup'.errored \subseteq lookup'.probed /\ lookup'.left \cap lookup'.probed = {}
    BY <1>4, <1>5, <1>7
  <2>3. start.candidates \subseteq lookup'.left \cup lookup'.probed \cup lookup'.skipped \/ lookup'.aborted
    BY <1>4, <1>7
  <2> QED BY <1>1, <1>4, <1>7, <2>1, <2>2, <2>3 DEF ProbesAccount
<1>9. LookupPromise'
  BY <1>1, <1>7 DEF LookupPromise
<1> QED BY <1>6, <1>8, <1>9 DEF LookupInv

LEMMA LookupAbortedKeeps ==
  ASSUME LookupInv, LookupAborted
  PROVE  LookupInv'
<1>1. /\ LookupTypeOK /\ ProbesAccount /\ LookupPromise
      /\ lookup.at = "probing" /\ UNCHANGED <<home, code, start>>
      /\ lookup' = [lookup EXCEPT !.left = {}, !.aborted = TRUE]
  BY DEF LookupInv, LookupAborted
<1>2. lookup' = [at |-> "probing", left |-> {}, probed |-> lookup.probed,
                 errored |-> lookup.errored, skipped |-> lookup.skipped, aborted |-> TRUE]
  BY <1>1 DEF LookupTypeOK
<1>3. LookupTypeOK'
  BY <1>1, <1>2 DEF LookupTypeOK
<1>4. ProbesAccount' /\ LookupPromise'
  BY <1>1, <1>2 DEF ProbesAccount, LookupPromise
<1> QED BY <1>3, <1>4 DEF LookupInv

LEMMA NoHitKeeps ==
  ASSUME LookupInv, NoHit
  PROVE  LookupInv'
<1>1. /\ LookupTypeOK /\ ProbesAccount /\ LookupPromise
      /\ lookup.at = "probing" /\ lookup.left = {} /\ UNCHANGED <<home, start>>
      /\ lookup' = [lookup EXCEPT !.at = "over"]
      /\ code' = IF AllProbesFailed THEN "SERVER_UNREACHABLE" ELSE "NOT_FOUND"
  BY DEF LookupInv, NoHit
<1>2. lookup' = [at |-> "over", left |-> {}, probed |-> lookup.probed,
                 errored |-> lookup.errored, skipped |-> lookup.skipped, aborted |-> lookup.aborted]
  BY <1>1 DEF LookupTypeOK
<1>3. LookupTypeOK'
  BY <1>1, <1>2 DEF LookupTypeOK
<1>4. ProbesAccount'
  BY <1>1, <1>2 DEF ProbesAccount
<1>5. /\ start.candidates \subseteq lookup.probed \cup lookup.skipped \/ lookup.aborted
      /\ start.home \in lookup.probed => start.home \in lookup.errored
  BY <1>1 DEF ProbesAccount
<1>6. LookupPromise'
  <2>1. CASE AllProbesFailed
    BY <1>1, <1>2, <2>1 DEF LookupPromise, AllProbesFailed
  <2>2. CASE ~AllProbesFailed
    <3>1. \/ start.home \notin start.candidates
          \/ start.home \in lookup.errored \cup lookup.skipped
          \/ lookup.aborted
      BY <1>5
    <3> QED BY <1>1, <1>2, <2>2, <3>1 DEF LookupPromise
  <2> QED BY <2>1, <2>2
<1> QED BY <1>3, <1>4, <1>6 DEF LookupInv

LEMMA MessageDeliveredKeeps ==
  ASSUME LookupInv, MessageDelivered
  PROVE  LookupInv'
<1>1. /\ LookupTypeOK /\ ProbesAccount /\ LookupPromise
      /\ home = 0 /\ home' \in Projects /\ UNCHANGED <<lookup, code, start>>
  BY DEF LookupInv, MessageDelivered
<1>2. LookupTypeOK'
  BY <1>1, MessageLookupAssumption DEF LookupTypeOK, Projects
<1>3. code # "OK" /\ start.home = 0
  BY <1>1 DEF LookupPromise, LookupTypeOK, Projects, ProbesAccount
<1>4. ProbesAccount' /\ LookupPromise'
  BY <1>1, <1>3 DEF ProbesAccount, LookupPromise
<1> QED BY <1>2, <1>4 DEF LookupInv

LEMMA LookupStutters ==
  ASSUME LookupInv, UNCHANGED lookupVars
  PROVE  LookupInv'
BY DEF lookupVars, LookupInv, LookupTypeOK, ProbesAccount, LookupPromise

LEMMA LookupStepKeeps ==
  ASSUME LookupInv, LookupNext
  PROVE  LookupInv'
<1>1. CASE RunMessage
  BY <1>1, RunMessageKeeps
<1>2. CASE ProbeHits
  BY <1>2, ProbeHitsKeeps
<1>3. CASE ProbeMisses
  BY <1>3, ProbeMissesKeeps
<1>4. CASE LookupAborted
  BY <1>4, LookupAbortedKeeps
<1>5. CASE NoHit
  BY <1>5, NoHitKeeps
<1>6. CASE MessageDelivered
  BY <1>6, MessageDeliveredKeeps
<1> QED BY <1>1, <1>2, <1>3, <1>4, <1>5, <1>6 DEF LookupNext

(* Theorem: a lookup finds a message that was in a project it asked and    *)
(* that answered, and calls the server unreachable only when no project    *)
(* answered (commands/message.ts), for any number of projects, any product *)
(* and any cap.                                                            *)
THEOREM LookupKeepsPromise == LookupSpec => []LookupPromise
<1>1. LookupInit => LookupInv
  BY LookupBegins
<1>2. LookupInv /\ [LookupNext]_lookupVars => LookupInv'
  BY LookupStepKeeps, LookupStutters
<1>3. LookupInv => LookupPromise
  BY DEF LookupInv
<1> QED BY <1>1, <1>2, <1>3, PTL DEF LookupSpec

-----------------------------------------------------------------------------
(* The plugin: one of its processes runs, the others are at rest. *)

MonitorRuns ==
  /\ part \in Parts /\ FilesTypeOK
  /\ (part = "watch" /\ WatchInv) \/ (part # "watch" /\ WatchInit)
  /\ (part = "shadow" /\ ShadowInv) \/ (part # "shadow" /\ ShadowInit)
  /\ (part = "product" /\ ProductInv) \/ (part # "product" /\ ProductInit)
  /\ (part = "codex" /\ CodexInv) \/ (part # "codex" /\ CodexInit)
  /\ (part = "lookup" /\ LookupInv) \/ (part # "lookup" /\ LookupInit)

LEMMA RestStays ==
  /\ UNCHANGED watchVars /\ WatchInit => WatchInit'
  /\ UNCHANGED tailVars /\ ShadowInit => ShadowInit'
  /\ UNCHANGED productVars /\ ProductInit => ProductInit'
  /\ UNCHANGED codexVars /\ CodexInit => CodexInit'
  /\ UNCHANGED lookupVars /\ LookupInit => LookupInit'
<1>1. UNCHANGED watchVars /\ WatchInit => WatchInit'
  BY DEF watchVars, WatchInit
<1>2. UNCHANGED tailVars /\ ShadowInit => ShadowInit'
  BY DEF tailVars, ShadowInit
<1>3. UNCHANGED productVars /\ ProductInit => ProductInit'
  BY DEF productVars, ProductInit
<1>4. UNCHANGED codexVars /\ CodexInit => CodexInit'
  BY DEF codexVars, CodexInit
<1>5. UNCHANGED lookupVars /\ LookupInit => LookupInit'
  BY DEF lookupVars, LookupInit
<1> QED BY <1>1, <1>2, <1>3, <1>4, <1>5

(* Theorem: every watcher of the plugin and the lookup keep what they      *)
(* promise, with their inductive invariants, whichever of them runs, for   *)
(* every value of the constants.                                           *)
THEOREM MonitorKeepsPromise == MCSpec => []MonitorPromise
<1>1. MCInit => MonitorRuns
  <2> SUFFICES ASSUME MCInit PROVE MonitorRuns
    OBVIOUS
  <2>1. /\ part \in Parts /\ FilesTypeOK /\ WatchInit /\ ShadowInit /\ ProductInit
        /\ CodexInit /\ LookupInit
    BY FilesBegin DEF MCInit
  <2>2. WatchInv /\ ShadowInv /\ ProductInv /\ CodexInv /\ LookupInv
    BY <2>1, WatchBegins, ShadowBegins, ProductBegins, CodexBegins, LookupBegins
  <2> QED BY <2>1, <2>2 DEF MonitorRuns
<1>2. MonitorRuns /\ [MCNext]_mcVars => MonitorRuns'
  <2> SUFFICES ASSUME MonitorRuns, [MCNext]_mcVars PROVE MonitorRuns'
    OBVIOUS
  <2>1. part \in Parts /\ FilesTypeOK
    BY DEF MonitorRuns
  <2>2. CASE Steps("watch", WatchNext) /\ UNCHANGED <<tailVars, productVars, codexVars, lookupVars>>
    <3>1. /\ part = "watch" /\ part' = part /\ WatchNext /\ WatchInv
          /\ ShadowInit /\ ProductInit /\ CodexInit /\ LookupInit
      BY <2>2 DEF Steps, MonitorRuns
    <3>2. ShadowInit' /\ ProductInit' /\ CodexInit' /\ LookupInit'
      BY <2>2, <3>1, RestStays
    <3>3. FilesTypeOK' /\ WatchInv'
      BY <2>1, <3>1, WatchStepKeeps
    <3> QED BY <2>1, <3>1, <3>2, <3>3 DEF MonitorRuns
  <2>3. CASE Steps("shadow", ShadowNext) /\ UNCHANGED <<watchVars, productVars, codexVars, lookupVars>>
    <3>1. /\ part = "shadow" /\ part' = part /\ ShadowNext /\ ShadowInv
          /\ WatchInit /\ ProductInit /\ CodexInit /\ LookupInit
      BY <2>3 DEF Steps, MonitorRuns
    <3>2. WatchInit' /\ ProductInit' /\ CodexInit' /\ LookupInit'
      BY <2>3, <3>1, RestStays
    <3>3. FilesTypeOK' /\ ShadowInv'
      BY <2>1, <3>1, ShadowStepKeeps
    <3> QED BY <2>1, <3>1, <3>2, <3>3 DEF MonitorRuns
  <2>4. CASE /\ Steps("product", ProductNext)
             /\ UNCHANGED <<filesVars, watchVars, tailVars, codexVars, lookupVars>>
    <3>1. /\ part = "product" /\ part' = part /\ ProductNext /\ ProductInv
          /\ WatchInit /\ ShadowInit /\ CodexInit /\ LookupInit
      BY <2>4 DEF Steps, MonitorRuns
    <3>2. WatchInit' /\ ShadowInit' /\ CodexInit' /\ LookupInit'
      BY <2>4, <3>1, RestStays
    <3>3. FilesTypeOK' /\ ProductInv'
      BY <2>1, <2>4, <3>1, FilesStutter, ProductStepKeeps
    <3> QED BY <2>1, <3>1, <3>2, <3>3 DEF MonitorRuns
  <2>5. CASE Steps("codex", CodexNext) /\ UNCHANGED <<watchVars, tailVars, productVars, lookupVars>>
    <3>1. /\ part = "codex" /\ part' = part /\ CodexNext /\ CodexInv
          /\ WatchInit /\ ShadowInit /\ ProductInit /\ LookupInit
      BY <2>5 DEF Steps, MonitorRuns
    <3>2. WatchInit' /\ ShadowInit' /\ ProductInit' /\ LookupInit'
      BY <2>5, <3>1, RestStays
    <3>3. FilesTypeOK' /\ CodexInv'
      BY <2>1, <3>1, CodexStepKeeps
    <3> QED BY <2>1, <3>1, <3>2, <3>3 DEF MonitorRuns
  <2>6. CASE /\ Steps("lookup", LookupNext)
             /\ UNCHANGED <<filesVars, watchVars, tailVars, productVars, codexVars>>
    <3>1. /\ part = "lookup" /\ part' = part /\ LookupNext /\ LookupInv
          /\ WatchInit /\ ShadowInit /\ ProductInit /\ CodexInit
      BY <2>6 DEF Steps, MonitorRuns
    <3>2. WatchInit' /\ ShadowInit' /\ ProductInit' /\ CodexInit'
      BY <2>6, <3>1, RestStays
    <3>3. FilesTypeOK' /\ LookupInv'
      BY <2>1, <2>6, <3>1, FilesStutter, LookupStepKeeps
    <3> QED BY <2>1, <3>1, <3>2, <3>3 DEF MonitorRuns
  <2>7. CASE UNCHANGED mcVars
    <3>1. /\ part' = part /\ UNCHANGED filesVars /\ UNCHANGED watchVars /\ UNCHANGED tailVars
          /\ UNCHANGED productVars /\ UNCHANGED codexVars /\ UNCHANGED lookupVars
      BY <2>7 DEF mcVars
    <3>2. /\ FilesTypeOK'
          /\ WatchInv => WatchInv'
          /\ ShadowInv => ShadowInv'
          /\ ProductInv => ProductInv'
          /\ CodexInv => CodexInv'
          /\ LookupInv => LookupInv'
      BY <2>1, <3>1, FilesStutter, WatchStutters, ShadowStutters, ProductStutters, CodexStutters,
         LookupStutters
    <3> QED BY <2>1, <3>1, <3>2, RestStays DEF MonitorRuns
  <2> QED BY <2>2, <2>3, <2>4, <2>5, <2>6, <2>7 DEF MCNext
<1>3. MonitorRuns => MonitorPromise
  <2> SUFFICES ASSUME MonitorRuns PROVE MonitorPromise
    OBVIOUS
  <2>1. part \in Parts /\ FilesTypeOK
    BY DEF MonitorRuns
  <2>2. WatchInv /\ ShadowInv /\ ProductInv /\ CodexInv /\ LookupInv
    BY <2>1, WatchBegins, ShadowBegins, ProductBegins, CodexBegins, LookupBegins DEF MonitorRuns
  <2> QED BY <2>1, <2>2 DEF MonitorPromise
<1> QED BY <1>1, <1>2, <1>3, PTL DEF MCSpec
=============================================================================
