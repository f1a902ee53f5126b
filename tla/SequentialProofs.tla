-------------------------- MODULE SequentialProofs --------------------------
(***************************************************************************)
(* Proofs about the parts that have one actor of their own, as             *)
(* MCSequential puts them side by side, for every value of the constants:  *)
(* Range, of which index sets are made (for any width), POPSession,        *)
(* NNTPSession, the download of an attachment by chunks, and IndexSet.     *)
(* Each has an inductive invariant of its own; the steps of the other      *)
(* parts leave its variables alone.                                        *)
(*                                                                         *)
(* What the recursive definitions of IndexSet compute is proved by         *)
(* induction on numbers, in the form of Induct: a set of numbers that      *)
(* holds 0, and n + 1 with every n, holds them all.                        *)
(***************************************************************************)
EXTENDS MCSequential, SequenceTheorems, FiniteSetTheorems, TLAPS

-----------------------------------------------------------------------------
(* Range: intersection, test for intersection and removal do to the        *)
(* indexes what they do to the bounds, and no arithmetic on bounds wraps.  *)

LEMMA RangeFacts ==
  ASSUME NEW r \in Ranges
  PROVE  /\ r = [location |-> r.location, length |-> r.length]
         /\ r.location \in Nat /\ r.location < UINT64_MAX
         /\ r.length \in Nat /\ r.length <= UINT64_MAX
         /\ r.length = UINT64_MAX \/ r.location + r.length <= UINT64_MAX
BY RangeAssumption DEF Ranges, Uint64

\* The right bound of a sensible range does not wrap.
LEMMA RightBound ==
  ASSUME NEW r \in Ranges
  PROVE  /\ RangeRightBound(r) \in Nat
         /\ r.location <= RangeRightBound(r)
         /\ RangeRightBound(r) <= UINT64_MAX
<1>1. CASE r.length = UINT64_MAX
  BY <1>1, RangeFacts, RangeAssumption DEF RangeRightBound
<1>2. CASE r.length # UINT64_MAX
  BY <1>2, RangeFacts, RangeAssumption DEF RangeRightBound, Wrap
<1>3. QED
  BY <1>1, <1>2

\* A range made from its two bounds has these bounds.
LEMMA BetweenFacts ==
  ASSUME NEW left \in Nat, NEW right \in Nat,
         left <= right, right <= UINT64_MAX
  PROVE  /\ Between(left, right).location = left
         /\ RangeRightBound(Between(left, right)) = right
         /\ left < UINT64_MAX => Between(left, right) \in Ranges
<1>1. Between(left, right).location = left
  BY DEF Between, RangeMake
<1>2. CASE right = UINT64_MAX
  <2>1. Between(left, right) = [location |-> left, length |-> UINT64_MAX]
    BY <1>2 DEF Between, RangeMake
  <2>2. QED
    BY <2>1, <1>2, RangeAssumption DEF RangeRightBound, Ranges, Uint64
<1>3. CASE right # UINT64_MAX
  <2>1. Between(left, right) = [location |-> left, length |-> right - left]
    BY <1>3, RangeAssumption DEF Between, RangeMake, Wrap
  <2>2. QED
    BY <2>1, <1>3, RangeAssumption DEF RangeRightBound, Wrap, Ranges, Uint64
<1>4. QED
  BY <1>1, <1>2, <1>3

\* What Between() makes stands for the indexes between its bounds.
LEMMA BetweenIndexes ==
  ASSUME NEW left \in Nat, NEW right \in Nat,
         left <= right, right <= UINT64_MAX
  PROVE  Indexes(Between(left, right))
           = {i \in Uint64 : i < UINT64_MAX /\ left <= i /\ i <= right}
BY BetweenFacts DEF Indexes

\* The intersection of two ranges stands for the indexes they have in common.
THEOREM IntersectionIsExact ==
  ASSUME NEW r1 \in Ranges, NEW r2 \in Ranges
  PROVE  Indexes(RangeIntersection(r1, r2)) = Indexes(r1) \cap Indexes(r2)
<1> DEFINE R1 == RangeRightBound(r1)
           R2 == RangeRightBound(r2)
           left == IF r1.location > r2.location THEN r1.location ELSE r2.location
           right == IF R1 < R2 THEN R1 ELSE R2
<1>1. /\ r1.location \in Nat /\ r2.location \in Nat /\ R1 \in Nat /\ R2 \in Nat
      /\ r1.location <= R1 /\ r2.location <= R2
      /\ R1 <= UINT64_MAX /\ R2 <= UINT64_MAX
  BY RangeFacts, RightBound
<1>2. CASE R2 < r1.location \/ R1 < r2.location
  <2>1. RangeIntersection(r1, r2) = RangeEmpty
    BY <1>2 DEF RangeIntersection
  <2>2. Indexes(RangeEmpty) = {}
    BY RangeAssumption DEF Indexes, RangeEmpty, RangeMake, Uint64
  <2>3. Indexes(r1) \cap Indexes(r2) = {}
    BY <1>1, <1>2, RangeAssumption DEF Indexes, Uint64
  <2>4. QED
    BY <2>1, <2>2, <2>3
<1>3. CASE ~(R2 < r1.location \/ R1 < r2.location)
  <2>1. RangeIntersection(r1, r2) = Between(left, right)
    BY <1>3 DEF RangeIntersection
  <2>2. left \in Nat /\ right \in Nat /\ left <= right /\ right <= UINT64_MAX
    BY <1>1, <1>3
  <2>3. Indexes(Between(left, right))
          = {i \in Uint64 : i < UINT64_MAX /\ left <= i /\ i <= right}
    BY <2>2, BetweenIndexes
  <2>4. {i \in Uint64 : i < UINT64_MAX /\ left <= i /\ i <= right}
          = Indexes(r1) \cap Indexes(r2)
    BY <1>1, <2>2, RangeAssumption DEF Indexes, Uint64
  <2>5. QED
    BY <2>1, <2>3, <2>4
<1>4. QED
  BY <1>2, <1>3

\* RangeHasIntersection() tells whether two ranges have an index in common.
THEOREM HasIntersectionIsExact ==
  ASSUME NEW r1 \in Ranges, NEW r2 \in Ranges
  PROVE  RangeHasIntersection(r1, r2) <=> Indexes(r1) \cap Indexes(r2) # {}
<1> DEFINE R1 == RangeRightBound(r1)
           R2 == RangeRightBound(r2)
           left == IF r1.location > r2.location THEN r1.location ELSE r2.location
           right == IF R1 < R2 THEN R1 ELSE R2
<1>1. /\ r1.location \in Nat /\ r2.location \in Nat /\ R1 \in Nat /\ R2 \in Nat
      /\ r1.location <= R1 /\ r2.location <= R2
      /\ R1 <= UINT64_MAX /\ R2 <= UINT64_MAX
      /\ r1.location < UINT64_MAX /\ r2.location < UINT64_MAX
  BY RangeFacts, RightBound
<1>2. CASE R2 < r1.location \/ R1 < r2.location
  <2>1. RangeIntersection(r1, r2).location = UINT64_MAX
    BY <1>2 DEF RangeIntersection, RangeEmpty, RangeMake
  <2>2. Indexes(r1) \cap Indexes(r2) = {}
    BY <1>1, <1>2, RangeAssumption DEF Indexes, Uint64
  <2>3. QED
    BY <2>1, <2>2 DEF RangeHasIntersection
<1>3. CASE ~(R2 < r1.location \/ R1 < r2.location)
  <2>1. RangeIntersection(r1, r2) = Between(left, right)
    BY <1>3 DEF RangeIntersection
  <2>2. left \in Nat /\ right \in Nat /\ left <= right /\ left < UINT64_MAX
    BY <1>1, <1>3
  <2>3. RangeIntersection(r1, r2).location = left
    BY <2>1 DEF Between, RangeMake
  <2>4. left \in Indexes(r1) \cap Indexes(r2)
    BY <1>1, <1>3, <2>2, RangeAssumption DEF Indexes, Uint64
  <2>5. QED
    BY <2>2, <2>3, <2>4 DEF RangeHasIntersection
<1>4. QED
  BY <1>2, <1>3

\* One piece followed by one, by none, or none followed by one.
LEMMA Pieces ==
  ASSUME NEW a, NEW b
  PROVE  /\ Len(<<a>> \o <<b>>) = 2
         /\ (<<a>> \o <<b>>)[1] = a /\ (<<a>> \o <<b>>)[2] = b
         /\ Len(<<a>> \o <<>>) = 1 /\ (<<a>> \o <<>>)[1] = a
<1> DEFINE T == {a, b}
<1>1. <<a>> \in Seq(T) /\ <<b>> \in Seq(T) /\ << >> \in Seq(T)
  OBVIOUS
<1>2. Len(<<a>>) = 1 /\ <<a>>[1] = a /\ Len(<<b>>) = 1 /\ <<b>>[1] = b
  OBVIOUS
<1>3. Len(<< >>) = 0
  OBVIOUS
<1> HIDE DEF T
<1>4. ASSUME NEW s \in Seq(T), NEW t \in Seq(T)
      PROVE  /\ Len(s \o t) = Len(s) + Len(t)
             /\ \A k \in 1..Len(s) : (s \o t)[k] = s[k]
             /\ \A k \in 1..Len(t) : (s \o t)[Len(s) + k] = t[k]
  OBVIOUS
<1>5. QED
  BY <1>1, <1>2, <1>3, <1>4

\* The bounds of an intersection that is not empty.
LEMMA IntersectionBounds ==
  ASSUME NEW r1 \in Ranges, NEW r2 \in Ranges, RangeHasIntersection(r1, r2)
  PROVE  LET cut == RangeIntersection(r1, r2)
         IN  /\ cut.location \in Nat /\ RangeRightBound(cut) \in Nat
             /\ r1.location <= cut.location
             /\ cut.location <= RangeRightBound(cut)
             /\ cut.location < UINT64_MAX
             /\ RangeRightBound(cut) <= RangeRightBound(r1)
<1> DEFINE R1 == RangeRightBound(r1)
           R2 == RangeRightBound(r2)
           left == IF r1.location > r2.location THEN r1.location ELSE r2.location
           right == IF R1 < R2 THEN R1 ELSE R2
<1>1. /\ r1.location \in Nat /\ r2.location \in Nat /\ R1 \in Nat /\ R2 \in Nat
      /\ r1.location <= R1 /\ r2.location <= R2
      /\ R1 <= UINT64_MAX /\ R2 <= UINT64_MAX
      /\ r1.location < UINT64_MAX /\ r2.location < UINT64_MAX
  BY RangeFacts, RightBound
<1>2. ~(R2 < r1.location \/ R1 < r2.location)
  BY DEF RangeHasIntersection, RangeIntersection, RangeEmpty, RangeMake
<1>3. RangeIntersection(r1, r2) = Between(left, right)
  BY <1>2 DEF RangeIntersection
<1>4. left \in Nat /\ right \in Nat /\ left <= right /\ right <= UINT64_MAX
  BY <1>1, <1>2
<1>5. /\ Between(left, right).location = left
      /\ RangeRightBound(Between(left, right)) = right
  BY <1>4, BetweenFacts
<1>6. r1.location <= left /\ left < UINT64_MAX /\ right <= R1
  BY <1>1
<1>7. QED
  BY <1>3, <1>4, <1>5, <1>6

\* What RangeRemoveRange() leaves of a range is what is not in the other.
THEOREM RemovalIsExact ==
  ASSUME NEW r1 \in Ranges, NEW r2 \in Ranges, NEW i \in Uint64
  PROVE  i \in Indexes(r1) \ Indexes(r2)
           <=> \E k \in 1..Len(RangeRemoveRange(r1, r2)) :
                 i \in Indexes(RangeRemoveRange(r1, r2)[k])
<1> DEFINE rest == RangeRemoveRange(r1, r2)
           cut == RangeIntersection(r1, r2)
           right1 == RangeRightBound(r1)
           right2 == RangeRightBound(cut)
           below == RangeMake(r1.location, cut.location - r1.location - 1)
           above == Between(right2 + 1, right1)
           hasBelow == cut.location > r1.location
           hasAbove == right2 # UINT64_MAX /\ (right1 = UINT64_MAX \/ right2 < right1)
<1>1. CASE ~RangeHasIntersection(r1, r2)
  <2>1. rest = <<r1>>
    BY <1>1 DEF RangeRemoveRange
  <2>2. Indexes(r1) \cap Indexes(r2) = {}
    BY <1>1, HasIntersectionIsExact
  <2>3. Len(rest) = 1 /\ rest[1] = r1
    BY <2>1
  <2>4. QED
    BY <2>2, <2>3
<1>2. CASE RangeHasIntersection(r1, r2)
  <2>1. /\ cut.location \in Nat /\ right2 \in Nat
        /\ r1.location <= cut.location /\ cut.location <= right2
        /\ cut.location < UINT64_MAX
        /\ right2 <= right1
    BY <1>2, IntersectionBounds
  <2>2. Indexes(cut) = Indexes(r1) \cap Indexes(r2)
    BY IntersectionIsExact
  <2>3. /\ r1.location \in Nat /\ right1 \in Nat
        /\ r1.location < UINT64_MAX /\ right1 <= UINT64_MAX
    BY RangeFacts, RightBound
  <2>4. ASSUME hasBelow
        PROVE  i \in Indexes(below) <=>
                 i < UINT64_MAX /\ r1.location <= i /\ i < cut.location
    <3>1. /\ below.location = r1.location
          /\ below.length = cut.location - r1.location - 1
      BY DEF RangeMake
    <3>2. RangeRightBound(below) = cut.location - 1
      BY <2>1, <2>3, <2>4, <3>1, RangeAssumption DEF RangeRightBound, Wrap
    <3>3. QED
      BY <2>1, <2>3, <2>4, <3>1, <3>2, RangeAssumption DEF Indexes, Uint64
  <2>5. ASSUME hasAbove
        PROVE  i \in Indexes(above) <=>
                 i < UINT64_MAX /\ right2 < i /\ i <= right1
    <3>1. /\ right2 + 1 \in Nat /\ right2 + 1 <= right1
      BY <2>1, <2>3, <2>5, RangeAssumption
    <3>2. Indexes(above)
            = {j \in Uint64 : j < UINT64_MAX /\ right2 + 1 <= j /\ j <= right1}
      BY <2>3, <3>1, BetweenIndexes
    <3>3. QED
      BY <2>1, <2>3, <3>2, RangeAssumption DEF Uint64
  <2>6. i \in Indexes(r1) \ Indexes(r2) <=>
          \/ hasBelow /\ i \in Indexes(below)
          \/ hasAbove /\ i \in Indexes(above)
    <3>1. i \in Indexes(r1) <=>
            i < UINT64_MAX /\ r1.location <= i /\ i <= right1
      BY DEF Indexes
    <3>2. i \in Indexes(cut) <=>
            i < UINT64_MAX /\ cut.location <= i /\ i <= right2
      BY DEF Indexes
    <3>3. i \in Nat
      BY DEF Uint64
    <3>4. i \in Indexes(r1) \ Indexes(r2) <=>
            /\ i < UINT64_MAX /\ r1.location <= i /\ i <= right1
            /\ i < cut.location \/ right2 < i
      BY <2>1, <2>2, <2>3, <3>1, <3>2, <3>3
    <3>5. QED
      BY <2>1, <2>3, <2>4, <2>5, <3>3, <3>4, RangeAssumption
  <2>7. rest = (IF hasBelow THEN <<below>> ELSE <<>>)
                 \o (IF hasAbove THEN <<above>> ELSE <<>>)
    BY <1>2 DEF RangeRemoveRange
  <2> HIDE DEF rest, below, above, hasBelow, hasAbove
  <2>8. CASE hasBelow /\ hasAbove
    <3>1. rest = <<below>> \o <<above>>
      BY <2>7, <2>8, Zenon
    <3>2. Len(rest) = 2 /\ rest[1] = below /\ rest[2] = above
      BY <3>1, Pieces
    <3>3. QED
      BY <2>6, <2>8, <3>2 DEF rest
  <2>9. CASE hasBelow /\ ~hasAbove
    <3>1. rest = <<below>> \o <<>>
      BY <2>7, <2>9, Zenon
    <3>2. Len(rest) = 1 /\ rest[1] = below
      BY <3>1, Pieces
    <3>3. QED
      BY <2>6, <2>9, <3>2 DEF rest
  <2>10. CASE ~hasBelow /\ hasAbove
    <3>1. rest = <<above>>
      BY <2>7, <2>10
    <3>2. Len(rest) = 1 /\ rest[1] = above
      BY <3>1
    <3>3. QED
      BY <2>6, <2>10, <3>2 DEF rest
  <2>11. CASE ~hasBelow /\ ~hasAbove
    <3>1. rest = <<>>
      BY <2>7, <2>11
    <3>2. Len(rest) = 0
      BY <3>1
    <3>3. QED
      BY <2>6, <2>11, <3>2 DEF rest
  <2>12. QED
    BY <2>8, <2>9, <2>10, <2>11
<1>3. QED
  BY <1>1, <1>2

\* RangeUnion() of two ranges that meet is a sensible range and stands for the
\* indexes of both: nothing between them is added, no bound wraps.
THEOREM UnionIsExact ==
  ASSUME NEW r1 \in Ranges, NEW r2 \in Ranges, RangeHasIntersection(r1, r2)
  PROVE  /\ RangeUnion(r1, r2) \in Ranges
         /\ Indexes(RangeUnion(r1, r2)) = Indexes(r1) \cup Indexes(r2)
<1> DEFINE R1 == RangeRightBound(r1)
           R2 == RangeRightBound(r2)
           left == IF r1.location < r2.location THEN r1.location ELSE r2.location
           right == IF R1 > R2 THEN R1 ELSE R2
<1>1. /\ r1.location \in Nat /\ r2.location \in Nat /\ R1 \in Nat /\ R2 \in Nat
      /\ r1.location <= R1 /\ r2.location <= R2
      /\ R1 <= UINT64_MAX /\ R2 <= UINT64_MAX
      /\ r1.location < UINT64_MAX /\ r2.location < UINT64_MAX
  BY RangeFacts, RightBound
<1>2. ~(R2 < r1.location \/ R1 < r2.location)
  BY DEF RangeHasIntersection, RangeIntersection, RangeEmpty, RangeMake
<1>3. RangeUnion(r1, r2) = Between(left, right)
  BY DEF RangeUnion
<1>4. /\ left \in Nat /\ right \in Nat /\ left <= right
      /\ right <= UINT64_MAX /\ left < UINT64_MAX
  BY <1>1, <1>2
<1>5. Between(left, right) \in Ranges
  BY <1>4, BetweenFacts
<1>6. Indexes(Between(left, right))
        = {i \in Uint64 : i < UINT64_MAX /\ left <= i /\ i <= right}
  BY <1>4, BetweenIndexes
<1>7. {i \in Uint64 : i < UINT64_MAX /\ left <= i /\ i <= right}
        = Indexes(r1) \cup Indexes(r2)
  BY <1>1, <1>2, <1>4, RangeAssumption DEF Indexes, Uint64
<1> QED
  BY <1>3, <1>5, <1>6, <1>7

\* However many items a set has, no command of a copy, move or store has more
\* than splitCount of them or none, and the commands have each item once, in
\* order: command c has those after the (c - 1) * splitCount that come before.
THEOREM SplitIsExact ==
  ASSUME NEW S, NEW set \in Seq(S), NEW c \in 1..Len(splitSet(set))
  PROVE  LET before == (c - 1) * splitCount
             chunk == splitSet(set)[c]
         IN  /\ chunk \in Seq(S)
             /\ Len(chunk) \in 1..splitCount
             /\ before + Len(chunk) <= Len(set)
             /\ c = Len(splitSet(set)) => before + Len(chunk) = Len(set)
             /\ c # Len(splitSet(set)) => Len(chunk) = splitCount
             /\ \A k \in 1..Len(chunk) : chunk[k] = set[before + k]
<1> DEFINE N == Len(set)
           commands == (N + splitCount - 1) \div splitCount
           from == (c - 1) * splitCount
           to == IF c = commands THEN N ELSE c * splitCount
           chunk == SubSeq(set, from + 1, to)
<1>1. N \in Nat /\ splitCount \in Nat /\ splitCount >= 1
  BY LenProperties, IndexSetAssumption
<1>2. /\ commands \in Nat
      /\ commands * splitCount <= N + splitCount - 1
      /\ N + splitCount - 1 < commands * splitCount + splitCount
  BY <1>1, Z3
<1>3. Len(splitSet(set)) = commands /\ splitSet(set)[c] = chunk
  <2> DEFINE piece(d) == SubSeq(set, (d - 1) * splitCount + 1,
                                IF d = commands THEN N ELSE d * splitCount)
  <2>1. splitSet(set) = [d \in 1..commands |-> piece(d)]
    BY DEF splitSet
  <2>2. chunk = piece(c)
    OBVIOUS
  <2> HIDE DEF piece, chunk, commands
  <2>3. Len(splitSet(set)) = commands
    BY <1>2, <2>1
  <2> QED
    BY <2>1, <2>2, <2>3
<1>4. c \in Nat /\ c >= 1 /\ c <= commands
  BY <1>2, <1>3
<1>5. /\ from \in Nat /\ from + splitCount = c * splitCount
      /\ c * splitCount \in Nat
  BY <1>1, <1>4, Z3
<1>6. c # commands => c * splitCount + splitCount <= commands * splitCount
  BY <1>1, <1>2, <1>4, Z3
<1> HIDE DEF commands, from
<1>7. to \in Nat /\ from < to /\ to <= from + splitCount /\ to <= N
  BY <1>1, <1>2, <1>4, <1>5, <1>6
<1>8. /\ chunk \in Seq(S) /\ Len(chunk) = to - from
      /\ \A k \in 1..(to - from) : chunk[k] = set[from + k]
  <2>1. \A j \in from + 1 .. to : set[j] \in S
    BY <1>1, <1>5, <1>7, ElementOfSeq
  <2>2. from + 1 \in Int /\ to \in Int /\ from + 1 <= to + 1
    BY <1>5, <1>7
  <2> QED
    BY <1>5, <1>7, <2>1, <2>2, SubSeqProperties, SMTT(30)
<1>9. /\ c = commands => to = N
      /\ c # commands => to = from + splitCount
  BY <1>5
<1>10. from = (c - 1) * splitCount
  BY DEF from
<1> HIDE DEF chunk, to
<1>11. /\ chunk \in Seq(S)
       /\ Len(chunk) \in 1..splitCount
       /\ from + Len(chunk) <= N
       /\ c = commands => from + Len(chunk) = N
       /\ c # commands => Len(chunk) = splitCount
       /\ \A k \in 1..Len(chunk) : chunk[k] = set[from + k]
  BY <1>1, <1>5, <1>7, <1>8, <1>9
<1> QED
  BY <1>3, <1>10, <1>11

-----------------------------------------------------------------------------
(* POPSession: a number stands for the message the client listed under it, *)
(* as long as nothing called disconnect() since.                           *)

\* A list that is fresh is the one of the connection, which is logged in.
ListInv == fresh => popState \in {"LOGGEDIN", "LISTED"} /\ known = numbers

Shaped(o) == o = [name |-> o.name, which |-> o.which, meant |-> o.meant,
                  fresh |-> o.fresh]

\* An operation made with a fresh list is about the messages it means.
Sound(o) == o.fresh => fresh /\ \A i \in o.which : numbers[i] \in o.meant

QueueInv ==
  /\ popQueue \in Seq({popQueue[k] : k \in DOMAIN popQueue})
  /\ \A k \in DOMAIN popQueue : Shaped(popQueue[k]) /\ Sound(popQueue[k])

OperationInv ==
  /\ Shaped(popOp)
  /\ popAt # "idle" =>
       /\ Sound(popOp)
       /\ popOp.fresh => \A i \in marked : numbers[i] \in popOp.meant

\* What is marked was by the deletion that runs, and has a session to see QUIT.
MarkedInv ==
  /\ marked # {} => popAt # "idle" /\ popOp.name = "delete" /\ mPop
  /\ popState # "DISCONNECTED" \/ popAt \in {"login", "list", "command"} => mPop

PInv == /\ ListInv /\ QueueInv /\ OperationInv /\ MarkedInv
        /\ Pop!ActsOnWhatWasListed

-----------------------------------------------------------------------------
\* A sequence is one of its elements.
LEMMA OwnElements ==
  ASSUME NEW S, NEW q \in Seq(S)
  PROVE  q \in Seq({q[k] : k \in DOMAIN q})
<1>1. Len(q) \in Nat /\ DOMAIN q = 1..Len(q) /\ q = [k \in 1..Len(q) |-> q[k]]
  BY LenProperties, ElementOfSeq
<1>2. q \in [1..Len(q) -> {q[k] : k \in DOMAIN q}]
  BY <1>1
<1> QED
  BY <1>1, <1>2, SeqDef

LEMMA PopInit == Pop!Init => PInv
<1> SUFFICES ASSUME Pop!Init PROVE PInv
  OBVIOUS
<1>1. popQueue = <<>> /\ fresh = FALSE /\ popAt = "idle" /\ marked = {} /\ acts = {}
      /\ popState = "DISCONNECTED"
      /\ popOp = [name |-> "check", which |-> {}, meant |-> {}, fresh |-> FALSE]
  BY DEF Pop!Init
<1>2. DOMAIN popQueue = {} /\ popQueue \in Seq({popQueue[k] : k \in DOMAIN popQueue})
  BY <1>1, EmptySeq
<1>3. ListInv /\ QueueInv
  BY <1>1, <1>2 DEF ListInv, QueueInv
<1>4. OperationInv
  BY <1>1 DEF OperationInv, Shaped
<1>5. MarkedInv /\ Pop!ActsOnWhatWasListed
  BY <1>1 DEF MarkedInv, Pop!ActsOnWhatWasListed
<1> QED
  BY <1>3, <1>4, <1>5 DEF PInv

\* What the client queues is sound when it is made.
LEMMA PopAskStep == PInv /\ Pop!Ask => PInv'
<1> SUFFICES ASSUME PInv, Pop!Ask PROVE PInv'
  OBVIOUS
<1>1. UNCHANGED <<mPop, popStream, popState, popOp, popAt, popError, box, numbers,
                  marked, known, fresh, acts>>
  BY DEF Pop!Ask, Pop!popVars, Pop!serverVars, Pop!clientVars
<1>2. PICK name \in Pop!Names, which \in SUBSET DOMAIN known :
        popQueue' = Append(popQueue,
          [name |-> name, which |-> which,
           meant |-> {known[i] : i \in which}, fresh |-> fresh])
  BY DEF Pop!Ask
<1> DEFINE o == [name |-> name, which |-> which,
                 meant |-> {known[i] : i \in which}, fresh |-> fresh]
           S == {popQueue[k] : k \in DOMAIN popQueue}
<1>3. Shaped(o) /\ Sound(o)
  BY DEF PInv, ListInv, Shaped, Sound
<1>4. popQueue \in Seq(S) /\ popQueue \in Seq(S \cup {o}) /\ o \in S \cup {o}
  BY DEF PInv, QueueInv
<1> HIDE DEF o, S
<1>5. popQueue' = Append(popQueue, o)
  BY <1>2 DEF o
<1>6. popQueue' \in Seq(S \cup {o})
  BY <1>4, <1>5
<1>7. popQueue' \in Seq({popQueue'[k] : k \in DOMAIN popQueue'})
  BY <1>6, OwnElements
<1>8. ASSUME NEW k \in DOMAIN popQueue' PROVE Shaped(popQueue'[k]) /\ Sound(popQueue'[k])
  <2>1. popQueue'[k] = o \/ (k \in DOMAIN popQueue /\ popQueue'[k] = popQueue[k])
    BY <1>4, <1>5
  <2> QED
    BY <1>3, <2>1 DEF PInv, QueueInv
<1>9. QueueInv'
  BY <1>1, <1>7, <1>8 DEF QueueInv, Sound, Shaped
<1>10. ListInv' /\ OperationInv' /\ MarkedInv' /\ Pop!ActsOnWhatWasListed'
  BY <1>1 DEF PInv, ListInv, OperationInv, Sound, Shaped, MarkedInv,
              Pop!ActsOnWhatWasListed
<1> QED
  BY <1>9, <1>10 DEF PInv

LEMMA PopCancelStep == PInv /\ Pop!CancelAllOperations => PInv'
<1> SUFFICES ASSUME PInv, Pop!CancelAllOperations PROVE PInv'
  OBVIOUS
<1>1. UNCHANGED <<mPop, popStream, popState, popOp, popAt, popError, box, numbers,
                  marked, known, fresh, acts>>
      /\ popQueue' = <<>>
  BY DEF Pop!CancelAllOperations, Pop!popVars, Pop!serverVars, Pop!clientVars
<1>2. DOMAIN popQueue' = {}
      /\ popQueue' \in Seq({popQueue'[k] : k \in DOMAIN popQueue'})
  BY <1>1, EmptySeq
<1>3. QueueInv'
  BY <1>2 DEF QueueInv
<1>4. ListInv' /\ OperationInv' /\ MarkedInv' /\ Pop!ActsOnWhatWasListed'
  BY <1>1 DEF PInv, ListInv, OperationInv, Sound, Shaped, MarkedInv,
              Pop!ActsOnWhatWasListed
<1> QED
  BY <1>3, <1>4 DEF PInv

\* Nothing is marked when the next operation starts.
LEMMA PopBeginStep == PInv /\ Pop!Begin => PInv'
<1> SUFFICES ASSUME PInv, Pop!Begin PROVE PInv'
  OBVIOUS
<1>1. UNCHANGED <<mPop, popStream, popState, box, numbers, marked, known, fresh>>
      /\ acts' = {} /\ popAt = "idle" /\ popQueue # <<>>
      /\ popOp' = Head(popQueue) /\ popQueue' = Tail(popQueue)
      /\ popAt' \in {"idle", "disconnect", "connect"}
  BY DEF Pop!Begin, Pop!popVars, Pop!serverVars, Pop!clientVars
<1> DEFINE S == {popQueue[k] : k \in DOMAIN popQueue}
<1>2. popQueue \in Seq(S)
  BY DEF PInv, QueueInv
<1> HIDE DEF S
<1>3. 1 \in DOMAIN popQueue /\ popOp' = popQueue[1]
  BY <1>1, <1>2
<1>4. /\ popQueue' \in Seq(S)
      /\ \A k \in DOMAIN popQueue' :
           k + 1 \in DOMAIN popQueue /\ popQueue'[k] = popQueue[k + 1]
  BY <1>1, <1>2
<1>5. popQueue' \in Seq({popQueue'[k] : k \in DOMAIN popQueue'})
  BY <1>4, OwnElements
<1>6. \A k \in DOMAIN popQueue' : Shaped(popQueue'[k]) /\ Sound(popQueue'[k])
  BY <1>4 DEF PInv, QueueInv
<1>7. QueueInv'
  BY <1>1, <1>5, <1>6 DEF QueueInv, Sound, Shaped
<1>8. marked' = {}
  BY <1>1 DEF PInv, MarkedInv
<1>9. OperationInv'
  BY <1>1, <1>3, <1>8 DEF PInv, QueueInv, OperationInv, Sound, Shaped
<1>10. ListInv' /\ MarkedInv' /\ Pop!ActsOnWhatWasListed'
  BY <1>1, <1>8 DEF PInv, ListInv, MarkedInv, Pop!ActsOnWhatWasListed
<1> QED
  BY <1>7, <1>9, <1>10 DEF PInv

\* Connecting and logging in happen to sessions without a fresh list.
LEMMA PopConnectStep == PInv /\ (Pop!ConnectIfNeeded \/ Pop!LoginIfNeeded) => PInv'
<1> SUFFICES ASSUME PInv, Pop!ConnectIfNeeded \/ Pop!LoginIfNeeded PROVE PInv'
  OBVIOUS
<1>1. UNCHANGED <<popQueue, popOp, known, fresh, acts>> /\ popAt # "idle"
  BY DEF Pop!ConnectIfNeeded, Pop!LoginIfNeeded, Pop!clientVars
<1>2. UNCHANGED <<numbers, marked>> \/ (~fresh /\ marked' = {})
  BY DEF Pop!ConnectIfNeeded, Pop!LoginIfNeeded, Pop!serverVars, PInv, ListInv
<1>3. fresh => popState' \in {"LOGGEDIN", "LISTED"}
  BY DEF Pop!ConnectIfNeeded, Pop!LoginIfNeeded, Pop!popVars, PInv, ListInv
<1>4. ListInv'
  BY <1>1, <1>2, <1>3 DEF PInv, ListInv
<1>5. QueueInv'
  BY <1>1, <1>2 DEF PInv, QueueInv, Sound, Shaped
<1>6. OperationInv'
  BY <1>1, <1>2 DEF PInv, OperationInv, Sound, Shaped
<1>7. mPop' /\ (popOp.name = "delete" => popAt' # "idle")
  BY DEF Pop!ConnectIfNeeded, Pop!LoginIfNeeded, Pop!popVars, Pop!Fail,
         Pop!Succeed, Pop!NoAnswer, PInv, MarkedInv
<1>8. MarkedInv'
  BY <1>1, <1>2, <1>7 DEF PInv, MarkedInv
<1>9. Pop!ActsOnWhatWasListed'
  BY <1>1 DEF PInv, Pop!ActsOnWhatWasListed
<1> QED
  BY <1>4, <1>5, <1>6, <1>8, <1>9 DEF PInv

\* The client sees the list of the connection, or keeps its own.
LEMMA PopListStep == PInv /\ Pop!ListIfNeeded => PInv'
<1> SUFFICES ASSUME PInv, Pop!ListIfNeeded PROVE PInv'
  OBVIOUS
<1>1. UNCHANGED <<mPop, popQueue, popOp, box, numbers, marked, acts>>
      /\ popAt = "list"
  BY DEF Pop!ListIfNeeded, Pop!serverVars
<1>2. \/ UNCHANGED <<known, fresh>> /\ popState' \in {popState, "LISTED"}
      \/ known' = numbers /\ fresh' = TRUE /\ popState' = "LISTED"
  BY DEF Pop!ListIfNeeded, Pop!clientVars
<1>3. ListInv'
  <2>1. CASE UNCHANGED <<known, fresh>> /\ popState' \in {popState, "LISTED"}
    BY <1>1, <2>1 DEF PInv, ListInv
  <2>2. CASE known' = numbers /\ fresh' = TRUE /\ popState' = "LISTED"
    BY <1>1, <2>2 DEF ListInv
  <2> QED
    BY <1>2, <2>1, <2>2
<1>4. fresh => fresh'
  BY <1>2, Zenon
<1>5. QueueInv'
  BY <1>1, <1>4 DEF PInv, QueueInv, Sound, Shaped
<1>6. OperationInv'
  BY <1>1, <1>4 DEF PInv, OperationInv, Sound, Shaped
<1>7. popOp.name = "delete" => popAt' # "idle"
  BY DEF Pop!ListIfNeeded, Pop!Fail, Pop!Succeed, Pop!NoAnswer
<1>8. MarkedInv' /\ Pop!ActsOnWhatWasListed'
  BY <1>1, <1>7 DEF PInv, MarkedInv, Pop!ActsOnWhatWasListed
<1> QED
  BY <1>3, <1>5, <1>6, <1>8 DEF PInv

LEMMA PopCommandStep == PInv /\ Pop!Command => PInv'
<1> SUFFICES ASSUME PInv, Pop!Command PROVE PInv'
  OBVIOUS
<1>1. UNCHANGED <<mPop, popState, popQueue, box, numbers, known, fresh>>
      /\ popAt = "command"
  BY DEF Pop!Command, Pop!clientVars
<1>2. ListInv' /\ QueueInv'
  BY <1>1 DEF PInv, ListInv, QueueInv, Sound, Shaped
<1>3. mPop
  BY <1>1 DEF PInv, MarkedInv
<1>4. popOp.name = "delete" => popAt' # "idle"
  BY <1>1 DEF Pop!Command, Pop!Fail, Pop!Succeed, Pop!NoAnswer
<1>5. CASE UNCHANGED <<popOp, marked, acts>>
  <2>1. OperationInv' /\ MarkedInv' /\ Pop!ActsOnWhatWasListed'
    BY <1>1, <1>3, <1>4, <1>5
       DEF PInv, OperationInv, MarkedInv, Pop!ActsOnWhatWasListed, Sound, Shaped
  <2> QED
    BY <1>2, <2>1 DEF PInv
<1>6. CASE /\ \E i \in popOp.which : Pop!Act({numbers[i]})
           /\ UNCHANGED <<popOp, marked>>
  <2>1. PICK i \in popOp.which : Pop!Act({numbers[i]})
    BY <1>6
  <2>2. acts' = {[did |-> {numbers[i]}, meant |-> popOp.meant, fresh |-> popOp.fresh]}
    BY <2>1 DEF Pop!Act
  <2>3. popOp.fresh => numbers[i] \in popOp.meant
    BY <1>1 DEF PInv, OperationInv, Sound
  <2>4. Pop!ActsOnWhatWasListed'
    BY <2>2, <2>3 DEF Pop!ActsOnWhatWasListed
  <2>5. OperationInv' /\ MarkedInv'
    BY <1>1, <1>3, <1>4, <1>6 DEF PInv, OperationInv, MarkedInv, Sound, Shaped
  <2> QED
    BY <1>2, <2>4, <2>5 DEF PInv
<1>7. CASE /\ popOp.name = "delete" /\ UNCHANGED acts
           /\ \E i \in popOp.which : /\ marked' = marked \cup {i}
                                     /\ popOp' = [popOp EXCEPT !.which = @ \ {i}]
  <2>1. PICK i \in popOp.which : /\ marked' = marked \cup {i}
                                 /\ popOp' = [popOp EXCEPT !.which = @ \ {i}]
    BY <1>7
  <2>2. Shaped(popOp)
    BY DEF PInv, OperationInv
  <2>3. /\ popOp' = [name |-> popOp.name, which |-> popOp.which \ {i},
                     meant |-> popOp.meant, fresh |-> popOp.fresh]
    BY <2>1, <2>2 DEF Shaped
  <2>4. /\ popOp'.name = popOp.name /\ popOp'.which = popOp.which \ {i}
        /\ popOp'.meant = popOp.meant /\ popOp'.fresh = popOp.fresh
        /\ Shaped(popOp')
    BY <2>3 DEF Shaped
  <2>5. Sound(popOp) /\ (popOp.fresh => \A j \in marked : numbers[j] \in popOp.meant)
    BY <1>1 DEF PInv, OperationInv
  <2>6. Sound(popOp')
    BY <2>4, <2>5 DEF Sound
  <2>7. popOp.fresh => \A j \in marked' : numbers[j] \in popOp.meant
    BY <2>1, <2>5 DEF Sound
  <2>8. OperationInv'
    BY <1>1, <2>4, <2>6, <2>7 DEF OperationInv, Shaped, Sound
  <2>9. MarkedInv' /\ Pop!ActsOnWhatWasListed'
    BY <1>1, <1>3, <1>4, <1>7, <2>4 DEF PInv, MarkedInv, Pop!ActsOnWhatWasListed
  <2> QED
    BY <1>2, <2>8, <2>9 DEF PInv
<1> QED
  BY <1>5, <1>6, <1>7 DEF Pop!Command

\* What the server deletes is what was marked, and no operation that waits
\* counts as made with a fresh list from then on.
LEMMA PopDisconnectStep == PInv /\ Pop!Disconnect => PInv'
<1> SUFFICES ASSUME PInv, Pop!Disconnect PROVE PInv'
  OBVIOUS
<1>1. popAt = "disconnect" /\ popAt' = "idle" /\ UNCHANGED <<popOp, known>>
  BY DEF Pop!Disconnect
<1>2. CASE ~mPop
  <2>1. UNCHANGED <<mPop, popState, popQueue, numbers, marked, fresh, acts>>
    BY <1>2 DEF Pop!Disconnect, Pop!popVars, Pop!serverVars
  <2>2. marked = {}
    BY <1>2 DEF PInv, MarkedInv
  <2>3. ListInv' /\ QueueInv'
    BY <1>1, <2>1 DEF PInv, ListInv, QueueInv, Sound, Shaped
  <2>4. OperationInv' /\ MarkedInv' /\ Pop!ActsOnWhatWasListed'
    BY <1>1, <2>1, <2>2
       DEF PInv, OperationInv, MarkedInv, Pop!ActsOnWhatWasListed, Sound, Shaped
  <2> QED
    BY <2>3, <2>4 DEF PInv
<1>3. CASE mPop
  <2> DEFINE deleted == IF popStream = "up" THEN {numbers[i] : i \in marked} ELSE {}
  <2>1. /\ Pop!Act(deleted) /\ marked' = {} /\ fresh' = FALSE
        /\ popState' = "DISCONNECTED"
        /\ popQueue' = [k \in DOMAIN popQueue |-> [popQueue[k] EXCEPT !.fresh = FALSE]]
    BY <1>3 DEF Pop!Disconnect
  <2>2. popOp.fresh => deleted \subseteq popOp.meant
    BY <1>1 DEF PInv, OperationInv
  <2> HIDE DEF deleted
  <2>3. Pop!ActsOnWhatWasListed'
    BY <2>1, <2>2 DEF Pop!Act, Pop!ActsOnWhatWasListed
  <2>4. ListInv' /\ OperationInv' /\ MarkedInv'
    BY <1>1, <2>1 DEF PInv, ListInv, OperationInv, MarkedInv, Shaped
  <2>5. ASSUME NEW k \in DOMAIN popQueue'
        PROVE  Shaped(popQueue'[k]) /\ popQueue'[k].fresh = FALSE
    <3>1. k \in DOMAIN popQueue /\ popQueue'[k] = [popQueue[k] EXCEPT !.fresh = FALSE]
      BY <2>1
    <3>2. Shaped(popQueue[k])
      BY <3>1 DEF PInv, QueueInv
    <3>3. popQueue'[k] = [name |-> popQueue[k].name, which |-> popQueue[k].which,
                          meant |-> popQueue[k].meant, fresh |-> FALSE]
      BY <3>1, <3>2 DEF Shaped
    <3> QED
      BY <3>3 DEF Shaped
  <2>6. popQueue' \in Seq({popQueue'[k] : k \in DOMAIN popQueue'})
    <3>1. popQueue \in Seq({popQueue[k] : k \in DOMAIN popQueue})
      BY DEF PInv, QueueInv
    <3>2. Len(popQueue) \in Nat /\ DOMAIN popQueue = 1..Len(popQueue)
      BY <3>1, LenProperties
    <3>3. DOMAIN popQueue' = 1..Len(popQueue)
          /\ popQueue' \in [1..Len(popQueue) -> {popQueue'[k] : k \in DOMAIN popQueue'}]
      BY <2>1, <3>2
    <3> QED
      BY <3>2, <3>3, SeqDef
  <2>7. QueueInv'
    BY <2>1, <2>5, <2>6 DEF QueueInv, Sound, Shaped
  <2> QED
    BY <2>3, <2>4, <2>7 DEF PInv
<1> QED
  BY <1>2, <1>3

LEMMA PopEnvironmentStep == PInv /\ (Pop!ServerDrops \/ Pop!OtherDeletes) => PInv'
<1> SUFFICES ASSUME PInv, Pop!ServerDrops \/ Pop!OtherDeletes PROVE PInv'
  OBVIOUS
<1>1. UNCHANGED <<mPop, popState, popQueue, popOp, popAt, numbers, marked, known,
                  fresh, acts>>
  BY DEF Pop!ServerDrops, Pop!OtherDeletes, Pop!popVars, Pop!serverVars,
         Pop!clientVars
<1> QED
  BY <1>1 DEF PInv, ListInv, QueueInv, OperationInv, MarkedInv, Sound, Shaped,
              Pop!ActsOnWhatWasListed

LEMMA PopStep == PInv /\ [Pop!Next]_Pop!vars => PInv'
<1>1. PInv /\ UNCHANGED Pop!vars => PInv'
  BY DEF PInv, ListInv, QueueInv, OperationInv, MarkedInv, Sound, Shaped,
         Pop!ActsOnWhatWasListed, Pop!vars, Pop!popVars, Pop!serverVars,
         Pop!clientVars
<1> QED
  BY <1>1, PopAskStep, PopCancelStep, PopBeginStep, PopConnectStep, PopListStep,
     PopCommandStep, PopDisconnectStep, PopEnvironmentStep DEF Pop!Next

\* Whichever part moves.
LEMMA PopMCStep ==
  PInv /\ [MCNext]_<<part, vars, popAll, nntpAll, downloadAll>> => PInv'
<1>1. [MCNext]_<<part, vars, popAll, nntpAll, downloadAll>>
        => Pop!Next \/ UNCHANGED popAll
  BY DEF MCNext, Indexes_Next, Pop_Next, Nntp_Next, Download_Next
<1>2. UNCHANGED popAll => UNCHANGED Pop!vars
  BY DEF popAll, Pop!vars, Pop!popVars, Pop!serverVars, Pop!clientVars
<1> QED
  BY <1>1, <1>2, PopStep

\* What an operation fetches or deletes is what the client listed under its
\* numbers, unless something called disconnect() after the client listed: for
\* any messages, any operations queued behind each other, and however the
\* connection fails or another client empties the mailbox in between.
THEOREM NumbersAreStable == MCSpec => []ActsOnWhatWasListed
<1>1. MCInit => PInv
  BY PopInit DEF MCInit
<1>2. PInv => ActsOnWhatWasListed
  BY DEF PInv, ActsOnWhatWasListed
<1> QED
  BY <1>1, <1>2, PopMCStep, PTL DEF MCSpec

-----------------------------------------------------------------------------
(* NNTPSession.                                                            *)

\* Once GROUP was sent for an operation about a group, that group is selected
\* until its command, unless the answer was passed over.
SelectedInv ==
  /\ nntpOp = [name |-> nntpOp.name, group |-> nntpOp.group, left |-> nntpOp.left]
  /\ nntpAt = "command" /\ nntpOp.name \in Nntp!InGroup =>
       group = nntpOp.group \/ ignored

NInv == SelectedInv /\ Nntp!ReadsTheGroupAsked

LEMMA NntpInit == Nntp!Init => NInv
BY DEF Nntp!Init, NInv, SelectedInv, Nntp!ReadsTheGroupAsked

LEMMA NntpBeginStep == NInv /\ Nntp!Begin => NInv'
<1> SUFFICES ASSUME NInv, Nntp!Begin PROVE NInv'
  OBVIOUS
<1>1. UNCHANGED <<group, ignored, read>>
  BY DEF Nntp!Begin
<1>2. /\ nntpOp' = [name |-> nntpOp'.name, group |-> nntpOp'.group,
                    left |-> nntpOp'.left]
      /\ nntpAt' \in {"connect", "idle"} \/ nntpOp'.name = "byid"
  BY DEF Nntp!Begin, Nntp!Return
<1> QED
  BY <1>1, <1>2
     DEF NInv, SelectedInv, Nntp!ReadsTheGroupAsked, Nntp!InGroup,
         Nntp!OneInGroup

\* On the way to the command: without GROUP only for what is about no group.
LEMMA NntpLoginStep ==
  NInv /\ (Nntp!ConnectIfNeeded \/ Nntp!LoginIfNeeded) => NInv'
<1> SUFFICES ASSUME NInv, Nntp!ConnectIfNeeded \/ Nntp!LoginIfNeeded PROVE NInv'
  OBVIOUS
<1>1. UNCHANGED <<nntpOp, ignored, read>>
  BY DEF Nntp!ConnectIfNeeded, Nntp!LoginIfNeeded
<1>2. nntpAt' = "command" => nntpOp.name \notin Nntp!InGroup
  BY DEF Nntp!ConnectIfNeeded, Nntp!LoginIfNeeded, Nntp!LoggedIn,
         Nntp!NoAnswer, Nntp!Return
<1> QED
  BY <1>1, <1>2 DEF NInv, SelectedInv, Nntp!ReadsTheGroupAsked

LEMMA NntpSelectStep == NInv /\ Nntp!SelectGroup => NInv'
<1> SUFFICES ASSUME NInv, Nntp!SelectGroup PROVE NInv'
  OBVIOUS
<1>1. UNCHANGED <<nntpOp, read>>
  BY DEF Nntp!SelectGroup
<1>2. nntpAt' = "command" => group' = nntpOp.group \/ ignored'
  BY DEF Nntp!SelectGroup, Nntp!NoAnswer, Nntp!Return
<1> QED
  BY <1>1, <1>2 DEF NInv, SelectedInv, Nntp!ReadsTheGroupAsked

\* LISTGROUP names its group again; any other article is of the one selected.
LEMMA NntpCommandStep == NInv /\ Nntp!Command => NInv'
<1> SUFFICES ASSUME NInv, Nntp!Command PROVE NInv'
  OBVIOUS
<1>1. nntpAt = "command" /\ nntpAt' \in {"idle", "connect"} /\ UNCHANGED ignored
  BY DEF Nntp!Command, Nntp!Return
<1>2. nntpOp' = nntpOp \/ nntpOp' = [nntpOp EXCEPT !.left = @ - 1]
  BY DEF Nntp!Command
<1>3. SelectedInv'
  BY <1>1, <1>2 DEF NInv, SelectedInv
<1>4. \/ UNCHANGED read
      \/ /\ nntpOp.name \in Nntp!InGroup
         /\ group' = IF nntpOp.name = "all" THEN nntpOp.group ELSE group
         /\ read' = <<nntpOp.group, group', ignored>>
  BY DEF Nntp!Command
<1>5. Nntp!ReadsTheGroupAsked'
  BY <1>1, <1>4 DEF NInv, SelectedInv, Nntp!ReadsTheGroupAsked
<1> QED
  BY <1>3, <1>5 DEF NInv

LEMMA NntpStep == NInv /\ [Nntp!Next]_Nntp!vars => NInv'
<1>1. NInv /\ Nntp!ServerDrops => NInv'
  BY DEF NInv, SelectedInv, Nntp!ServerDrops, Nntp!ReadsTheGroupAsked
<1>2. NInv /\ UNCHANGED Nntp!vars => NInv'
  BY DEF NInv, SelectedInv, Nntp!vars, Nntp!ReadsTheGroupAsked
<1> QED
  BY <1>1, <1>2, NntpBeginStep, NntpLoginStep, NntpSelectStep, NntpCommandStep
     DEF Nntp!Next

LEMMA NntpMCStep ==
  NInv /\ [MCNext]_<<part, vars, popAll, nntpAll, downloadAll>> => NInv'
<1>1. [MCNext]_<<part, vars, popAll, nntpAll, downloadAll>>
        => Nntp!Next \/ UNCHANGED nntpAll
  BY DEF MCNext, Indexes_Next, Pop_Next, Nntp_Next, Download_Next
<1>2. UNCHANGED nntpAll => UNCHANGED Nntp!vars
  BY DEF nntpAll, Nntp!vars, Nntp!nntpVars
<1> QED
  BY <1>1, <1>2, NntpStep

\* An article comes from the group it was asked of, for any groups, whatever
\* other operations the connection served before and however often it was
\* lost, unless selectGroup() passed over the answer of the server.
THEOREM GroupsAreSelected == MCSpec => []ReadsTheGroupAsked
<1>1. MCInit => NInv
  BY NntpInit DEF MCInit
<1>2. NInv => ReadsTheGroupAsked
  BY DEF NInv, ReadsTheGroupAsked
<1> QED
  BY <1>1, <1>2, NntpMCStep, PTL DEF MCSpec

-----------------------------------------------------------------------------
(* The download of an attachment.                                          *)

DataInv ==
  /\ size \in Nat /\ estimatedSize \in Int /\ atom \in 1..2 /\ offset \in 0..size
  /\ file \in Seq(1..size) /\ remaining \in Seq(1..size)
  /\ Download!FileIsPrefix

\* When the loop ends without error it has come to the end of the part, or it
\* was misled about where the end is.
EndInv ==
  /\ at \in {"fetch", "flush", "over"}
  /\ at = "flush" => offset = size \/ (shortRead /\ estimatedSize < size)
  /\ Download!SuccessMeansComplete

DInv == DataInv /\ EndInv

-----------------------------------------------------------------------------
\* The part's content, and what a fetch returns of it.
LEMMA ContentFacts ==
  ASSUME NEW n \in Nat
  PROVE  /\ Download!Content(n) \in Seq(1..n)
         /\ Len(Download!Content(n)) = n
         /\ SubSeq(Download!Content(n), 1, n) = Download!Content(n)
         /\ SubSeq(Download!Content(n), 1, 0) = <<>>
<1>1. Download!Content(n) \in Seq(1..n) /\ Len(Download!Content(n)) = n
  BY DEF Download!Content
<1>2. SubSeq(Download!Content(n), 1, n) = Download!Content(n)
  BY <1>1, SubSeqFull
<1>3. SubSeq(Download!Content(n), 1, 0) = <<>>
  BY SubSeqEmpty
<1> QED
  BY <1>1, <1>2, <1>3

LEMMA PieceFacts ==
  ASSUME NEW n \in Nat, NEW i \in 0..n, NEW k \in Nat, i + k <= n
  PROVE  /\ SubSeq(Download!Content(n), i + 1, i + k) \in Seq(1..n)
         /\ Len(SubSeq(Download!Content(n), i + 1, i + k)) = k
         /\ SubSeq(Download!Content(n), 1, i) \o SubSeq(Download!Content(n), i + 1, i + k)
              = SubSeq(Download!Content(n), 1, i + k)
<1>1. Download!Content(n) \in Seq(1..n) /\ Len(Download!Content(n)) = n
  BY ContentFacts
<1>2. \A j \in i + 1 .. i + k : Download!Content(n)[j] \in 1..n
  BY <1>1, ElementOfSeq
<1>3. /\ SubSeq(Download!Content(n), i + 1, i + k) \in Seq(1..n)
      /\ Len(SubSeq(Download!Content(n), i + 1, i + k)) = k
  BY <1>2, SubSeqProperties
<1>4. SubSeq(Download!Content(n), 1, i) \o SubSeq(Download!Content(n), i + 1, i + k)
        = SubSeq(Download!Content(n), 1, i + k)
  <2>1. /\ 1 \in 1 .. Len(Download!Content(n)) + 1
        /\ i \in 1 - 1 .. Len(Download!Content(n))
        /\ i + k \in i .. Len(Download!Content(n))
    BY <1>1
  <2> HIDE DEF Download!Content
  <2> QED
    BY <1>1, <2>1, ConcatAdjacentSubSeq
<1> QED
  BY <1>3, <1>4

\* A sequence is its whole groups and the rest, which is less than a group.
LEMMA GroupFacts ==
  ASSUME NEW S, NEW s \in Seq(S), NEW g \in 1..2, NEW k, k = Len(s) - (Len(s) % g)
  PROVE  /\ SubSeq(s, 1, k) \in Seq(S) /\ SubSeq(s, k + 1, Len(s)) \in Seq(S)
         /\ SubSeq(s, 1, k) \o SubSeq(s, k + 1, Len(s)) = s
         /\ Len(SubSeq(s, k + 1, Len(s))) < g
<1>1. Len(s) \in Nat
  BY LenProperties
<1>2. Len(s) % g \in 0 .. g - 1 /\ Len(s) % g <= Len(s)
  <2>1. CASE g = 1
    BY <1>1, <2>1
  <2>2. CASE g = 2
    BY <1>1, <2>2
  <2> QED
    BY <2>1, <2>2
<1>3. k \in 0 .. Len(s) /\ Len(s) - k < g
  BY <1>1, <1>2
<1>4. \A i \in 1 .. Len(s) : s[i] \in S
  BY ElementOfSeq
<1>5. SubSeq(s, 1, k) \in Seq(S)
  BY <1>1, <1>3, <1>4, SubSeqProperties
<1>6. /\ SubSeq(s, k + 1, Len(s)) \in Seq(S)
      /\ Len(SubSeq(s, k + 1, Len(s))) = Len(s) - k
  BY <1>1, <1>3, <1>4, SubSeqProperties
<1>7. SubSeq(s, 1, k) \o SubSeq(s, k + 1, Len(s)) = SubSeq(s, 1, Len(s))
  BY <1>1, <1>3, ConcatAdjacentSubSeq
<1>8. SubSeq(s, 1, Len(s)) = s
  BY SubSeqFull
<1> QED
  BY <1>3, <1>5, <1>6, <1>7, <1>8

-----------------------------------------------------------------------------
LEMMA DownloadInit == Download!Init => DInv
<1> SUFFICES ASSUME Download!Init PROVE DInv
  OBVIOUS
<1>1. /\ size = 0 /\ estimatedSize = 0 /\ atom = 1 /\ offset = 0
      /\ file = <<>> /\ remaining = <<>> /\ at = "over"
  BY DEF Download!Init
<1>2. Download!Content(0) = <<>> /\ SubSeq(Download!Content(0), 1, 0) = <<>>
  BY ContentFacts
<1>3. <<>> \in Seq(1..0) /\ <<>> \o <<>> = <<>>
  BY EmptySeq, ConcatEmptySeq
<1>4. DataInv
  BY <1>1, <1>2, <1>3 DEF DataInv, Download!FileIsPrefix
<1> QED
  BY <1>1, <1>2, <1>4 DEF DInv, EndInv, Download!SuccessMeansComplete

LEMMA DownloadBeginStep ==
  ASSUME MaxSize \in Nat, DInv, Download!Begin
  PROVE  DInv'
<1>1. /\ size' \in Nat /\ estimatedSize' \in Int /\ atom' \in 1..2 /\ offset' = 0
      /\ file' = <<>> /\ remaining' = <<>> /\ at' = "fetch"
  BY DEF Download!Begin
<1>2. SubSeq(Download!Content(size'), 1, 0) = <<>>
  BY <1>1, ContentFacts
<1>3. <<>> \in Seq(1..size') /\ <<>> \o <<>> = <<>> /\ Len(<<>>) = 0
  BY EmptySeq, ConcatEmptySeq
<1>4. DataInv'
  BY <1>1, <1>2, <1>3 DEF DataInv, Download!FileIsPrefix
<1> QED
  BY <1>1, <1>4 DEF DInv, EndInv, Download!SuccessMeansComplete

\* What a chunk adds: the rest of the last one and this one, written up to the
\* last whole group, continue the file.
LEMMA DownloadAppendStep ==
  ASSUME DInv, NEW n \in Nat \ {0}, offset + n <= size,
         UNCHANGED <<size, atom, estimatedSize>>,
         LET s == remaining \o SubSeq(Download!Content(size), offset + 1, offset + n)
         IN file' = file \o Download!Whole(s) /\ remaining' = Download!Rest(s),
         offset' = offset + n
  PROVE  DataInv'
<1> DEFINE data == SubSeq(Download!Content(size), offset + 1, offset + n)
           s == remaining \o data
           T == 1..size
<1>1. /\ size \in Nat /\ atom \in 1..2 /\ offset \in 0..size
      /\ file \in Seq(T) /\ remaining \in Seq(T)
      /\ file \o remaining = SubSeq(Download!Content(size), 1, offset)
  BY DEF DInv, DataInv, Download!FileIsPrefix
<1>2. /\ data \in Seq(T)
      /\ SubSeq(Download!Content(size), 1, offset) \o data
           = SubSeq(Download!Content(size), 1, offset + n)
  BY <1>1, PieceFacts
<1>3. s \in Seq(T) /\ (file \o remaining) \o data = file \o s
  <2> HIDE DEF data, T
  <2>1. remaining \o data \in Seq(T)
    BY <1>1, <1>2, ConcatProperties
  <2>2. (file \o remaining) \o data = file \o (remaining \o data)
    <3>1. file \in Seq(T) /\ remaining \in Seq(T) /\ data \in Seq(T)
      BY <1>1, <1>2
    <3> QED
      BY <3>1, ConcatAssociative
  <2> QED
    BY <2>1, <2>2
<1>4. /\ Download!Whole(s) \in Seq(T) /\ Download!Rest(s) \in Seq(T)
      /\ Download!Whole(s) \o Download!Rest(s) = s
      /\ Len(Download!Rest(s)) < atom
  <2> HIDE DEF s, T
  <2> QED
    BY <1>1, <1>3, GroupFacts DEF Download!Whole, Download!Rest
<1>5. /\ file \o Download!Whole(s) \in Seq(T)
      /\ (file \o Download!Whole(s)) \o Download!Rest(s) = file \o s
  <2> HIDE DEF s, T
  <2>1. file \o Download!Whole(s) \in Seq(T)
    BY <1>1, <1>4, ConcatProperties
  <2>2. (file \o Download!Whole(s)) \o Download!Rest(s)
          = file \o (Download!Whole(s) \o Download!Rest(s))
    <3>1. file \in Seq(T) /\ Download!Whole(s) \in Seq(T) /\ Download!Rest(s) \in Seq(T)
      BY <1>1, <1>4
    <3> QED
      BY <3>1, ConcatAssociative
  <2> QED
    BY <1>4, <2>1, <2>2
<1>6. file' = file \o Download!Whole(s) /\ remaining' = Download!Rest(s)
  OBVIOUS
<1> HIDE DEF s, data
<1>7. file' \o remaining' = SubSeq(Download!Content(size), 1, offset + n)
  BY <1>1, <1>2, <1>3, <1>5, <1>6
<1>8. /\ size' \in Nat /\ estimatedSize' \in Int /\ atom' \in 1..2
      /\ offset' \in 0..size'
  BY <1>1 DEF DInv, DataInv
<1>9. file' \in Seq(1..size') /\ remaining' \in Seq(1..size') /\ Len(remaining') < atom'
  BY <1>4, <1>5, <1>6
<1>10. file' \o remaining' = SubSeq(Download!Content(size'), 1, offset')
  BY <1>7
<1> QED
  BY <1>8, <1>9, <1>10 DEF DataInv, Download!FileIsPrefix

LEMMA DownloadFetchedStep ==
  ASSUME chunkSize \in Nat, DInv, Download!Fetched
  PROVE  DInv'
<1>0. /\ size \in Nat /\ estimatedSize \in Int /\ offset \in 0..size
      /\ at = "fetch" /\ UNCHANGED <<size, estimatedSize, atom, flushFailed>>
  BY DEF DInv, DataInv, Download!Fetched, Download!part
<1>1. CASE offset >= size
  <2>1. at' = "flush" /\ UNCHANGED <<offset, remaining, file, error, shortRead>>
    BY <1>1 DEF Download!Fetched, Download!decoder
  <2>2. DataInv'
    BY <1>0, <2>1 DEF DInv, DataInv, Download!FileIsPrefix
  <2> QED
    BY <1>0, <1>1, <2>1, <2>2 DEF DInv, EndInv, Download!SuccessMeansComplete
<1>2. CASE offset < size
  <2>1. PICK n \in 1..chunkSize :
          /\ offset + n <= size
          /\ Download!AppendData(SubSeq(Download!Content(size), offset + 1, offset + n))
          /\ shortRead' = (shortRead \/ (n < chunkSize /\ offset + n < size))
    BY <1>0, <1>2 DEF Download!Fetched
  <2>2. Len(SubSeq(Download!Content(size), offset + 1, offset + n)) = n
    BY <1>0, <2>1, PieceFacts
  <2>3. CASE /\ LET s == remaining \o SubSeq(Download!Content(size), offset + 1, offset + n)
                IN file' = file \o Download!Whole(s) /\ remaining' = Download!Rest(s)
             /\ offset' = offset + n
             /\ at' = IF Download!EndOfPart(n, offset + n) THEN "flush" ELSE "fetch"
    <3>1. DataInv'
      BY <1>0, <2>1, <2>3, DownloadAppendStep
    <3>2. at' = "flush" =>
            offset' = size' \/ (shortRead' /\ estimatedSize' < size')
      <4>1. shortRead' <=> shortRead \/ (n < chunkSize /\ offset + n < size)
        BY <2>1, Zenon
      <4>2. at' = "flush" => Download!EndOfPart(n, offset + n)
        BY <2>3, Zenon
      <4> QED
        BY <1>0, <2>1, <2>3, <4>1, <4>2 DEF Download!EndOfPart
    <3> QED
      BY <2>3, <3>1, <3>2 DEF DInv, EndInv, Download!SuccessMeansComplete
  <2>4. CASE error' = "File" /\ at' = "over" /\ UNCHANGED <<Download!decoder, offset>>
    BY <1>0, <2>4
       DEF DInv, DataInv, EndInv, Download!FileIsPrefix,
           Download!SuccessMeansComplete, Download!decoder
  <2> QED
    BY <2>1, <2>2, <2>3, <2>4 DEF Download!AppendData, Download!Undecoded
<1> QED
  BY <1>0, <1>1, <1>2

LEMMA DownloadFailedStep == DInv /\ Download!Failed => DInv'
BY DEF Download!Failed, DInv, DataInv, EndInv, Download!FileIsPrefix,
       Download!SuccessMeansComplete, Download!part, Download!decoder

LEMMA DownloadFlushStep == DInv /\ Download!Flush => DInv'
<1> SUFFICES ASSUME DInv, Download!Flush PROVE DInv'
  OBVIOUS
<1>1. /\ at = "flush" /\ at' = "over"
      /\ UNCHANGED <<size, estimatedSize, atom, offset, error, shortRead>>
      /\ size \in Nat /\ offset \in 0..size
      /\ file \in Seq(1..size) /\ remaining \in Seq(1..size)
      /\ file \o remaining = SubSeq(Download!Content(size), 1, offset)
  BY DEF Download!Flush, Download!part, DInv, DataInv, Download!FileIsPrefix
<1>2. CASE /\ file' = file \o remaining /\ remaining' = <<>>
           /\ flushFailed' \in BOOLEAN
  <2>1. /\ file' \in Seq(1..size) /\ remaining' \in Seq(1..size)
        /\ file' \o remaining' = file'
    <3>1. file \o remaining \in Seq(1..size)
      BY <1>1, ConcatProperties
    <3>2. /\ <<>> \in Seq(1..size)
          /\ (file \o remaining) \o <<>> = file \o remaining
      BY <3>1, EmptySeq, ConcatEmptySeq
    <3> QED
      BY <1>1, <1>2, <3>1, <3>2
  <2>2. DataInv'
    BY <1>1, <1>2, <2>1 DEF DInv, DataInv, Download!FileIsPrefix
  <2>3. offset = size => file' = Download!Content(size)
    BY <1>1, <1>2, ContentFacts
  <2> QED
    BY <1>1, <2>2, <2>3 DEF DInv, EndInv, Download!SuccessMeansComplete
<1>3. CASE flushFailed' = TRUE /\ UNCHANGED Download!decoder
  BY <1>1, <1>3
     DEF DInv, DataInv, EndInv, Download!FileIsPrefix,
         Download!SuccessMeansComplete, Download!decoder
<1> QED
  BY <1>2, <1>3 DEF Download!Flush

LEMMA DownloadStep ==
  ASSUME MaxSize \in Nat, chunkSize \in Nat
  PROVE  DInv /\ [Download!Next]_Download!vars => DInv'
<1>1. DInv /\ UNCHANGED Download!vars => DInv'
  BY DEF DInv, DataInv, EndInv, Download!FileIsPrefix,
         Download!SuccessMeansComplete, Download!vars, Download!part,
         Download!decoder
<1> QED
  BY <1>1, DownloadBeginStep, DownloadFetchedStep, DownloadFailedStep,
     DownloadFlushStep DEF Download!Next

LEMMA DownloadMCStep ==
  ASSUME MaxSize \in Nat, chunkSize \in Nat
  PROVE  DInv /\ [MCNext]_<<part, vars, popAll, nntpAll, downloadAll>> => DInv'
<1>1. [MCNext]_<<part, vars, popAll, nntpAll, downloadAll>>
        => Download!Next \/ UNCHANGED downloadAll
  BY DEF MCNext, Indexes_Next, Pop_Next, Nntp_Next, Download_Next
<1>2. UNCHANGED downloadAll => UNCHANGED Download!vars
  BY DEF downloadAll, Download!vars, Download!part, Download!decoder
<1> QED
  BY <1>1, <1>2, DownloadStep

\* For parts of any size and chunks of any size: what is written is the
\* beginning of the part, and a download that reports success wrote all of it,
\* unless the last write failed or a short chunk came with a wrong estimate.
THEOREM DownloadIsFaithful ==
  ASSUME MaxSize \in Nat, chunkSize \in Nat
  PROVE  MCSpec => []FileIsThePart
<1>1. MCInit => DInv
  BY DownloadInit DEF MCInit
<1>2. DInv => FileIsThePart
  BY DEF DInv, DataInv, EndInv, FileIsThePart, Download!FileIsThePart
<1> QED
  BY <1>1, <1>2, DownloadMCStep, PTL DEF MCSpec

-----------------------------------------------------------------------------
(* Induction, by the least counterexample.                                 *)

\* Induction on the natural numbers, for a set of them.
LEMMA Induct ==
  ASSUME NEW T, 0 \in T, \A n \in Nat : n \in T => n + 1 \in T
  PROVE  \A n \in Nat : n \in T
<1> DEFINE R == {p \in Nat \X Nat : p[1] < p[2]}
           F == {n \in Nat : n \notin T}
<1>1. IsWellFoundedOn(R, Nat)
  <2>1. R = OpToRel(<, Nat)
    BY DEF OpToRel
  <2> QED
    BY <2>1, NatLessThanWellFounded
<1>2. CASE F # {}
  <2>1. F \subseteq Nat
    OBVIOUS
  <2>2. PICK x \in F : \A y \in F : <<y, x>> \notin R
    <3> HIDE DEF F, R
    <3> QED
      BY <1>1, <1>2, <2>1, WFMin
  <2>3. x \in Nat /\ x # 0 /\ x - 1 \in Nat
    OBVIOUS
  <2>4. <<x - 1, x>> \in R
    BY <2>3
  <2>5. x - 1 \in T
    BY <2>2, <2>3, <2>4
  <2> QED
    BY <2>3, <2>5
<1>3. CASE F = {}
  BY <1>3
<1> QED
  BY <1>2, <1>3

\* The first of some numbers that is not in a set.
LEMMA FirstOutside ==
  ASSUME NEW P, NEW a \in Nat, NEW b \in Nat, a <= b
  PROVE  \E q \in a..b : (\A k \in a..(q - 1) : k \in P) /\ (q < b => q \notin P)
<1> DEFINE T == {n \in Nat : \A d \in a..b : b - d = n =>
                   ((\A k \in a..(d - 1) : k \in P) =>
                     \E q \in d..b : (\A k \in a..(q - 1) : k \in P)
                                     /\ (q < b => q \notin P))}
<1>1. 0 \in T
  OBVIOUS
<1>2. ASSUME NEW n \in Nat, n \in T PROVE n + 1 \in T
  <2> SUFFICES ASSUME NEW d \in a..b, b - d = n + 1, \A k \in a..(d - 1) : k \in P
               PROVE  \E q \in d..b : (\A k \in a..(q - 1) : k \in P)
                                      /\ (q < b => q \notin P)
    OBVIOUS
  <2>1. CASE d \in P
    <3>1. d + 1 \in a..b /\ b - (d + 1) = n /\ \A k \in a..((d + 1) - 1) : k \in P
      BY <2>1
    <3> QED
      BY <1>2, <3>1
  <2>2. CASE d \notin P
    BY <2>2
  <2> QED
    BY <2>1, <2>2
<1>3. b - a \in T
  <2> HIDE DEF T
  <2> QED
    BY <1>1, <1>2, Induct
<1> QED
  BY <1>3

-----------------------------------------------------------------------------
(* IndexSet.  What the array may hold: message numbers start at 1, and     *)
(* only a range without end reaches beyond 32 bits.                        *)

RB(r) == RangeRightBound(r)

Held == {r \in Ranges : r.location > 0 /\ r.location <= UINT32_MAX
                        /\ (RB(r) = UINT64_MAX \/ RB(r) < UINT32_MAX)}

Sorted(s) == \A j, k \in 1..Len(s) : j < k => RB(s[j]) < s[k].location

Arrays == {s \in Seq(Held) : Sorted(s)}

\* The bounds of a range the array may hold.
LEMMA HeldFacts ==
  ASSUME NEW r \in Held
  PROVE  /\ r \in Ranges /\ r.location \in Nat /\ RB(r) \in Nat
         /\ 0 < r.location /\ r.location <= RB(r) /\ r.location <= UINT32_MAX
         /\ r.location < UINT64_MAX /\ RB(r) <= UINT64_MAX
         /\ RB(r) = UINT64_MAX \/ RB(r) < UINT32_MAX
         /\ UINT32_MAX \in Nat /\ UINT32_MAX < UINT64_MAX
BY RangeFacts, RightBound, IndexSetAssumption DEF Held, RB

\* The elements of an array, and their order.
LEMMA ArrayFacts ==
  ASSUME NEW s \in Arrays
  PROVE  /\ s \in Seq(Held) /\ Len(s) \in Nat /\ DOMAIN s = 1..Len(s)
         /\ \A k \in 1..Len(s) : s[k] \in Held
         /\ \A j, k \in 1..Len(s) : j < k => RB(s[j]) < s[k].location
BY LenProperties, ElementOfSeq DEF Arrays, Sorted

\* What it is to be a member of an array ...
LEMMA InMembers ==
  ASSUME NEW s, NEW i
  PROVE  i \in Members(s) <=> \E k \in 1..Len(s) : i \in Indexes(s[k])
BY DEF Members

\* ... and an index of a range.
LEMMA InIndexes ==
  ASSUME NEW r \in Held, NEW i
  PROVE  i \in Indexes(r) <=> i \in Nat /\ i < UINT64_MAX
                              /\ r.location <= i /\ i <= RB(r)
BY HeldFacts, RangeAssumption DEF Indexes, RB, Uint64

\* The middle of two indices.
LEMMA Middle ==
  ASSUME NEW left \in Nat, NEW right \in Nat
  PROVE  LET middle == (left + right) \div 2
         IN  /\ middle \in Nat
             /\ left < right => left <= middle /\ middle < right
             /\ left > right => right <= middle /\ middle < left
             /\ left = right => middle = left
OBVIOUS

\* Bisection for the first range that does not end before idx.
LEMMA LeftRange ==
  ASSUME NEW s \in Arrays, NEW idx \in Nat
  PROVE  LET i == leftRangeIndexForIndex(s, idx)
         IN  /\ i \in 0..Len(s)
             /\ \A k \in 1..i : RB(s[k]) < idx
             /\ i < Len(s) => idx <= RB(s[i + 1])
<1> DEFINE D == 0..(Len(s) - 1)
           before(k) == RangeRightBound(At(s, k)) < idx
           middle(l, r) == (l + r) \div 2
           P == {k \in D : before(k)}
           clamp(i, l, r) == IF l > r THEN 0
                             ELSE IF i <= l THEN l ELSE IF i <= r THEN i ELSE r + 1
           step(g, l, r) == IF l = r THEN l + (IF before(middle(l, r)) THEN 1 ELSE 0)
                            ELSE IF before(middle(l, r)) THEN g[middle(l, r) + 1][r]
                            ELSE g[l][middle(l, r)]
           Solves(g) == g = [l \in D |-> [r \in D |-> step(g, l, r)]]
           search == CHOOSE g : Solves(g)
<1>1. CASE s = <<>>
  BY <1>1, LenProperties DEF leftRangeIndexForIndex, Arrays
<1>2. CASE s # <<>>
  <2>1. Len(s) \in Nat \ {0} /\ D \subseteq Nat /\ 0 \in D /\ Len(s) - 1 \in D
    BY <1>2, ArrayFacts, EmptySeq
  <2>2. PICK i \in 0..Len(s) : (\A k \in 0..(i - 1) : k \in P) /\ (i < Len(s) => i \notin P)
    <3>1. 0 \in Nat /\ Len(s) \in Nat /\ 0 <= Len(s)
      BY <2>1
    <3> HIDE DEF P
    <3> QED
      BY <3>1, FirstOutside, Zenon
  <2>3. \A k \in D : before(k) <=> k < i
    <3> SUFFICES ASSUME NEW k \in D, k >= i PROVE ~before(k)
      BY <2>1, <2>2
    <3>1. ~before(i) /\ i \in D
      BY <2>1, <2>2
    <3>2. CASE k = i
      BY <3>1, <3>2
    <3>3. CASE k > i
      <4>1. i + 1 \in 1..Len(s) /\ k + 1 \in 1..Len(s) /\ i + 1 < k + 1
        BY <2>1, <3>3
      <4>2. RB(s[i + 1]) < s[k + 1].location
        BY <4>1, ArrayFacts
      <4>3. /\ s[k + 1] \in Held /\ s[i + 1] \in Held
        BY <4>1, ArrayFacts
      <4> QED
        BY <3>1, <4>2, <4>3, HeldFacts DEF At, RB
    <3> QED
      BY <3>2, <3>3
  <2>4. \E g : Solves(g)
    <3> DEFINE g == [l \in D |-> [r \in D |-> clamp(i, l, r)]]
    <3>1. \A l, r \in D : g[l][r] = clamp(i, l, r)
      OBVIOUS
    <3>2. ASSUME NEW l \in D, NEW r \in D
          PROVE  clamp(i, l, r) = step(g, l, r)
      <4>1. /\ middle(l, r) \in Nat
            /\ l < r => l <= middle(l, r) /\ middle(l, r) < r
            /\ l > r => r <= middle(l, r) /\ middle(l, r) < l
            /\ l = r => middle(l, r) = l
        BY <2>1, Middle
      <4>2. middle(l, r) \in D /\ (l # r => middle(l, r) + 1 \in D)
        BY <2>1, <4>1
      <4>3. before(middle(l, r)) <=> middle(l, r) < i
        BY <2>3, <4>2
      <4> HIDE DEF middle, before, g, D
      <4>4. l # r => /\ g[middle(l, r) + 1][r] = clamp(i, middle(l, r) + 1, r)
                     /\ g[l][middle(l, r)] = clamp(i, l, middle(l, r))
        BY <3>1, <4>2
      <4>5. l \in Nat /\ r \in Nat /\ i \in Nat
        BY <2>1
      <4> QED
        BY <4>1, <4>3, <4>4, <4>5
    <3>3. Solves(g)
      <4> HIDE DEF clamp, step
      <4>1. g = [l \in D |-> [r \in D |-> step(g, l, r)]]
        BY <3>2, Zenon
      <4> QED
        BY <4>1
    <3> HIDE DEF g, Solves
    <3> QED
      BY <3>3
  <2>5. Solves(search)
    <3> HIDE DEF Solves
    <3> QED
      BY <2>4
  <2>6. ASSUME NEW l \in D, NEW r \in D
        PROVE  search[l][r] = step(search, l, r)
    <3> HIDE DEF search, step, D
    <3> QED
      BY <2>5
  <2>7. leftRangeIndexForIndex(s, idx) = search[0][Len(s) - 1]
    BY <1>2 DEF leftRangeIndexForIndex
  <2> DEFINE T == {n \in Nat : \A l, r \in D : l <= r /\ r - l <= n =>
                                  search[l][r] = clamp(i, l, r)}
  <2> HIDE DEF search
  <2>8. ASSUME NEW l \in D, NEW r \in D, l < r
        PROVE  /\ middle(l, r) \in D /\ l <= middle(l, r) /\ middle(l, r) < r
               /\ middle(l, r) + 1 \in D
    BY <2>1, <2>8, Middle
  <2>9. 0 \in T
    <3> SUFFICES ASSUME NEW l \in D PROVE search[l][l] = clamp(i, l, l)
      BY <2>1
    <3>1. middle(l, l) = l
      BY <2>1
    <3>2. search[l][l] = l + (IF before(l) THEN 1 ELSE 0)
      BY <2>6, <3>1
    <3> QED
      BY <2>1, <2>3, <3>2
  <2>10. ASSUME NEW n \in Nat, n \in T PROVE n + 1 \in T
    <3>0. ASSUME NEW l \in D, NEW r \in D, l <= r, ~(l < r)
          PROVE  search[l][r] = clamp(i, l, r)
      <4>1. l = r /\ r - l <= 0
        BY <2>1, <3>0
      <4> QED
        BY <2>9, <3>0, <4>1
    <3> SUFFICES ASSUME NEW l \in D, NEW r \in D, l < r, r - l <= n + 1
                 PROVE  search[l][r] = clamp(i, l, r)
      BY <3>0
    <3>1. /\ middle(l, r) \in D /\ l <= middle(l, r) /\ middle(l, r) < r
          /\ middle(l, r) + 1 \in D
      BY <2>8
    <3>2. search[l][middle(l, r)] = clamp(i, l, middle(l, r))
      BY <2>1, <2>10, <3>1
    <3>3. search[middle(l, r) + 1][r] = clamp(i, middle(l, r) + 1, r)
      BY <2>1, <2>10, <3>1
    <3>4. search[l][r] = IF before(middle(l, r)) THEN search[middle(l, r) + 1][r]
                         ELSE search[l][middle(l, r)]
      <4>1. l # r
        BY <2>1
      <4>2. search[l][r] = step(search, l, r)
        BY <2>6
      <4> HIDE DEF before, middle
      <4> QED
        BY <4>1, <4>2
    <3>5. before(middle(l, r)) <=> middle(l, r) < i
      BY <2>3, <3>1
    <3> HIDE DEF before, middle
    <3> QED
      BY <2>1, <3>1, <3>2, <3>3, <3>4, <3>5
  <2>11. Len(s) - 1 \in T
    <3> HIDE DEF T
    <3> QED
      BY <2>1, <2>9, <2>10, Induct
  <2>12. search[0][Len(s) - 1] = i
    BY <2>1, <2>11
  <2>13. ASSUME NEW k \in 1..i PROVE RB(s[k]) < idx
    <3>1. k - 1 \in D /\ k - 1 < i /\ (k - 1) + 1 = k
      BY <2>1
    <3> QED
      BY <2>3, <3>1 DEF RB, At
  <2>14. i < Len(s) => idx <= RB(s[i + 1])
    <3> SUFFICES ASSUME i < Len(s) PROVE idx <= RB(s[i + 1])
      OBVIOUS
    <3>1. i \in D /\ ~before(i) /\ i + 1 \in 1..Len(s)
      BY <2>1, <2>3
    <3> QED
      BY <3>1, ArrayFacts, HeldFacts DEF RB, At
  <2> QED
    BY <2>7, <2>12, <2>13, <2>14
<1> QED
  BY <1>1, <1>2

\* Bisection for the range that holds idx.
LEMMA ContainsExact ==
  ASSUME NEW s \in Arrays, NEW idx \in Nat, idx < UINT64_MAX
  PROVE  containsIndex(s, idx) <=> idx \in Members(s)
<1> DEFINE D == 0..(Len(s) - 1)
           middle(l, r) == (l + r) \div 2
           inside(k) == At(s, k).location <= idx /\ idx <= RangeRightBound(At(s, k))
           found(l, r) == l > r \/ \E k \in l..r : inside(k)
           step(g, l, r) == \/ inside(middle(l, r))
                            \/ /\ l # r
                               /\ IF idx < At(s, middle(l, r)).location
                                  THEN g[l][middle(l, r)]
                                  ELSE g[middle(l, r) + 1][r]
           Solves(g) == g = [l \in D |-> [r \in D |-> step(g, l, r)]]
           search == CHOOSE g : Solves(g)
<1>1. CASE s = <<>>
  BY <1>1, InMembers, LenProperties DEF containsIndex, Arrays
<1>2. CASE s # <<>>
  <2>1. Len(s) \in Nat \ {0} /\ D \subseteq Nat /\ 0 \in D /\ Len(s) - 1 \in D
    BY <1>2, ArrayFacts, EmptySeq
  <2>2. ASSUME NEW j \in D, NEW k \in D, j < k
        PROVE  /\ RangeRightBound(At(s, j)) < At(s, k).location
               /\ At(s, j).location <= RangeRightBound(At(s, j))
               /\ At(s, k).location <= RangeRightBound(At(s, k))
               /\ At(s, j).location \in Nat /\ RangeRightBound(At(s, j)) \in Nat
               /\ At(s, k).location \in Nat /\ RangeRightBound(At(s, k)) \in Nat
    <3>1. j + 1 \in 1..Len(s) /\ k + 1 \in 1..Len(s) /\ j + 1 < k + 1
      BY <2>1, <2>2
    <3>2. /\ s[j + 1] \in Held /\ s[k + 1] \in Held
          /\ RB(s[j + 1]) < s[k + 1].location
      BY <3>1, ArrayFacts
    <3> QED
      BY <3>2, HeldFacts DEF At, RB
  <2>3. ASSUME NEW l \in D, NEW r \in D
        PROVE  /\ middle(l, r) \in D /\ (l # r => middle(l, r) + 1 \in D)
               /\ l < r => l <= middle(l, r) /\ middle(l, r) < r
               /\ l > r => r <= middle(l, r) /\ middle(l, r) < l
               /\ l = r => middle(l, r) = l
    <3>1. /\ middle(l, r) \in Nat
          /\ l < r => l <= middle(l, r) /\ middle(l, r) < r
          /\ l > r => r <= middle(l, r) /\ middle(l, r) < l
          /\ l = r => middle(l, r) = l
      BY <2>1, Middle
    <3> HIDE DEF middle
    <3> QED
      BY <2>1, <3>1
  \* One comparison decides for a half.
  <2>4. ASSUME NEW l \in D, NEW r \in D, l <= r
        PROVE  found(l, r) <=>
                 \/ inside(middle(l, r))
                 \/ /\ l # r
                    /\ IF idx < At(s, middle(l, r)).location
                       THEN found(l, middle(l, r))
                       ELSE found(middle(l, r) + 1, r)
    <3> DEFINE m == middle(l, r)
    <3>1. m \in D /\ l <= m /\ m <= r /\ (l # r => m < r /\ m + 1 \in D)
      BY <2>1, <2>3, <2>4
    <3> HIDE DEF m
    <3>2. ASSUME idx < At(s, m).location, NEW k \in l..r, inside(k)
          PROVE  k < m
      <4>0. At(s, m).location \in Nat
        <5>1. s[m + 1] \in Held
          BY <2>1, <3>1, ArrayFacts
        <5> QED
          BY <5>1, HeldFacts DEF At
      <4>1. k \in D
        BY <2>1
      <4>2. k # m
        BY <2>1, <3>1, <3>2, <4>0
      <4>3. CASE m < k
        BY <2>1, <2>2, <3>1, <3>2, <4>1, <4>3
      <4> QED
        BY <2>1, <3>1, <4>2, <4>3
    <3>3. ASSUME ~(idx < At(s, m).location), ~inside(m), NEW k \in l..r, inside(k)
          PROVE  m < k
      <4>1. k \in D
        BY <2>1
      <4>2. CASE k < m
        BY <2>1, <2>2, <3>1, <3>3, <4>1, <4>2
      <4>3. k # m
        BY <3>3
      <4> QED
        BY <2>1, <3>1, <4>2, <4>3
    <3> HIDE DEF inside
    <3>4. CASE l = r
      <4>1. m = l
        BY <2>1, <3>1, <3>4
      <4> QED
        BY <2>1, <3>4, <4>1 DEF m
    <3>5. CASE l # r /\ idx < At(s, m).location
      <4>1. found(l, r) <=> \E k \in l..r : inside(k)
        BY <2>1, <2>4
      <4>2. found(l, m) <=> \E k \in l..m : inside(k)
        BY <2>1, <3>1
      <4>3. \A k \in l..r : inside(k) => k \in l..m
        BY <2>1, <3>1, <3>2, <3>5
      <4>4. \A k \in l..m : k \in l..r
        BY <2>1, <3>1
      <4>5. inside(m) => \E k \in l..m : inside(k)
        BY <2>1, <3>1
      <4> QED
        BY <3>5, <4>1, <4>2, <4>3, <4>4, <4>5 DEF m
    <3>6. CASE l # r /\ ~(idx < At(s, m).location)
      <4>1. found(l, r) <=> \E k \in l..r : inside(k)
        BY <2>1, <2>4
      <4>2. found(m + 1, r) <=> \E k \in m + 1..r : inside(k)
        BY <2>1, <3>1, <3>6
      <4>3. ~inside(m) => \A k \in l..r : inside(k) => k \in m + 1..r
        BY <2>1, <3>1, <3>3, <3>6
      <4>4. \A k \in m + 1..r : k \in l..r
        BY <2>1, <3>1
      <4>5. inside(m) => \E k \in l..r : inside(k)
        BY <2>1, <3>1
      <4> QED
        BY <3>6, <4>1, <4>2, <4>3, <4>4, <4>5 DEF m
    <3> QED
      BY <3>4, <3>5, <3>6
  <2>5. \E g : Solves(g)
    <3> DEFINE g == [l \in D |-> [r \in D |-> found(l, r)]]
    <3>1. \A l, r \in D : g[l][r] = found(l, r)
      OBVIOUS
    <3>2. ASSUME NEW l \in D, NEW r \in D
          PROVE  found(l, r) = step(g, l, r)
      <4>1. l # r => /\ g[middle(l, r) + 1][r] = found(middle(l, r) + 1, r)
                     /\ g[l][middle(l, r)] = found(l, middle(l, r))
        BY <2>3, <3>1
      <4>2. ASSUME l <= r PROVE found(l, r) <=> step(g, l, r)
        <5> HIDE DEF found, middle, inside, g
        <5> QED
          BY <2>4, <4>1, <4>2
      <4>3. ASSUME l > r PROVE found(l, r) <=> step(g, l, r)
        <5>1. found(l, r) /\ found(middle(l, r) + 1, r) /\ found(l, middle(l, r))
          BY <2>1, <2>3, <4>3
        <5>2. l # r
          BY <2>1, <4>3
        <5> HIDE DEF found, middle, inside, g
        <5> QED
          BY <4>1, <5>1, <5>2
      <4>4. found(l, r) <=> step(g, l, r)
        BY <2>1, <4>2, <4>3
      <4>5. found(l, r) \in BOOLEAN /\ step(g, l, r) \in BOOLEAN
        OBVIOUS
      <4> HIDE DEF found, step
      <4> QED
        BY <4>4, <4>5
    <3>3. Solves(g)
      <4> HIDE DEF found, step
      <4>1. g = [l \in D |-> [r \in D |-> step(g, l, r)]]
        BY <3>2, Zenon
      <4> QED
        BY <4>1
    <3> HIDE DEF g, Solves
    <3> QED
      BY <3>3
  <2>6. Solves(search)
    <3> HIDE DEF Solves
    <3> QED
      BY <2>5
  <2>7. ASSUME NEW l \in D, NEW r \in D
        PROVE  search[l][r] = step(search, l, r)
    <3> HIDE DEF search, step, D
    <3> QED
      BY <2>6
  <2>8. containsIndex(s, idx) <=> search[0][Len(s) - 1]
    BY <1>2 DEF containsIndex
  <2> DEFINE T == {n \in Nat : \A l, r \in D : l <= r /\ r - l <= n =>
                                  (search[l][r] <=> found(l, r))}
  <2> HIDE DEF search
  <2>9. ASSUME NEW l \in D, NEW r \in D, l <= r,
               l # r => /\ search[l][middle(l, r)] <=> found(l, middle(l, r))
                        /\ search[middle(l, r) + 1][r] <=> found(middle(l, r) + 1, r)
        PROVE  search[l][r] <=> found(l, r)
    <3> HIDE DEF found, middle, inside
    <3> QED
      BY <2>4, <2>7, <2>9
  <2>10. 0 \in T
    <3> SUFFICES ASSUME NEW l \in D PROVE search[l][l] <=> found(l, l)
      BY <2>1
    <3>1. l <= l
      BY <2>1
    <3> HIDE DEF found, middle, D
    <3> QED
      BY <2>9, <3>1
  <2>11. ASSUME NEW n \in Nat, n \in T PROVE n + 1 \in T
    <3> SUFFICES ASSUME NEW l \in D, NEW r \in D, l <= r, r - l <= n + 1
                 PROVE  search[l][r] <=> found(l, r)
      OBVIOUS
    <3>1. l # r => /\ middle(l, r) \in D /\ l <= middle(l, r) /\ middle(l, r) < r
                   /\ middle(l, r) + 1 \in D
      BY <2>1, <2>3
    <3> HIDE DEF middle, found
    <3>2. l # r => search[l][middle(l, r)] <=> found(l, middle(l, r))
      BY <2>1, <2>11, <3>1
    <3>3. l # r => search[middle(l, r) + 1][r] <=> found(middle(l, r) + 1, r)
      BY <2>1, <2>11, <3>1
    <3> QED
      BY <2>9, <3>2, <3>3
  <2>12. Len(s) - 1 \in T
    <3> HIDE DEF T
    <3> QED
      BY <2>1, <2>10, <2>11, Induct
  <2>13. search[0][Len(s) - 1] <=> found(0, Len(s) - 1)
    <3> HIDE DEF found
    <3> QED
      BY <2>1, <2>12
  <2>14. found(0, Len(s) - 1) <=> \E k \in 0..(Len(s) - 1) : inside(k)
    BY <2>1
  <2>15. ASSUME NEW k \in 1..Len(s)
         PROVE  inside(k - 1) <=> idx \in Indexes(s[k])
    <3>1. (k - 1) + 1 = k /\ s[k] \in Held
      BY <2>1, ArrayFacts
    <3> QED
      BY <3>1, InIndexes DEF At, RB
  <2>16. (\E k \in 0..(Len(s) - 1) : inside(k)) <=> \E k \in 1..Len(s) : inside(k - 1)
    <3> HIDE DEF inside
    <3>1. \A k \in 1..Len(s) : k - 1 \in 0..(Len(s) - 1)
      BY <2>1
    <3>2. \A k \in 0..(Len(s) - 1) : k + 1 \in 1..Len(s) /\ (k + 1) - 1 = k
      BY <2>1
    <3> QED
      BY <3>1, <3>2
  <2> HIDE DEF inside
  <2> QED
    BY <2>8, <2>13, <2>14, <2>15, <2>16, InMembers
<1> QED
  BY <1>1, <1>2

-----------------------------------------------------------------------------
(* Cutting a piece out of the array and putting another in its place: what *)
(* merging, joining and removing come to.                                  *)

Splice(s, a, b, mid) == SubSeq(s, 1, a) \o mid \o SubSeq(s, b + 1, Len(s))

Spliced(u, s, a, b, mid) ==
  /\ u \in Seq(Held)
  /\ Len(u) = a + Len(mid) + (Len(s) - b)
  /\ \A k \in 1..a : u[k] = s[k]
  /\ \A k \in 1..Len(mid) : u[a + k] = mid[k]
  /\ \A k \in 1..(Len(s) - b) : u[a + Len(mid) + k] = s[b + k]

\* The elements of a sequence part of which gave way to another.
LEMMA SpliceElements ==
  ASSUME NEW s \in Seq(Held), NEW a \in 0..Len(s), NEW b \in a..Len(s),
         NEW mid \in Seq(Held)
  PROVE  Spliced(Splice(s, a, b, mid), s, a, b, mid)
<1> DEFINE before == SubSeq(s, 1, a)
           after == SubSeq(s, b + 1, Len(s))
           n == Len(mid)
<1>1. Len(s) \in Nat /\ n \in Nat /\ a \in Nat /\ b \in Nat /\ a <= b /\ b <= Len(s)
  BY LenProperties
<1>2. \A k \in 1..Len(s) : s[k] \in Held
  BY ElementOfSeq
<1>3. /\ before \in Seq(Held) /\ Len(before) = a /\ \A k \in 1..a : before[k] = s[k]
  <2>1. \A k \in 1..a : s[k] \in Held
    BY <1>1, <1>2
  <2>2. /\ SubSeq(s, 1, a) \in Seq(Held)
        /\ Len(SubSeq(s, 1, a)) = IF 1 <= a THEN a - 1 + 1 ELSE 0
        /\ \A k \in 1..(a - 1 + 1) : SubSeq(s, 1, a)[k] = s[1 + k - 1]
    BY <1>1, <2>1, SubSeqProperties
  <2> QED
    BY <1>1, <2>2
<1>4. /\ after \in Seq(Held) /\ Len(after) = Len(s) - b
      /\ \A k \in 1..(Len(s) - b) : after[k] = s[b + k]
  <2>1. \A k \in (b + 1)..Len(s) : s[k] \in Held
    BY <1>1, <1>2
  <2>2. /\ SubSeq(s, b + 1, Len(s)) \in Seq(Held)
        /\ Len(SubSeq(s, b + 1, Len(s)))
             = IF b + 1 <= Len(s) THEN Len(s) - (b + 1) + 1 ELSE 0
        /\ \A k \in 1..(Len(s) - (b + 1) + 1) :
             SubSeq(s, b + 1, Len(s))[k] = s[b + 1 + k - 1]
    BY <1>1, <2>1, SubSeqProperties
  <2> QED
    BY <1>1, <2>2
<1> HIDE DEF before, after
<1>5. /\ before \o mid \in Seq(Held) /\ Len(before \o mid) = a + n
      /\ \A k \in 1..(a + n) :
           (before \o mid)[k] = IF k <= a THEN before[k] ELSE mid[k - a]
  BY <1>3, ConcatProperties
<1> DEFINE u == (before \o mid) \o after
<1>6. /\ u \in Seq(Held) /\ Len(u) = a + n + (Len(s) - b)
      /\ \A k \in 1..(a + n + (Len(s) - b)) :
           u[k] = IF k <= a + n THEN (before \o mid)[k] ELSE after[k - (a + n)]
  <2> DEFINE w == before \o mid
  <2>1. w \in Seq(Held) /\ Len(w) = a + n
    BY <1>5
  <2> HIDE DEF w
  <2>2. /\ w \o after \in Seq(Held) /\ Len(w \o after) = Len(w) + Len(after)
        /\ \A k \in 1..(Len(w) + Len(after)) :
             (w \o after)[k] = IF k <= Len(w) THEN w[k] ELSE after[k - Len(w)]
    <3>1. after \in Seq(Held)
      BY <1>4
    <3> QED
      BY <2>1, <3>1, ConcatProperties, SMTT(30)
  <2> QED
    BY <1>4, <2>1, <2>2 DEF w
<1>7. u = Splice(s, a, b, mid)
  BY DEF Splice, before, after
<1> HIDE DEF u, n
<1>8. \A k \in 1..a : u[k] = s[k]
  <2> SUFFICES ASSUME NEW k \in 1..a PROVE u[k] = s[k]
    OBVIOUS
  <2>1. /\ k <= a /\ k <= a + n /\ k \in 1..(a + n)
        /\ k \in 1..(a + n + (Len(s) - b))
    BY <1>1
  <2>2. u[k] = before[k]
    BY <1>5, <1>6, <2>1
  <2>3. before[k] = s[k]
    BY <1>3, <2>1
  <2> QED
    BY <2>2, <2>3
<1>9. \A k \in 1..n : u[a + k] = mid[k]
  <2> SUFFICES ASSUME NEW k \in 1..n PROVE u[a + k] = mid[k]
    OBVIOUS
  <2>1. n \in Nat
    BY <1>1 DEF n
  <2>2. /\ a + k \in 1..(a + n) /\ a + k \in 1..(a + n + (Len(s) - b))
        /\ ~(a + k <= a) /\ (a + k) - a = k
    BY <1>1, <2>1
  <2> DEFINE spot == a + k
             w == before \o mid
  <2> HIDE DEF spot, w
  <2>3. spot \in 1..(a + n + (Len(s) - b)) /\ spot <= a + n
    BY <1>1, <2>1, <2>2 DEF spot
  <2>4. \A h \in 1..(a + n + (Len(s) - b)) : h <= a + n => u[h] = w[h]
    BY <1>6 DEF w
  <2>5. u[spot] = w[spot]
    BY <2>3, <2>4
  <2>6. spot \in 1..(a + n) /\ ~(spot <= a) /\ spot - a = k
    BY <2>2 DEF spot
  <2>7. \A h \in 1..(a + n) : w[h] = IF h <= a THEN before[h] ELSE mid[h - a]
    BY <1>5 DEF w
  <2>8. w[spot] = mid[k]
    BY <2>6, <2>7
  <2> QED
    BY <2>5, <2>8 DEF spot
<1>10. \A k \in 1..(Len(s) - b) : u[a + n + k] = s[b + k]
  <2> SUFFICES ASSUME NEW k \in 1..(Len(s) - b) PROVE u[a + n + k] = s[b + k]
    OBVIOUS
  <2> DEFINE spot == a + n + k
  <2>1. n \in Nat
    BY <1>1 DEF n
  <2>2. spot \in 1..(a + n + (Len(s) - b)) /\ ~(spot <= a + n) /\ spot - (a + n) = k
    BY <1>1, <2>1
  <2> HIDE DEF spot
  <2>3. u[spot] = after[k]
    BY <1>6, <2>2
  <2> QED
    BY <1>4, <2>3 DEF spot
<1> QED
  BY <1>6, <1>7, <1>8, <1>9, <1>10 DEF n, Spliced

\* What is left of s and what was put in make up the members.
SplicedMembers(u, s, a, b, mid) ==
  \A i : i \in Members(u) <=>
    \/ \E k \in 1..a : i \in Indexes(s[k])
    \/ i \in Members(mid)
    \/ \E k \in (b + 1)..Len(s) : i \in Indexes(s[k])

\* The array stays one when what is put in lies between its neighbours.
LEMMA SpliceArray ==
  ASSUME NEW s \in Arrays, NEW a \in 0..Len(s), NEW b \in a..Len(s),
         NEW mid \in Arrays,
         \A k \in 1..a, j \in 1..Len(mid) : RB(s[k]) < mid[j].location,
         \A k \in (b + 1)..Len(s), j \in 1..Len(mid) : RB(mid[j]) < s[k].location,
         NEW u, Spliced(u, s, a, b, mid)
  PROVE  u \in Arrays /\ SplicedMembers(u, s, a, b, mid)
<1> DEFINE n == Len(mid)
           rest == Len(s) - b
<1>1. /\ Len(s) \in Nat /\ n \in Nat /\ a \in Nat /\ b \in Nat /\ rest \in Nat
      /\ a <= b /\ b <= Len(s) /\ rest = Len(s) - b
  BY ArrayFacts
<1>2. /\ u \in Seq(Held) /\ Len(u) = a + n + rest
      /\ \A k \in 1..a : u[k] = s[k]
      /\ \A k \in 1..n : u[a + k] = mid[k]
      /\ \A k \in 1..rest : u[a + n + k] = s[b + k]
  BY DEF Spliced
<1> HIDE DEF rest, n
<1>3. ASSUME NEW k \in 1..Len(u)
      PROVE  \/ k \in 1..a
             \/ \E h \in 1..n : k = a + h
             \/ \E h \in 1..rest : k = a + n + h
  <2>1. CASE k <= a
    BY <1>1, <2>1
  <2>2. CASE k > a /\ k <= a + n
    <3>1. k - a \in 1..n /\ k = a + (k - a)
      BY <1>1, <2>2
    <3> QED
      BY <3>1
  <2>3. CASE k > a + n
    <3>1. k - (a + n) \in 1..rest /\ k = a + n + (k - (a + n))
      BY <1>1, <1>2, <2>3
    <3> QED
      BY <3>1
  <2> QED
    BY <1>1, <1>2, <2>1, <2>2, <2>3
<1>4. ASSUME NEW j \in 1..Len(u), NEW k \in 1..Len(u), j < k
      PROVE  RB(u[j]) < u[k].location
  <2>1. CASE k \in 1..a
    <3>1. j \in 1..a /\ u[j] = s[j] /\ u[k] = s[k] /\ j \in 1..Len(s) /\ k \in 1..Len(s)
      BY <1>1, <1>2, <1>4, <2>1
    <3> QED
      BY <1>4, <3>1, ArrayFacts
  <2>2. ASSUME NEW h \in 1..n, k = a + h PROVE RB(u[j]) < u[k].location
    <3>1. u[k] = mid[h]
      BY <1>2, <2>2
    <3>2. CASE j \in 1..a
      BY <1>2, <3>1, <3>2 DEF n
    <3>3. ASSUME NEW g \in 1..n, j = a + g PROVE RB(u[j]) < u[k].location
      <4>1. g < h /\ u[j] = mid[g]
        BY <1>1, <1>2, <1>4, <2>2, <3>3
      <4> QED
        BY <3>1, <4>1, ArrayFacts DEF n
    <3>4. ~\E g \in 1..rest : j = a + n + g
      BY <1>1, <1>4, <2>2
    <3> QED
      BY <1>3, <3>2, <3>3, <3>4
  <2>3. ASSUME NEW h \in 1..rest, k = a + n + h PROVE RB(u[j]) < u[k].location
    <3>1. u[k] = s[b + h] /\ b + h \in (b + 1)..Len(s) /\ b + h \in 1..Len(s)
      <4>1. b + h \in (b + 1)..Len(s) /\ b + h \in 1..Len(s)
        BY <1>1 DEF rest
      <4> QED
        BY <1>2, <2>3, <4>1
    <3>2. CASE j \in 1..a
      <4>1. u[j] = s[j] /\ j \in 1..Len(s) /\ j < b + h
        BY <1>1, <1>2, <2>3, <3>2
      <4> QED
        BY <3>1, <4>1, ArrayFacts
    <3>3. ASSUME NEW g \in 1..n, j = a + g PROVE RB(u[j]) < u[k].location
      <4>1. u[j] = mid[g]
        BY <1>2, <3>3
      <4> QED
        BY <3>1, <4>1 DEF n
    <3>4. ASSUME NEW g \in 1..rest, j = a + n + g PROVE RB(u[j]) < u[k].location
      <4>1. u[j] = s[b + g]
        BY <1>2, <3>4
      <4>2. b + g < b + h /\ b + g \in 1..Len(s)
        BY <1>1, <1>4, <2>3, <3>4 DEF rest
      <4> QED
        BY <3>1, <4>1, <4>2, ArrayFacts
    <3> QED
      BY <1>3, <3>2, <3>3, <3>4
  <2> QED
    BY <1>3, <2>1, <2>2, <2>3
<1>5. u \in Arrays
  BY <1>2, <1>4 DEF Arrays, Sorted
<1>6. ASSUME NEW i
      PROVE  i \in Members(u) <=>
               \/ \E k \in 1..a : i \in Indexes(s[k])
               \/ i \in Members(mid)
               \/ \E k \in (b + 1)..Len(s) : i \in Indexes(s[k])
  <2>1. ASSUME NEW k \in 1..Len(u), i \in Indexes(u[k])
        PROVE  \/ \E j \in 1..a : i \in Indexes(s[j])
               \/ \E j \in 1..n : i \in Indexes(mid[j])
               \/ \E j \in (b + 1)..Len(s) : i \in Indexes(s[j])
    <3>1. ASSUME NEW h \in 1..rest, k = a + n + h
          PROVE  b + h \in (b + 1)..Len(s) /\ i \in Indexes(s[b + h])
      <4>1. b + h \in (b + 1)..Len(s)
        BY <1>1 DEF rest
      <4> QED
        BY <1>2, <2>1, <3>1, <4>1
    <3> QED
      BY <1>2, <1>3, <2>1, <3>1
  <2>2. ASSUME NEW j \in 1..a, i \in Indexes(s[j])
        PROVE  j \in 1..Len(u) /\ i \in Indexes(u[j])
    <3>1. j \in 1..Len(u)
      BY <1>1, <1>2
    <3> QED
      BY <1>2, <2>2, <3>1
  <2>3. ASSUME NEW j \in 1..n, i \in Indexes(mid[j])
        PROVE  a + j \in 1..Len(u) /\ i \in Indexes(u[a + j])
    <3>1. a + j \in 1..Len(u)
      BY <1>1, <1>2
    <3> QED
      BY <1>2, <2>3, <3>1
  <2>4. ASSUME NEW j \in (b + 1)..Len(s), i \in Indexes(s[j])
        PROVE  a + n + (j - b) \in 1..Len(u) /\ i \in Indexes(u[a + n + (j - b)])
    <3>1. j - b \in 1..rest /\ b + (j - b) = j
      BY <1>1 DEF rest
    <3>2. a + n + (j - b) \in 1..Len(u)
      BY <1>1, <1>2, <3>1
    <3>3. u[a + n + (j - b)] = s[b + (j - b)]
      BY <1>2, <3>1
    <3> QED
      BY <2>4, <3>1, <3>2, <3>3
  <2>5. i \in Members(mid) <=> \E j \in 1..n : i \in Indexes(mid[j])
    BY InMembers DEF n
  <2> QED
    BY <2>1, <2>2, <2>3, <2>4, <2>5, InMembers
<1> QED
  BY <1>5, <1>6 DEF SplicedMembers

\* An array of one range ...
LEMMA Single ==
  ASSUME NEW r \in Held
  PROVE  /\ <<r>> \in Arrays /\ Len(<<r>>) = 1 /\ <<r>>[1] = r
         /\ Members(<<r>>) = Indexes(r)
<1>1. <<r>> \in Seq(Held) /\ Len(<<r>>) = 1 /\ <<r>>[1] = r
  OBVIOUS
<1>2. \A i : i \in Members(<<r>>) <=> i \in Indexes(r)
  BY <1>1, InMembers
<1> QED
  BY <1>1, <1>2 DEF Arrays, Sorted

\* ... and of none.
LEMMA NoRange == <<>> \in Arrays /\ Len(<<>>) = 0 /\ Members(<<>>) = {}
<1>1. <<>> \in Seq(Held) /\ Len(<<>>) = 0
  OBVIOUS
<1>2. \A i : i \notin Members(<<>>)
  BY <1>1, InMembers
<1> QED
  BY <1>1, <1>2 DEF Arrays, Sorted

-----------------------------------------------------------------------------
(* Adding a range.                                                         *)

\* Two ranges meet when neither ends before the other begins.
LEMMA MeetRanges ==
  ASSUME NEW r1 \in Ranges, NEW r2 \in Ranges
  PROVE  RangeHasIntersection(r1, r2) <=>
           r1.location <= RB(r2) /\ r2.location <= RB(r1)
<1>1. /\ r1.location \in Nat /\ r2.location \in Nat /\ RB(r1) \in Nat /\ RB(r2) \in Nat
      /\ r1.location < UINT64_MAX /\ r2.location < UINT64_MAX
  BY RangeFacts, RightBound DEF RB
<1>2. CASE RB(r2) < r1.location \/ RB(r1) < r2.location
  <2>1. RangeIntersection(r1, r2) = RangeEmpty
    BY <1>2 DEF RangeIntersection, RB
  <2> QED
    BY <1>1, <1>2, <2>1 DEF RangeHasIntersection, RangeEmpty, RangeMake
<1>3. CASE ~(RB(r2) < r1.location \/ RB(r1) < r2.location)
  <2>1. RangeIntersection(r1, r2).location \in {r1.location, r2.location}
    BY <1>3 DEF RangeIntersection, RB, Between, RangeMake
  <2> QED
    BY <1>1, <1>3, <2>1, RangeAssumption DEF RangeHasIntersection
<1> QED
  BY <1>2, <1>3

\* The same for the ranges of an array.
LEMMA Meet ==
  ASSUME NEW r1 \in Held, NEW r2 \in Held
  PROVE  RangeHasIntersection(r1, r2) <=>
           r1.location <= RB(r2) /\ r2.location <= RB(r1)
BY HeldFacts, MeetRanges

\* The largest of the numbers from a to b.
LEMMA MaxOfInterval ==
  ASSUME NEW a \in Int, NEW b \in Int, a <= b
  PROVE  Max((a..b) \cup {a}) = b
<1> DEFINE S == (a..b) \cup {a}
<1>1. b \in S /\ \A y \in S : b >= y
  OBVIOUS
<1>2. \A x \in S : (\A y \in S : x >= y) => x = b
  BY <1>1
<1>3. Max(S) = CHOOSE x \in S : \A y \in S : x >= y
  BY DEF Max
<1> HIDE DEF S
<1>4. Max(S) \in S /\ \A y \in S : Max(S) >= y
  BY <1>1, <1>3
<1> QED
  BY <1>2, <1>4 DEF S

\* The union of two ranges of the array that meet may be in the array.
LEMMA UnionHeld ==
  ASSUME NEW r1 \in Held, NEW r2 \in Held, RangeHasIntersection(r1, r2)
  PROVE  LET u == RangeUnion(r1, r2)
         IN  /\ u \in Held
             /\ u.location = IF r1.location < r2.location THEN r1.location ELSE r2.location
             /\ RB(u) = IF RB(r1) > RB(r2) THEN RB(r1) ELSE RB(r2)
             /\ Indexes(u) = Indexes(r1) \cup Indexes(r2)
<1> DEFINE left == IF r1.location < r2.location THEN r1.location ELSE r2.location
           right == IF RB(r1) > RB(r2) THEN RB(r1) ELSE RB(r2)
           u == RangeUnion(r1, r2)
<1>1. /\ r1.location \in Nat /\ r2.location \in Nat /\ RB(r1) \in Nat /\ RB(r2) \in Nat
      /\ 0 < r1.location /\ 0 < r2.location
      /\ r1.location < UINT64_MAX /\ r2.location < UINT64_MAX
      /\ r1.location <= RB(r1) /\ r2.location <= RB(r2)
      /\ RB(r1) <= UINT64_MAX /\ RB(r2) <= UINT64_MAX
      /\ r1.location <= UINT32_MAX /\ r2.location <= UINT32_MAX
      /\ RB(r1) = UINT64_MAX \/ RB(r1) < UINT32_MAX
      /\ RB(r2) = UINT64_MAX \/ RB(r2) < UINT32_MAX
      /\ r1 \in Ranges /\ r2 \in Ranges
  BY HeldFacts
<1>2. u = Between(left, right)
  BY DEF RangeUnion, RB
<1>3. left \in Nat /\ right \in Nat /\ left <= right /\ right <= UINT64_MAX
      /\ 0 < left /\ left < UINT64_MAX /\ left <= UINT32_MAX
      /\ (right = UINT64_MAX \/ right < UINT32_MAX)
  BY <1>1
<1> HIDE DEF left, right, u
<1>4. u.location = left /\ RB(u) = right /\ u \in Ranges
  BY <1>2, <1>3, BetweenFacts DEF RB
<1>5. u \in Held
  BY <1>3, <1>4 DEF Held
<1>6. Indexes(u) = Indexes(r1) \cup Indexes(r2)
  BY <1>1, UnionIsExact DEF u
<1> QED
  BY <1>4, <1>5, <1>6 DEF u, left, right

\* The elements after the one at a, c of them, give way to x in its place.
LEMMA RemoveReplace ==
  ASSUME NEW t \in Seq(Held), NEW a \in 1..Len(t), NEW c \in 0..(Len(t) - a),
         NEW x \in Held
  PROVE  Spliced(ReplaceAt(removeRangeIndex(t, a, c), a, x), t, a - 1, a + c, <<x>>)
<1> DEFINE w == removeRangeIndex(t, a, c)
           u == ReplaceAt(w, a, x)
           rest == Len(t) - (a + c)
<1>1. /\ Len(t) \in Nat /\ a \in Nat \ {0} /\ a <= Len(t)
      /\ c \in Nat /\ a + c <= Len(t)
  BY LenProperties
<1>2. Spliced(w, t, a, a + c, <<>>)
  <2>1. SubSeq(t, 1, a) \in Seq(Held)
    <3>1. \A k \in 1..a : t[k] \in Held
      BY <1>1, ElementOfSeq
    <3> QED
      BY <1>1, <3>1, SubSeqProperties
  <2>2. SubSeq(t, 1, a) \o <<>> = SubSeq(t, 1, a)
    BY <2>1, ConcatEmptySeq
  <2>3. w = Splice(t, a, a + c, <<>>)
    BY <2>2, Zenon DEF removeRangeIndex, Splice
  <2>4. a \in 0..Len(t) /\ a + c \in a..Len(t) /\ <<>> \in Seq(Held)
    BY <1>1
  <2> QED
    BY <2>3, <2>4, SpliceElements, Zenon
<1> HIDE DEF w
<1>3. /\ w \in Seq(Held) /\ Len(w) = a + rest
      /\ \A k \in 1..a : w[k] = t[k]
      /\ \A k \in 1..rest : w[a + k] = t[a + c + k]
  <2>1. Len(<<>>) = 0 /\ a + 0 = a
    BY <1>1
  <2>2. \A k \in 1..rest : a + Len(<<>>) + k = a + k
    BY <1>1, <2>1
  <2> QED
    BY <1>1, <1>2, <2>1, <2>2 DEF Spliced
<1>4. u = [w EXCEPT ![a] = x]
  BY DEF ReplaceAt
<1>5. rest \in Nat
  BY <1>1
<1> HIDE DEF u, rest
<1>6. /\ u \in Seq(Held) /\ Len(u) = a + rest
      /\ \A k \in 1..(a + rest) : u[k] = IF k = a THEN x ELSE w[k]
  <2>1. a \in 1..Len(w)
    BY <1>1, <1>3, <1>5
  <2> QED
    BY <1>3, <1>4, <2>1, ExceptSeq
<1>7. \A k \in 1..(a - 1) : u[k] = t[k]
  <2>1. \A k \in 1..(a - 1) : k \in 1..a /\ k \in 1..(a + rest) /\ k # a
    BY <1>1, <1>5
  <2> QED
    BY <1>3, <1>6, <2>1
<1>8. /\ Len(<<x>>) = 1 /\ <<x>>[1] = x /\ u[a] = x
      /\ (a - 1) + 1 = a /\ Len(u) = (a - 1) + 1 + rest
  BY <1>1, <1>5, <1>6
<1>9. \A k \in 1..rest : u[(a - 1) + 1 + k] = t[a + c + k]
  <2>1. \A k \in 1..rest : /\ (a - 1) + 1 + k = a + k
                           /\ a + k \in 1..(a + rest) /\ a + k # a
    BY <1>1, <1>5
  <2> QED
    BY <1>3, <1>6, <2>1
<1>10. \A k \in 1..Len(<<x>>) : u[(a - 1) + k] = <<x>>[k]
  <2>1. \A k \in 1..Len(<<x>>) : k = 1
    BY <1>8
  <2> QED
    BY <1>8, <2>1
<1> QED
  BY <1>6, <1>7, <1>8, <1>9, <1>10 DEF Spliced, u, w, rest

\* Two ranges that touch become one.
LEMMA JoinAdjacent ==
  ASSUME NEW s \in Arrays, NEW i \in Nat, i + 1 < Len(s)
  PROVE  /\ tryToMergeAdjacentRanges(s, i) \in Arrays
         /\ Members(tryToMergeAdjacentRanges(s, i)) = Members(s)
<1> DEFINE a == s[i + 1]
           b == s[i + 2]
           u == RangeMake(a.location, RB(b) - a.location)
           joined == tryToMergeAdjacentRanges(s, i)
<1>1. CASE RB(a) = UINT64_MAX \/ RB(a) + 1 # b.location
  <2>1. joined = s
    BY <1>1 DEF tryToMergeAdjacentRanges, At, RB
  <2> QED
    BY <2>1
<1>2. CASE ~(RB(a) = UINT64_MAX \/ RB(a) + 1 # b.location)
  <2>1. Len(s) \in Nat /\ i + 1 \in 1..Len(s) /\ i + 2 \in 1..Len(s)
        /\ s \in Seq(Held) /\ a \in Held /\ b \in Held
    BY ArrayFacts
  <2>2. /\ a.location \in Nat /\ b.location \in Nat /\ RB(a) \in Nat /\ RB(b) \in Nat
        /\ 0 < a.location /\ a.location <= RB(a) /\ RB(a) + 1 = b.location
        /\ b.location <= RB(b) /\ RB(b) <= UINT64_MAX
        /\ RB(b) = UINT64_MAX \/ RB(b) < UINT32_MAX
        /\ a.location < UINT64_MAX /\ a.location <= UINT32_MAX
    BY <1>2, <2>1, HeldFacts
  <2>3. u = [location |-> a.location, length |-> RB(b) - a.location]
    BY DEF RangeMake
  <2> HIDE DEF u
  <2>4. u.location = a.location /\ u.length = RB(b) - a.location
    BY <2>3
  <2>5. u \in Ranges /\ RB(u) = RB(b)
    <3>1. u \in [location : Uint64, length : Uint64]
      <4>1. a.location \in 0..UINT64_MAX /\ RB(b) - a.location \in 0..UINT64_MAX
        BY <2>2, RangeAssumption
      <4> QED
        BY <2>3, <4>1 DEF Uint64
    <3>2. u.location + u.length = RB(b) /\ u.length # UINT64_MAX
      BY <2>2, <2>4, RangeAssumption
    <3> QED
      BY <2>2, <2>4, <3>1, <3>2, RangeAssumption DEF Ranges, RB, RangeRightBound, Wrap
  <2>6. u \in Held
    BY <2>2, <2>4, <2>5 DEF Held
  <2>7. \A k : k \in Indexes(u) <=> k \in Indexes(a) \/ k \in Indexes(b)
    BY <2>1, <2>2, <2>4, <2>5, <2>6, InIndexes
  <2>8. Spliced(joined, s, i, i + 2, <<u>>)
    <3>1. /\ i + 1 \in 1..Len(s) /\ 1 \in 0..(Len(s) - (i + 1))
          /\ (i + 1) - 1 = i /\ (i + 1) + 1 = i + 2
      BY <2>1
    <3>2. joined = ReplaceAt(removeRangeIndex(s, i + 1, 1), i + 1, u)
      <4>1. ~(RangeRightBound(At(s, i)) = UINT64_MAX
              \/ RangeRightBound(At(s, i)) + 1 # At(s, i + 1).location)
        BY <1>2, <3>1 DEF At, RB
      <4> QED
        BY <3>1, <4>1 DEF tryToMergeAdjacentRanges, At, RB, u
    <3>3. Spliced(joined, s, (i + 1) - 1, (i + 1) + 1, <<u>>)
      BY <2>1, <2>6, <3>1, <3>2, RemoveReplace, Zenon
    <3> QED
      BY <3>1, <3>3
  <2>9. /\ <<u>> \in Arrays /\ Len(<<u>>) = 1 /\ <<u>>[1] = u
        /\ Members(<<u>>) = Indexes(u)
    BY <2>6, Single
  <2>10. \A k \in 1..i : RB(s[k]) < u.location
    <3>1. \A k \in 1..i : k \in 1..Len(s) /\ k < i + 1
      BY <2>1
    <3> QED
      BY <2>1, <2>4, <3>1, ArrayFacts
  <2>11. \A k \in (i + 2 + 1)..Len(s) : RB(u) < s[k].location
    <3>1. \A k \in (i + 2 + 1)..Len(s) : k \in 1..Len(s) /\ i + 2 < k
      BY <2>1
    <3> QED
      BY <2>1, <2>5, <3>1, ArrayFacts
  <2> HIDE DEF joined
  <2>12. /\ joined \in Arrays
         /\ \A k : k \in Members(joined) <=>
              \/ \E j \in 1..i : k \in Indexes(s[j])
              \/ k \in Members(<<u>>)
              \/ \E j \in (i + 2 + 1)..Len(s) : k \in Indexes(s[j])
    <3>1. i \in 0..Len(s) /\ i + 2 \in i..Len(s)
      BY <2>1
    <3>2. \A k \in 1..i, j \in 1..Len(<<u>>) : RB(s[k]) < <<u>>[j].location
      BY <2>9, <2>10
    <3>3. \A k \in (i + 2 + 1)..Len(s), j \in 1..Len(<<u>>) : RB(<<u>>[j]) < s[k].location
      BY <2>9, <2>11
    <3> DEFINE e == i + 2
    <3>4. /\ i \in 0..Len(s) /\ e \in i..Len(s) /\ <<u>> \in Arrays
          /\ Spliced(joined, s, i, e, <<u>>)
      BY <2>8, <2>9, <3>1
    <3>5. \A k \in (e + 1)..Len(s), j \in 1..Len(<<u>>) :
             RB(<<u>>[j]) < s[k].location
      BY <3>3
    <3> HIDE DEF e, a, b
    <3>6. joined \in Arrays /\ SplicedMembers(joined, s, i, e, <<u>>)
      BY <3>2, <3>4, <3>5, SpliceArray
    <3> QED
      BY <3>6 DEF SplicedMembers, e
  <2>13. ASSUME NEW k PROVE k \in Members(joined) <=> k \in Members(s)
    <3>1. \A j \in 1..Len(s) : j \in 1..i \/ j = i + 1 \/ j = i + 2
                               \/ j \in (i + 2 + 1)..Len(s)
      BY <2>1
    <3>2. /\ \A j \in 1..i : j \in 1..Len(s)
          /\ \A j \in (i + 2 + 1)..Len(s) : j \in 1..Len(s)
      BY <2>1
    <3>3. k \in Members(s) <=>
            \/ \E j \in 1..i : k \in Indexes(s[j])
            \/ k \in Indexes(a) \/ k \in Indexes(b)
            \/ \E j \in (i + 2 + 1)..Len(s) : k \in Indexes(s[j])
      BY <2>1, <3>1, <3>2, InMembers
    <3> QED
      BY <2>7, <2>9, <2>12, <3>3
  <2> QED
    BY <2>12, <2>13 DEF joined
<1> QED
  BY <1>1, <1>2

\* mergeRanges(), of a range just inserted at i: it and the ranges up to e that
\* it meets become its union with the last of them.
LEMMA MergeElements ==
  ASSUME NEW s \in Arrays, NEW i \in 0..Len(s), NEW r \in Held
  PROVE  \E e \in i..Len(s) :
           /\ \A k \in (i + 1)..e : RangeHasIntersection(r, s[k])
           /\ e < Len(s) => ~RangeHasIntersection(r, s[e + 1])
           /\ Spliced(mergeRanges(InsertAt(s, i + 1, r), i), s, i, e,
                      <<IF e = i THEN r ELSE RangeUnion(r, s[e])>>)
<1> DEFINE t == InsertAt(s, i + 1, r)
           n == Len(s)
           meets(k) == RangeHasIntersection(At(t, i), At(t, k))
           P == {k \in i..n : meets(k)}
           reached == {j \in i..(Len(t) - 1) : \A k \in i..j : meets(k)}
           merged == mergeRanges(t, i)
<1>1. /\ n \in Nat /\ i \in Nat /\ i <= n /\ s \in Seq(Held)
      /\ \A k \in 1..n : s[k] \in Held
  BY ArrayFacts
<1>2. Spliced(t, s, i, i, <<r>>)
  <2>1. (i + 1) - 1 = i /\ i \in i..Len(s) /\ <<r>> \in Seq(Held)
    BY <1>1
  <2>2. t = Splice(s, i, i, <<r>>)
    BY <2>1, Zenon DEF InsertAt, Splice
  <2> QED
    BY <1>1, <2>1, <2>2, SpliceElements, Zenon
<1> HIDE DEF t
<1>3. /\ t \in Seq(Held) /\ Len(t) = n + 1
      /\ \A k \in 1..i : t[k] = s[k]
      /\ t[i + 1] = r
      /\ \A k \in 1..(n - i) : t[i + 1 + k] = s[i + k]
  <2>1. Len(<<r>>) = 1 /\ <<r>>[1] = r /\ 1 \in 1..Len(<<r>>)
    OBVIOUS
  <2>2. i + 1 + (n - i) = n + 1
    BY <1>1
  <2> QED
    BY <1>2, <2>1, <2>2 DEF Spliced
<1>4. \A k \in (i + 1)..n : At(t, k) = s[k]
  <2> SUFFICES ASSUME NEW k \in (i + 1)..n PROVE t[k + 1] = s[k]
    BY DEF At
  <2>1. k - i \in 1..(n - i) /\ i + 1 + (k - i) = k + 1 /\ i + (k - i) = k
    BY <1>1
  <2>2. t[i + 1 + (k - i)] = s[i + (k - i)]
    BY <1>3, <2>1
  <2> QED
    BY <2>1, <2>2
<1>5. At(t, i) = r /\ meets(i)
  <2>1. At(t, i) = r
    BY <1>3 DEF At
  <2> QED
    BY <2>1, HeldFacts, Meet
<1> HIDE DEF n
<1>6. PICK q \in i..(n + 1) : (\A k \in i..(q - 1) : k \in P) /\ (q < n + 1 => q \notin P)
  <2>1. n + 1 \in Nat /\ i <= n + 1
    BY <1>1
  <2> HIDE DEF P
  <2> QED
    BY <1>1, <2>1, FirstOutside
<1>7. q \in (i + 1)..(n + 1)
  <2>1. i \in P
    BY <1>1, <1>5
  <2>2. q # i
    BY <1>1, <1>6, <2>1
  <2> QED
    BY <1>1, <2>2
<1> DEFINE e == q - 1
<1>8. e \in i..n /\ e \in Nat /\ q = e + 1
  BY <1>1, <1>7
<1> HIDE DEF e
<1>9. (\A k \in i..e : meets(k)) /\ (e < n => ~meets(e + 1))
  <2>1. e + 1 - 1 = e
    BY <1>8
  <2>2. e < n => e + 1 \in i..n
    BY <1>1, <1>8
  <2> HIDE DEF meets
  <2> QED
    BY <1>1, <1>6, <1>8, <2>1, <2>2
<1>10. reached = i..e
  <2>1. Len(t) - 1 = n
    BY <1>1, <1>3
  <2> HIDE DEF meets
  <2>2. ASSUME NEW j \in i..n, \A k \in i..j : meets(k) PROVE j \in i..e
    <3>1. CASE j > e
      <4>1. e + 1 \in i..j /\ e < n
        BY <1>1, <1>8, <3>1
      <4> QED
        BY <1>9, <2>2, <4>1
    <3> QED
      BY <1>1, <1>8, <3>1
  <2>3. ASSUME NEW j \in i..e PROVE j \in i..n /\ \A k \in i..j : meets(k)
    BY <1>1, <1>8, <1>9
  <2> QED
    BY <2>1, <2>2, <2>3
<1>11. Max(reached \cup {i}) = e
  <2>1. i \in Int /\ e \in Int /\ i <= e
    BY <1>1, <1>8
  <2> QED
    BY <1>10, <2>1, MaxOfInterval
<1>12. merged = IF e = i THEN t
                ELSE ReplaceAt(removeRangeIndex(t, i + 1, e - i), i + 1,
                               RangeUnion(At(t, i), At(t, e)))
  BY <1>11 DEF mergeRanges
<1>13. \A k \in (i + 1)..e : RangeHasIntersection(r, s[k])
  <2>1. \A k \in (i + 1)..e : k \in (i + 1)..n /\ k \in i..e
    BY <1>1, <1>8
  <2> QED
    BY <1>4, <1>5, <1>9, <2>1
<1>14. e < n => ~RangeHasIntersection(r, s[e + 1])
  <2>1. e < n => e + 1 \in (i + 1)..n
    BY <1>1, <1>8
  <2> QED
    BY <1>4, <1>5, <1>9, <2>1
<1> HIDE DEF merged, reached, meets, P
<1>15. CASE e = i
  BY <1>2, <1>8, <1>12, <1>13, <1>14, <1>15 DEF n, merged, t
<1>16. CASE e # i
  <2> DEFINE u == RangeUnion(r, s[e])
  <2>1. e \in (i + 1)..n /\ e \in 1..n
    BY <1>1, <1>8, <1>16
  <2>2. s[e] \in Held /\ RangeHasIntersection(r, s[e])
    BY <1>1, <1>13, <2>1
  <2>3. u \in Held
    BY <2>2, UnionHeld
  <2>4. merged = ReplaceAt(removeRangeIndex(t, i + 1, e - i), i + 1, u)
    BY <1>4, <1>5, <1>12, <1>16, <2>1
  <2> HIDE DEF u
  <2>5. /\ i + 1 \in 1..Len(t) /\ e - i \in 0..(Len(t) - (i + 1))
        /\ (i + 1) - 1 = i /\ (i + 1) + (e - i) = e + 1
    BY <1>1, <1>3, <1>8
  <2>6. Spliced(merged, t, (i + 1) - 1, (i + 1) + (e - i), <<u>>)
    BY <1>3, <2>3, <2>4, <2>5, RemoveReplace, Zenon
  <2>7. Spliced(merged, t, i, e + 1, <<u>>)
    BY <2>5, <2>6
  <2>8. ASSUME NEW k \in 1..(n - e)
        PROVE  /\ k \in 1..(Len(t) - (e + 1))
               /\ t[(e + 1) + k] = s[e + k]
    <3>1. /\ (e - i) + k \in 1..(n - i) /\ i + 1 + ((e - i) + k) = (e + 1) + k
          /\ i + ((e - i) + k) = e + k
      BY <1>1, <1>8
    <3>2. t[i + 1 + ((e - i) + k)] = s[i + ((e - i) + k)]
      BY <1>3, <3>1
    <3>3. Len(t) - (e + 1) = n - e
      BY <1>1, <1>3, <1>8
    <3> QED
      BY <3>1, <3>2, <3>3
  <2>9. Len(t) - (e + 1) = n - e
    BY <1>1, <1>3, <1>8
  <2>10. Spliced(merged, s, i, e, <<u>>)
    BY <1>3, <2>7, <2>8, <2>9 DEF Spliced, n
  <2> QED
    BY <1>8, <1>13, <1>14, <1>16, <2>10 DEF n, u, merged, t
<1> QED
  BY <1>15, <1>16

\* addRange() keeps the array one, and adds the indexes of the range unless it
\* straddles two of its ranges.
LEMMA AddRangeArray ==
  ASSUME NEW s \in Arrays, NEW r \in Held
  PROVE  /\ addRange(s, r) \in Arrays
         /\ ~Straddles(s, r) => Members(addRange(s, r)) = Members(s) \cup Indexes(r)
<1> DEFINE i == leftRangeIndexForIndex(s, r.location)
           merged == mergeRanges(InsertAt(s, i + 1, r), i)
           left == IF i > 0 THEN tryToMergeAdjacentRanges(merged, i - 1) ELSE merged
           n == Len(s)
<1>1. /\ n \in Nat /\ \A k \in 1..n : s[k] \in Held
      /\ \A j, k \in 1..n : j < k => RB(s[j]) < s[k].location
  BY ArrayFacts
<1>2. /\ r.location \in Nat /\ RB(r) \in Nat /\ r.location <= RB(r)
      /\ 0 < r.location /\ r.location < UINT64_MAX /\ RB(r) <= UINT64_MAX
  BY HeldFacts
<1>3. /\ i \in 0..n
      /\ \A k \in 1..i : RB(s[k]) < r.location
      /\ i < n => r.location <= RB(s[i + 1])
  BY <1>2, LeftRange
<1>4. addRange(s, r) = IF i < Len(left) - 1 THEN tryToMergeAdjacentRanges(left, i) ELSE left
  BY DEF addRange
<1> HIDE DEF i
<1>5. PICK e \in i..n :
        /\ \A k \in (i + 1)..e : RangeHasIntersection(r, s[k])
        /\ e < n => ~RangeHasIntersection(r, s[e + 1])
        /\ Spliced(merged, s, i, e, <<IF e = i THEN r ELSE RangeUnion(r, s[e])>>)
  BY <1>3, MergeElements
<1> DEFINE u == IF e = i THEN r ELSE RangeUnion(r, s[e])
<1> HIDE DEF n, merged, left
<1>6. i \in Nat /\ e \in Nat /\ i <= e /\ e <= n
  BY <1>1, <1>3, <1>5
<1>7. \A k \in 1..n : /\ s[k].location \in Nat /\ RB(s[k]) \in Nat
                      /\ s[k].location <= RB(s[k])
  BY <1>1, HeldFacts
<1>8. ASSUME e # i
      PROVE  /\ e \in 1..n /\ e \in (i + 1)..e
             /\ r.location <= RB(s[e]) /\ s[e].location <= RB(r)
  <2>1. e \in 1..n /\ e \in (i + 1)..e
    BY <1>1, <1>6, <1>8
  <2>2. RangeHasIntersection(r, s[e])
    BY <1>5, <2>1
  <2> QED
    BY <1>1, <2>1, <2>2, Meet
\* The union lies between the ranges that are left ...
<1>9. /\ u \in Held
      /\ u.location = r.location \/ (e # i /\ u.location = s[e].location)
      /\ RB(u) = RB(r) \/ (e # i /\ RB(u) = RB(s[e]))
      /\ Indexes(u) = Indexes(r) \cup (IF e = i THEN {} ELSE Indexes(s[e]))
  <2>1. CASE e = i
    BY <2>1
  <2>2. CASE e # i
    <3>1. s[e] \in Held /\ RangeHasIntersection(r, s[e])
      BY <1>1, <1>5, <1>8, <2>2
    <3>2. u = RangeUnion(r, s[e])
      BY <2>2
    <3> QED
      BY <2>2, <3>1, <3>2, UnionHeld
  <2> QED
    BY <2>1, <2>2
<1> HIDE DEF u
<1>10. \A k \in 1..i : RB(s[k]) < u.location
  <2> SUFFICES ASSUME NEW k \in 1..i PROVE RB(s[k]) < u.location
    OBVIOUS
  <2>1. k \in 1..n
    BY <1>1, <1>6
  <2>2. e # i => k < e
    BY <1>6
  <2> QED
    BY <1>1, <1>3, <1>8, <1>9, <2>1, <2>2
<1>11. \A k \in (e + 1)..n : RB(u) < s[k].location
  <2> SUFFICES ASSUME NEW k \in (e + 1)..n PROVE RB(u) < s[k].location
    OBVIOUS
  <2>1. k \in 1..n /\ e + 1 \in 1..n /\ i + 1 \in 1..n /\ e < n
    BY <1>1, <1>6
  <2>2. s[e + 1].location <= s[k].location
    <3>1. CASE k = e + 1
      BY <1>7, <2>1, <3>1
    <3>2. CASE k > e + 1
      <4>1. RB(s[e + 1]) < s[k].location
        BY <1>1, <2>1, <3>2
      <4> QED
        BY <1>7, <2>1, <4>1
    <3> QED
      BY <1>6, <3>1, <3>2
  <2>3. r.location <= RB(s[e + 1])
    <3>1. r.location <= RB(s[i + 1])
      <4>1. i < n
        BY <1>1, <1>6, <2>1
      <4> QED
        BY <1>3, <4>1
    <3>2. CASE e = i
      BY <3>1, <3>2
    <3>3. CASE e # i
      <4>1. RB(s[i + 1]) < s[e + 1].location
        BY <1>1, <1>6, <2>1, <3>3
      <4> QED
        BY <1>2, <1>7, <2>1, <3>1, <4>1
    <3> QED
      BY <3>2, <3>3
  <2>4. RB(r) < s[e + 1].location
    <3>1. ~RangeHasIntersection(r, s[e + 1]) /\ s[e + 1] \in Held
      BY <1>1, <1>5, <2>1
    <3> QED
      BY <1>2, <1>7, <2>1, <2>3, <3>1, Meet
  <2>5. e # i => RB(s[e]) < s[e + 1].location
    BY <1>1, <1>6, <1>8, <2>1
  <2> QED
    BY <1>2, <1>7, <1>8, <1>9, <2>1, <2>2, <2>4, <2>5
<1>12. /\ <<u>> \in Arrays /\ Len(<<u>>) = 1 /\ <<u>>[1] = u
       /\ Members(<<u>>) = Indexes(u)
  BY <1>9, Single
<1>13. /\ merged \in Arrays /\ Len(merged) = i + 1 + (n - e)
       /\ \A x : x \in Members(merged) <=>
            \/ \E k \in 1..i : x \in Indexes(s[k])
            \/ x \in Members(<<u>>)
            \/ \E k \in (e + 1)..n : x \in Indexes(s[k])
  <2>1. /\ i \in 0..Len(s) /\ e \in i..Len(s) /\ <<u>> \in Arrays
        /\ Spliced(merged, s, i, e, <<u>>)
    BY <1>3, <1>5, <1>12 DEF n, u
  <2>2. \A k \in 1..i, j \in 1..Len(<<u>>) : RB(s[k]) < <<u>>[j].location
    BY <1>10, <1>12
  <2>3. \A k \in (e + 1)..Len(s), j \in 1..Len(<<u>>) : RB(<<u>>[j]) < s[k].location
    BY <1>11, <1>12 DEF n
  <2>4. Len(merged) = i + 1 + (n - e)
    BY <1>12, <2>1 DEF Spliced, n
  <2>5. merged \in Arrays /\ SplicedMembers(merged, s, i, e, <<u>>)
    BY <2>1, <2>2, <2>3, SpliceArray
  <2> QED
    BY <2>4, <2>5, Zenon DEF n, SplicedMembers
\* ... and stands for what those between them stood for.
<1>14. ASSUME ~Straddles(s, r) PROVE Members(merged) = Members(s) \cup Indexes(r)
  <2>1. ASSUME NEW k \in (i + 1)..e, k # e, NEW x \in Indexes(s[k])
        PROVE  x \in Indexes(r)
    <3>1. k \in 1..n /\ i + 1 \in 1..n /\ e \in 1..n /\ e # i /\ i + 1 < e /\ k < e
      BY <1>1, <1>6, <2>1
    <3>2. r.location <= s[i + 1].location
      <4>0. i < n
        BY <1>1, <1>6, <3>1
      <4>1. r.location <= RB(s[i + 1]) /\ s[e].location <= RB(r)
        BY <1>3, <1>8, <3>1, <4>0
      <4>2. ~(s[i + 1].location < r.location)
        BY <1>14, <3>1, <4>1 DEF Straddles, n, RB
      <4> QED
        BY <1>2, <1>7, <3>1, <4>2
    <3>3. r.location <= s[k].location
      <4>1. CASE k = i + 1
        BY <3>2, <4>1
      <4>2. CASE k # i + 1
        <5>1. RB(s[i + 1]) < s[k].location
          BY <1>1, <1>6, <3>1, <4>2
        <5> QED
          BY <1>2, <1>7, <3>1, <3>2, <5>1
      <4> QED
        BY <4>1, <4>2
    <3>4. RB(s[k]) < s[e].location /\ s[e].location <= RB(r)
      BY <1>1, <1>8, <3>1
    <3>5. s[k] \in Held
      BY <1>1, <3>1
    <3>6. x \in Nat /\ x < UINT64_MAX /\ s[k].location <= x /\ x <= RB(s[k])
      BY <2>1, <3>5, InIndexes
    <3> QED
      BY <1>2, <1>7, <3>1, <3>3, <3>4, <3>6, InIndexes
  <2>2. ASSUME NEW x, x \in Members(s) PROVE x \in Members(merged)
    <3>1. PICK k \in 1..n : x \in Indexes(s[k])
      BY <2>2, InMembers DEF n
    <3>2. CASE k \in 1..i
      BY <1>13, <3>1, <3>2
    <3>3. CASE k \in (e + 1)..n
      BY <1>13, <3>1, <3>3
    <3>4. CASE k \in (i + 1)..e
      <4>1. x \in Indexes(u)
        BY <1>6, <1>9, <2>1, <3>1, <3>4
      <4> QED
        BY <1>12, <1>13, <4>1
    <3> QED
      BY <1>1, <1>6, <3>2, <3>3, <3>4
  <2>3. ASSUME NEW x, x \in Indexes(r) PROVE x \in Members(merged)
    BY <1>9, <1>12, <1>13, <2>3
  <2>4. ASSUME NEW x, x \in Members(merged) PROVE x \in Members(s) \cup Indexes(r)
    <3>1. \A k \in 1..i : k \in 1..n
      BY <1>1, <1>6
    <3>2. \A k \in (e + 1)..n : k \in 1..n
      BY <1>1, <1>6
    <3>3. x \in Indexes(u) => x \in Indexes(r) \/ x \in Members(s)
      BY <1>8, <1>9, InMembers DEF n
    <3>4. (\E k \in 1..n : x \in Indexes(s[k])) => x \in Members(s)
      BY InMembers DEF n
    <3> QED
      BY <1>12, <1>13, <2>4, <3>1, <3>2, <3>3, <3>4
  <2> QED
    BY <2>2, <2>3, <2>4
\* What touches its neighbours is joined with them.
<1>15. left \in Arrays /\ Members(left) = Members(merged)
  <2>1. CASE i > 0
    <3>1. i - 1 \in Nat /\ (i - 1) + 1 < Len(merged)
      BY <1>1, <1>6, <1>13, <2>1
    <3> QED
      BY <1>13, <2>1, <3>1, JoinAdjacent DEF left
  <2>2. CASE ~(i > 0)
    BY <1>13, <2>2 DEF left
  <2> QED
    BY <2>1, <2>2
<1>16. addRange(s, r) \in Arrays /\ Members(addRange(s, r)) = Members(left)
  <2>1. CASE i < Len(left) - 1
    <3>1. i + 1 < Len(left)
      BY <1>6, <1>15, <2>1, ArrayFacts
    <3> QED
      BY <1>4, <1>6, <1>15, <2>1, <3>1, JoinAdjacent
  <2>2. CASE ~(i < Len(left) - 1)
    BY <1>4, <1>15, <2>2
  <2> QED
    BY <2>1, <2>2
<1> QED
  BY <1>14, <1>15, <1>16

-----------------------------------------------------------------------------
(* Folds.  One definition stands for all of those of the index set, so     *)
(* that one lemma says what they compute, step by step.                    *)

ItemRange(item) == IF item[2] = 0 THEN RangeMake(item[1], UINT64_MAX)
                   ELSE RangeMake(item[1], item[2] - item[1])

Apply(op, s, x) ==
  IF op[1] = "add" THEN addRange(s, x)
  ELSE IF op[1] = "remove" THEN removeRange(s, x)
  ELSE IF op[1] = "item" THEN addRange(s, ItemRange(x))
  ELSE IF op[1] = "meets" THEN addIndexSet(s, intersectsRange(op[2], x))
  ELSE s \o x

Folded(op, base, t) ==
  LET iter[S \in SUBSET (DOMAIN t)] ==
        IF S = {} THEN base ELSE Apply(op, iter[S \ {Max(S)}], t[Max(S)])
  IN  iter[DOMAIN t]

\* addIndexSet() is such a fold ...
LEMMA AddFold ==
  ASSUME NEW s, NEW t
  PROVE  addIndexSet(s, t) = Folded(<<"add">>, s, t)
<1>1. <<"add">>[1] = "add"
  OBVIOUS
<1> QED
  BY <1>1, Zenon DEF addIndexSet, FoldLeft, MapThenFoldSet, Folded, Apply

\* ... and removeIndexSet() ...
LEMMA RemoveFold ==
  ASSUME NEW s, NEW t
  PROVE  removeIndexSet(s, t) = Folded(<<"remove">>, s, t)
<1>1. <<"remove">>[1] = "remove" /\ "remove" # "add"
  OBVIOUS
<1> QED
  BY <1>1, Zenon DEF removeIndexSet, FoldLeft, MapThenFoldSet, Folded, Apply

\* ... and intersectsIndexSet() ...
LEMMA MeetsFold ==
  ASSUME NEW s, NEW t
  PROVE  intersectsIndexSet(s, t)
           = addIndexSet(<<>>, Folded(<<"meets", s>>, <<>>, t))
<1>1. /\ <<"meets", s>>[1] = "meets" /\ <<"meets", s>>[2] = s
      /\ "meets" # "add" /\ "meets" # "remove" /\ "meets" # "item"
  OBVIOUS
<1> QED
  BY <1>1, Zenon DEF intersectsIndexSet, FoldLeft, MapThenFoldSet, Folded, Apply

\* ... and indexSetFromSet().
LEMMA ItemsFold ==
  ASSUME NEW t
  PROVE  indexSetFromSet(t) = Folded(<<"item">>, <<>>, t)
<1>1. <<"item">>[1] = "item" /\ "item" # "add" /\ "item" # "remove"
  OBVIOUS
<1> QED
  BY <1>1, Zenon DEF indexSetFromSet, FoldLeft, MapThenFoldSet, Folded, Apply, ItemRange

\* The largest element of a set that has one.
LEMMA MaxIs ==
  ASSUME NEW S, S \subseteq Int, NEW b \in S, \A y \in S : b >= y
  PROVE  Max(S) = b
<1>1. Max(S) = CHOOSE x \in S : \A y \in S : x >= y
  BY DEF Max
<1>2. Max(S) \in S /\ \A y \in S : Max(S) >= y
  <2> DEFINE P(x) == x \in S /\ \A y \in S : x >= y
  <2>1. P(b) /\ Max(S) = CHOOSE x : P(x)
    BY <1>1
  <2> HIDE DEF P
  <2>2. P(Max(S))
    BY <2>1
  <2> QED
    BY <2>2 DEF P
<1>3. Max(S) \in Int /\ Max(S) >= b /\ b >= Max(S)
  BY <1>2
<1> QED
  BY <1>3

\* A fold goes through the elements in order: f has what it has made of the
\* first k of them.
IsPath(f, op, base, t, n) ==
  /\ f[0] = base
  /\ \A k \in 1..n : f[k] = Apply(op, f[k - 1], t[k])
  /\ f[n] = Folded(op, base, t)

FoldPath(op, base, t, n) == CHOOSE f : IsPath(f, op, base, t, n)

\* There is such a path, however the fold came to its result.
LEMMA FoldSteps ==
  ASSUME NEW op, NEW base, NEW n \in Nat, NEW t, DOMAIN t = 1..n
  PROVE  IsPath(FoldPath(op, base, t, n), op, base, t, n)
<1> DEFINE body(g, S) == IF S = {} THEN base
                         ELSE Apply(op, g[S \ {Max(S)}], t[Max(S)])
           Solves(g, m) == g = [S \in SUBSET (1..m) |-> body(g, S)]
           T == {m \in Nat : \E g : Solves(g, m)}
           iter == CHOOSE g : Solves(g, n)
<1>1. 0 \in T
  <2> DEFINE g == [S \in SUBSET (1..0) |-> base]
  <2>1. \A S \in SUBSET (1..0) : S = {}
    OBVIOUS
  <2>2. Solves(g, 0)
    BY <2>1, Zenon
  <2> HIDE DEF g, Solves
  <2> QED
    BY <2>2
<1>2. ASSUME NEW m \in Nat, m \in T PROVE m + 1 \in T
  <2>1. PICK g : Solves(g, m)
    BY <1>2
  <2> DEFINE h == [S \in SUBSET (1..(m + 1)) |->
                    IF m + 1 \in S THEN Apply(op, g[S \ {m + 1}], t[m + 1]) ELSE g[S]]
  <2>2. \A S \in SUBSET (1..m) : S \in SUBSET (1..(m + 1)) /\ m + 1 \notin S
    OBVIOUS
  <2>3. \A S \in SUBSET (1..m) : h[S] = g[S] /\ g[S] = body(g, S)
    <3> HIDE DEF body
    <3> QED
      BY <2>1, <2>2
  <2>4. ASSUME NEW S \in SUBSET (1..(m + 1))
        PROVE  (IF m + 1 \in S THEN Apply(op, g[S \ {m + 1}], t[m + 1]) ELSE g[S])
                 = body(h, S)
    <3>1. CASE m + 1 \in S
      <4>1. Max(S) = m + 1
        <5>1. S \subseteq Int /\ \A y \in S : m + 1 >= y
          OBVIOUS
        <5> QED
          BY <3>1, <5>1, MaxIs
      <4>2. S \ {m + 1} \in SUBSET (1..m)
        OBVIOUS
      <4>3. h[S \ {m + 1}] = g[S \ {m + 1}]
        BY <2>3, <4>2
      <4> HIDE DEF h
      <4> QED
        BY <3>1, <4>1, <4>3
    <3>2. CASE m + 1 \notin S
      <4>1. S \in SUBSET (1..m)
        BY <3>2
      <4>2. S \ {Max(S)} \in SUBSET (1..m)
        BY <4>1
      <4>3. h[S \ {Max(S)}] = g[S \ {Max(S)}] /\ g[S] = body(g, S)
        BY <2>3, <4>1, <4>2
      <4> HIDE DEF h
      <4> QED
        BY <3>2, <4>3
    <3> QED
      BY <3>1, <3>2
  <2>5. Solves(h, m + 1)
    <3> HIDE DEF body
    <3> QED
      BY <2>4, Zenon
  <2> HIDE DEF h, Solves
  <2> QED
    BY <2>5
<1>3. n \in T
  <2> HIDE DEF T
  <2> QED
    BY <1>1, <1>2, Induct
<1>4. Solves(iter, n)
  <2> HIDE DEF Solves
  <2> QED
    BY <1>3
<1>5. Folded(op, base, t) = iter[1..n]
  BY DEF Folded
<1> HIDE DEF iter
<1>6. \A S \in SUBSET (1..n) : iter[S] = body(iter, S)
  <2> HIDE DEF body
  <2> QED
    BY <1>4
<1> DEFINE f == [k \in 0..n |-> iter[1..k]]
<1>7. \A k \in 0..n : f[k] = iter[1..k]
  OBVIOUS
<1>8. f[0] = base
  <2>1. 1..0 = {} /\ {} \in SUBSET (1..n)
    OBVIOUS
  <2>2. iter[{}] = base
    BY <1>6, <2>1
  <2>3. f[0] = iter[1..0]
    BY <1>7
  <2> QED
    BY <2>1, <2>2, <2>3
<1>9. ASSUME NEW k \in 1..n PROVE f[k] = Apply(op, f[k - 1], t[k])
  <2>1. /\ 1..k \in SUBSET (1..n) /\ 1..k # {} /\ (1..k) \ {k} = 1..(k - 1)
        /\ k \in 0..n /\ k - 1 \in 0..n
    <3>1. 1..k \subseteq 1..n /\ k \in 0..n /\ k - 1 \in 0..n
      OBVIOUS
    <3>2. k \in 1..k
      OBVIOUS
    <3>3. \A x : x \in (1..k) \ {k} <=> x \in 1..(k - 1)
      OBVIOUS
    <3> QED
      BY <3>1, <3>2, <3>3
  <2>2. Max(1..k) = k
    <3>1. 1..k \subseteq Int /\ k \in 1..k /\ \A y \in 1..k : k >= y
      OBVIOUS
    <3> QED
      BY <3>1, MaxIs
  <2>3. iter[1..k] = Apply(op, iter[1..(k - 1)], t[k])
    <3>1. iter[1..k] = body(iter, 1..k)
      BY <1>6, <2>1
    <3> QED
      BY <2>1, <2>2, <3>1
  <2> HIDE DEF f
  <2> QED
    BY <1>7, <2>1, <2>3
<1>10. f[n] = Folded(op, base, t)
  BY <1>5, <1>7
<1> HIDE DEF f
<1>11. IsPath(f, op, base, t, n)
  BY <1>8, <1>9, <1>10 DEF IsPath
<1> QED
  BY <1>11 DEF FoldPath

\* FlattenSeq() joins the sequences one after the other.
LEMMA FlattenSteps ==
  ASSUME NEW S, NEW seqs \in Seq(Seq(S))
  PROVE  \E f : /\ f[0] = <<>>
                /\ \A k \in 1..Len(seqs) : f[k] = f[k - 1] \o seqs[k]
                /\ f[Len(seqs)] = FlattenSeq(seqs)
<1> DEFINE n == Len(seqs)
           body(g, i) == IF i = 1 THEN seqs[i] ELSE g[i - 1] \o seqs[i]
           Solves(g) == g = [i \in 1..n |-> body(g, i)]
           flatten == CHOOSE g : Solves(g)
<1>1. n \in Nat /\ DOMAIN seqs = 1..n /\ \A k \in 1..n : seqs[k] \in Seq(S)
  BY LenProperties, ElementOfSeq
<1> DEFINE f == FoldPath(<<"concat">>, <<>>, seqs, n)
<1> HIDE DEF f
<1>2. IsPath(f, <<"concat">>, <<>>, seqs, n)
  BY <1>1, FoldSteps DEF f
<1>3. \A k \in 1..n : f[k] = f[k - 1] \o seqs[k]
  <2>1. /\ <<"concat">>[1] = "concat" /\ "concat" # "add" /\ "concat" # "remove"
        /\ "concat" # "item" /\ "concat" # "meets"
    OBVIOUS
  <2>2. \A x, y : Apply(<<"concat">>, x, y) = x \o y
    BY <2>1, Zenon DEF Apply
  <2> QED
    BY <1>2, <2>2 DEF IsPath
<1>4. CASE n = 0
  <2>1. seqs = <<>>
    BY <1>4, EmptySeq
  <2>2. FlattenSeq(seqs) = <<>>
    BY <1>4, <2>1 DEF FlattenSeq
  <2> QED
    BY <1>2, <1>3, <1>4, <2>2 DEF IsPath
<1>5. CASE n # 0
  <2>1. f[1] = seqs[1]
    <3>1. 1 \in 1..n /\ 1 - 1 = 0
      BY <1>1, <1>5
    <3>2. f[1] = <<>> \o seqs[1] /\ seqs[1] \in Seq(S)
      BY <1>1, <1>2, <1>3, <3>1 DEF IsPath
    <3> QED
      BY <3>2, ConcatEmptySeq
  <2>2. \E g : Solves(g)
    <3> DEFINE g == [i \in 1..n |-> f[i]]
    <3>1. ASSUME NEW i \in 1..n PROVE f[i] = body(g, i)
      <4>1. i # 1 => i - 1 \in 1..n
        BY <1>1
      <4>2. i # 1 => g[i - 1] = f[i - 1]
        BY <4>1
      <4> HIDE DEF g
      <4> QED
        BY <1>3, <2>1, <4>2
    <3>2. Solves(g)
      <4> HIDE DEF body
      <4> QED
        BY <3>1, Zenon
    <3> HIDE DEF g, Solves
    <3> QED
      BY <3>2
  <2>3. Solves(flatten)
    <3> HIDE DEF Solves
    <3> QED
      BY <2>2
  <2>4. FlattenSeq(seqs) = flatten[n]
    BY <1>5 DEF FlattenSeq
  <2> HIDE DEF flatten
  <2>5. \A i \in 1..n : flatten[i] = body(flatten, i)
    <3> HIDE DEF body
    <3> QED
      BY <2>3
  <2> DEFINE T == {m \in Nat : m \in 1..n => flatten[m] = f[m]}
  <2>6. 0 \in T
    OBVIOUS
  <2>7. ASSUME NEW m \in Nat, m \in T PROVE m + 1 \in T
    <3> SUFFICES ASSUME m + 1 \in 1..n PROVE flatten[m + 1] = f[m + 1]
      OBVIOUS
    <3>1. CASE m = 0
      BY <2>1, <2>5, <3>1
    <3>2. CASE m # 0
      <4>1. m \in 1..n /\ (m + 1) - 1 = m /\ m + 1 # 1
        BY <1>1, <3>2
      <4>2. f[m + 1] = f[m] \o seqs[m + 1]
        BY <1>3, <4>1
      <4>3. flatten[m + 1] = flatten[m] \o seqs[m + 1]
        BY <2>5, <4>1
      <4> QED
        BY <2>7, <4>1, <4>2, <4>3
    <3> QED
      BY <3>1, <3>2
  <2>8. n \in T
    <3> HIDE DEF T
    <3> QED
      BY <1>1, <2>6, <2>7, Induct
  <2>9. flatten[n] = f[n]
    BY <1>1, <1>5, <2>8
  <2> QED
    BY <1>2, <1>3, <2>4, <2>9 DEF IsPath
<1> QED
  BY <1>4, <1>5

\* Two arrays joined, the second above the first.
LEMMA ConcatArrays ==
  ASSUME NEW s \in Arrays, NEW mid \in Arrays,
         \A x \in 1..Len(s), y \in 1..Len(mid) : RB(s[x]) < mid[y].location
  PROVE  /\ s \o mid \in Arrays
         /\ Len(s \o mid) = Len(s) + Len(mid)
         /\ \A k \in 1..(Len(s) + Len(mid)) :
              (s \o mid)[k] = IF k <= Len(s) THEN s[k] ELSE mid[k - Len(s)]
         /\ \A i : i \in Members(s \o mid) <=> i \in Members(s) \/ i \in Members(mid)
<1> DEFINE u == s \o mid
           a == Len(s)
<1>1. /\ a \in Nat /\ s \in Seq(Held)
      /\ Len(mid) \in Nat /\ mid \in Seq(Held)
  BY ArrayFacts
<1>2. /\ u \in Seq(Held) /\ Len(u) = a + Len(mid)
      /\ \A k \in 1..(a + Len(mid)) :
           u[k] = IF k <= a THEN s[k] ELSE mid[k - a]
  BY <1>1, ConcatProperties
<1> HIDE DEF u
<1>3. Spliced(u, s, a, a, mid)
  <2>1. \A k \in 1..a : k \in 1..(a + Len(mid)) /\ k <= a
    BY <1>1
  <2>2. \A k \in 1..Len(mid) : /\ a + k \in 1..(a + Len(mid))
                               /\ ~(a + k <= a) /\ (a + k) - a = k
    BY <1>1
  <2>3. \A k \in 1..Len(mid) : u[a + k] = mid[k]
    BY <1>2, <2>2
  <2>4. Len(s) - a = 0 /\ a + Len(mid) = a + Len(mid) + 0
    BY <1>1
  <2>5. ~\E k \in 1..0 : TRUE
    OBVIOUS
  <2> HIDE DEF a
  <2>6. \A k \in 1..(Len(s) - a) : u[a + Len(mid) + k] = s[a + k]
    BY <2>4, <2>5
  <2> QED
    BY <1>2, <2>1, <2>3, <2>4, <2>6 DEF Spliced
<1>4. /\ u \in Arrays
      /\ \A i : i \in Members(u) <=>
           \/ \E k \in 1..a : i \in Indexes(s[k])
           \/ i \in Members(mid)
           \/ \E k \in (a + 1)..Len(s) : i \in Indexes(s[k])
  <2>1. a \in 0..Len(s) /\ a \in a..Len(s)
    BY <1>1
  <2>2. \A k \in (a + 1)..Len(s), y \in 1..Len(mid) : RB(mid[y]) < s[k].location
    BY <1>1
  <2>3. \A k \in 1..a, j \in 1..Len(mid) : RB(s[k]) < mid[j].location
    OBVIOUS
  <2> HIDE DEF a
  <2>4. u \in Arrays /\ SplicedMembers(u, s, a, a, mid)
    BY <1>3, <2>1, <2>2, <2>3, SpliceArray
  <2> QED
    BY <2>4, Zenon DEF SplicedMembers
<1>5. ~\E k \in (a + 1)..Len(s) : TRUE
  BY <1>1
<1>6. \A i : (\E k \in 1..a : i \in Indexes(s[k])) <=> i \in Members(s)
  BY InMembers
<1> QED
  BY <1>2, <1>4, <1>5, <1>6 DEF u

\* Arrays joined to one, when the ranges of each lie above those before.
LEMMA FlattenArrays ==
  ASSUME NEW seqs \in Seq(Arrays),
         \A j, k \in 1..Len(seqs) : j < k =>
           \A x \in 1..Len(seqs[j]), y \in 1..Len(seqs[k]) :
             RB(seqs[j][x]) < seqs[k][y].location
  PROVE  /\ FlattenSeq(seqs) \in Arrays
         /\ \A x \in 1..Len(FlattenSeq(seqs)) :
              \E j \in 1..Len(seqs) : \E y \in 1..Len(seqs[j]) :
                FlattenSeq(seqs)[x] = seqs[j][y]
         /\ \A i : i \in Members(FlattenSeq(seqs)) <=>
                     \E j \in 1..Len(seqs) : i \in Members(seqs[j])
<1> DEFINE n == Len(seqs)
<1>1. n \in Nat /\ \A k \in 1..n : seqs[k] \in Arrays
  BY LenProperties, ElementOfSeq
<1>2. PICK f : /\ f[0] = <<>>
               /\ \A k \in 1..n : f[k] = f[k - 1] \o seqs[k]
               /\ f[n] = FlattenSeq(seqs)
  <2>1. seqs \in Seq(Seq(Held))
    BY DEF Arrays
  <2> QED
    BY <2>1, FlattenSteps
<1> DEFINE from(u, m) == \A x \in 1..Len(u) :
                           \E j \in 1..m : \E y \in 1..Len(seqs[j]) :
                             u[x] = seqs[j][y]
           holds(u, m) == \A i : i \in Members(u) <=>
                                   \E j \in 1..m : i \in Members(seqs[j])
           T == {m \in Nat : m <= n => f[m] \in Arrays /\ from(f[m], m) /\ holds(f[m], m)}
<1>3. 0 \in T
  BY <1>2, NoRange
<1>4. ASSUME NEW m \in Nat, m \in T PROVE m + 1 \in T
  <2> SUFFICES ASSUME m + 1 <= n
               PROVE  /\ f[m + 1] \in Arrays
                      /\ from(f[m + 1], m + 1) /\ holds(f[m + 1], m + 1)
    <3> HIDE DEF from, holds, n
    <3> QED
      OBVIOUS
  <2> DEFINE s == f[m]
             mid == seqs[m + 1]
             u == f[m + 1]
  <2>1. s \in Arrays /\ from(s, m) /\ holds(s, m)
    <3>1. m <= n
      BY <1>1
    <3> HIDE DEF from, holds, n
    <3> QED
      BY <1>4, <3>1
  <2>2. m + 1 \in 1..n /\ (m + 1) - 1 = m /\ mid \in Arrays
    BY <1>1
  <2>3. u = s \o mid
    BY <1>2, <2>2
  <2> HIDE DEF s, mid, u, n
  <2>4. Len(s) \in Nat /\ Len(mid) \in Nat
    BY <2>1, <2>2, ArrayFacts
  <2>7. \A x \in 1..Len(s), y \in 1..Len(mid) : RB(s[x]) < mid[y].location
    <3> SUFFICES ASSUME NEW x \in 1..Len(s), NEW y \in 1..Len(mid)
                 PROVE  RB(s[x]) < mid[y].location
      OBVIOUS
    <3>1. PICK j \in 1..m : \E z \in 1..Len(seqs[j]) : s[x] = seqs[j][z]
      BY <2>1
    <3>2. j \in 1..n /\ j < m + 1
      BY <1>1, <2>2
    <3> QED
      BY <2>2, <3>1, <3>2 DEF mid, n
  <2>8. /\ u \in Arrays /\ Len(u) = Len(s) + Len(mid)
        /\ \A k \in 1..(Len(s) + Len(mid)) :
             u[k] = IF k <= Len(s) THEN s[k] ELSE mid[k - Len(s)]
        /\ \A i : i \in Members(u) <=> i \in Members(s) \/ i \in Members(mid)
    <3>1. s \in Arrays
      BY <2>1
    <3> HIDE DEF from, holds
    <3> QED
      BY <2>2, <2>3, <2>7, <3>1, ConcatArrays
  <2>9. from(u, m + 1)
    <3> SUFFICES ASSUME NEW x \in 1..Len(u)
                 PROVE  \E j \in 1..(m + 1) : \E y \in 1..Len(seqs[j]) : u[x] = seqs[j][y]
      OBVIOUS
    <3>1. CASE x <= Len(s)
      <4>1. x \in 1..Len(s) /\ u[x] = s[x]
        BY <2>4, <2>8, <3>1
      <4>2. PICK j \in 1..m : \E y \in 1..Len(seqs[j]) : s[x] = seqs[j][y]
        BY <2>1, <4>1
      <4>3. j \in 1..(m + 1)
        OBVIOUS
      <4> QED
        BY <4>1, <4>2, <4>3
    <3>2. CASE x > Len(s)
      <4>1. x - Len(s) \in 1..Len(mid) /\ u[x] = mid[x - Len(s)]
        BY <2>4, <2>8, <3>2
      <4>2. m + 1 \in 1..(m + 1)
        OBVIOUS
      <4> QED
        BY <4>1, <4>2 DEF mid
    <3> QED
      BY <2>4, <2>8, <3>1, <3>2
  <2>10. holds(u, m + 1)
    <3> SUFFICES ASSUME NEW i
                 PROVE  i \in Members(u) <=> \E j \in 1..(m + 1) : i \in Members(seqs[j])
      OBVIOUS
    <3>1. \A j \in 1..(m + 1) : j \in 1..m \/ j = m + 1
      OBVIOUS
    <3>2. m + 1 \in 1..(m + 1) /\ \A j \in 1..m : j \in 1..(m + 1)
      OBVIOUS
    <3>3. i \in Members(s) <=> \E j \in 1..m : i \in Members(seqs[j])
      BY <2>1
    <3> QED
      BY <2>8, <3>1, <3>2, <3>3 DEF mid
  <2> QED
    BY <2>8, <2>9, <2>10 DEF u
<1>5. n \in T
  <2> HIDE DEF T
  <2> QED
    BY <1>1, <1>3, <1>4, Induct
<1>6. f[n] \in Arrays /\ from(f[n], n) /\ holds(f[n], n)
  BY <1>1, <1>5
<1> QED
  BY <1>2, <1>6

-----------------------------------------------------------------------------
(* Removing a range.                                                       *)

\* What may be removed: a range may begin at 0 here.
Cutters == {r \in Ranges : r.location <= UINT32_MAX
                           /\ (RB(r) = UINT64_MAX \/ RB(r) < UINT32_MAX)}

\* The bounds of a range to cut out.
LEMMA CutterFacts ==
  ASSUME NEW r \in Cutters
  PROVE  /\ r \in Ranges /\ r.location \in Nat /\ RB(r) \in Nat
         /\ r.location <= RB(r) /\ r.location <= UINT32_MAX
         /\ r.location < UINT64_MAX /\ RB(r) <= UINT64_MAX
         /\ RB(r) = UINT64_MAX \/ RB(r) < UINT32_MAX
         /\ UINT32_MAX \in Nat /\ UINT32_MAX < UINT64_MAX
BY RangeFacts, RightBound, IndexSetAssumption DEF Cutters, RB

\* The bounds of what two ranges have in common are bounds of theirs.
LEMMA CutBound ==
  ASSUME NEW r1 \in Held, NEW r \in Cutters, RangeHasIntersection(r1, r)
  PROVE  LET cut == RangeIntersection(r1, r)
         IN  /\ cut.location <= UINT32_MAX
             /\ RB(cut) = UINT64_MAX \/ RB(cut) < UINT32_MAX
<1> DEFINE left == IF r1.location > r.location THEN r1.location ELSE r.location
           right == IF RB(r1) < RB(r) THEN RB(r1) ELSE RB(r)
<1>1. /\ r1.location \in Nat /\ r.location \in Nat /\ RB(r1) \in Nat /\ RB(r) \in Nat
      /\ r1.location <= RB(r1) /\ r.location <= RB(r)
      /\ RB(r1) <= UINT64_MAX /\ RB(r) <= UINT64_MAX
      /\ RB(r1) = UINT64_MAX \/ RB(r1) < UINT32_MAX
      /\ RB(r) = UINT64_MAX \/ RB(r) < UINT32_MAX
      /\ r1.location <= UINT32_MAX /\ r.location <= UINT32_MAX
  BY HeldFacts, CutterFacts
<1>2. ~(RB(r) < r1.location \/ RB(r1) < r.location)
  BY DEF RangeHasIntersection, RangeIntersection, RangeEmpty, RangeMake, RB
<1>3. RangeIntersection(r1, r) = Between(left, right)
  BY <1>2 DEF RangeIntersection, RB
<1>4. left \in Nat /\ right \in Nat /\ left <= right /\ right <= UINT64_MAX
  BY <1>1, <1>2
<1>5. RB(Between(left, right)) = right /\ Between(left, right).location = left
  BY <1>4, BetweenFacts DEF RB
<1>6. left <= UINT32_MAX /\ (right = UINT64_MAX \/ right < UINT32_MAX)
  BY <1>1
<1> QED
  BY <1>3, <1>5, <1>6

\* What is left of a range of the array may be in its place: it lies between
\* the bounds of the range, in order, and stands for what is not removed.
LEMMA CutHeld ==
  ASSUME NEW r1 \in Held, NEW r \in Cutters
  PROVE  LET rest == RangeRemoveRange(r1, r)
         IN  /\ rest \in Arrays
             /\ \A k \in 1..Len(rest) :
                  r1.location <= rest[k].location /\ RB(rest[k]) <= RB(r1)
             /\ Members(rest) = Indexes(r1) \ Indexes(r)
<1> DEFINE rest == RangeRemoveRange(r1, r)
           cut == RangeIntersection(r1, r)
           right1 == RB(r1)
           right2 == RB(cut)
           below == RangeMake(r1.location, cut.location - r1.location - 1)
           above == Between(right2 + 1, right1)
           hasBelow == cut.location > r1.location
           hasAbove == right2 # UINT64_MAX /\ (right1 = UINT64_MAX \/ right2 < right1)
           fits(x) == x \in Held /\ r1.location <= x.location /\ RB(x) <= RB(r1)
<1>0. r1 \in Ranges /\ r \in Ranges
  BY HeldFacts, CutterFacts
<1>1. Members(rest) = Indexes(r1) \ Indexes(r)
  <2>1. \A i \in Uint64 : i \in Indexes(r1) \ Indexes(r)
                            <=> \E k \in 1..Len(rest) : i \in Indexes(rest[k])
    BY <1>0, RemovalIsExact
  <2>2. \A x : Indexes(x) \subseteq Uint64
    BY DEF Indexes
  <2> HIDE DEF rest
  <2>3. \A i : i \in Members(rest) <=> \E k \in 1..Len(rest) : i \in Indexes(rest[k])
    BY InMembers
  <2> QED
    BY <2>1, <2>2, <2>3
<1>2. CASE ~RangeHasIntersection(r1, r)
  <2>1. rest = <<r1>>
    BY <1>2 DEF RangeRemoveRange
  <2>2. fits(r1)
    BY HeldFacts
  <2> QED
    BY <1>1, <2>1, <2>2, Single
<1>3. CASE RangeHasIntersection(r1, r)
  <2>1. /\ cut.location \in Nat /\ right2 \in Nat
        /\ r1.location <= cut.location /\ cut.location <= right2
        /\ cut.location < UINT64_MAX
        /\ right2 <= right1
    BY <1>0, <1>3, IntersectionBounds DEF RB
  <2>2. cut.location <= UINT32_MAX /\ (right2 = UINT64_MAX \/ right2 < UINT32_MAX)
    BY <1>3, CutBound
  <2>3. /\ r1.location \in Nat /\ right1 \in Nat /\ 0 < r1.location
        /\ r1.location < UINT64_MAX /\ right1 <= UINT64_MAX
        /\ right1 = UINT64_MAX \/ right1 < UINT32_MAX
        /\ r1.location <= UINT32_MAX
        /\ UINT32_MAX \in Nat /\ UINT32_MAX < UINT64_MAX
    BY HeldFacts
  <2> HIDE DEF cut, right1, right2
  <2>4. ASSUME hasBelow PROVE fits(below) /\ RB(below) = cut.location - 1
    <3>1. /\ below.location = r1.location
          /\ below.length = cut.location - r1.location - 1
      BY DEF RangeMake
    <3>2. RB(below) = cut.location - 1
      BY <2>1, <2>3, <2>4, <3>1, RangeAssumption DEF RangeRightBound, Wrap, RB
    <3>3. below \in Ranges
      <4>1. below = [location |-> r1.location, length |-> cut.location - r1.location - 1]
        BY DEF RangeMake
      <4>2. /\ r1.location \in Uint64 /\ cut.location - r1.location - 1 \in Uint64
            /\ r1.location + (cut.location - r1.location - 1) <= UINT64_MAX
        BY <2>1, <2>3, <2>4, RangeAssumption DEF Uint64
      <4> QED
        BY <2>3, <3>1, <4>1, <4>2 DEF Ranges
    <3> HIDE DEF below
    <3> QED
      BY <2>1, <2>2, <2>3, <2>4, <3>1, <3>2, <3>3, RangeAssumption DEF Held, right1
  <2>5. ASSUME hasAbove PROVE fits(above) /\ above.location = right2 + 1
    <3>1. /\ right2 + 1 \in Nat /\ right1 \in Nat
          /\ right2 + 1 <= right1 /\ right2 + 1 < UINT64_MAX /\ right1 <= UINT64_MAX
          /\ right2 + 1 <= UINT32_MAX
      BY <2>1, <2>2, <2>3, <2>5, RangeAssumption
    <3>2. above.location = right2 + 1 /\ RB(above) = right1 /\ above \in Ranges
      BY <3>1, BetweenFacts DEF RB
    <3> HIDE DEF above
    <3> QED
      BY <2>1, <2>3, <3>1, <3>2 DEF Held, right1
  <2>6. rest = (IF hasBelow THEN <<below>> ELSE <<>>)
                 \o (IF hasAbove THEN <<above>> ELSE <<>>)
    BY <1>3 DEF RangeRemoveRange, RB, cut, right1, right2
  <2> HIDE DEF rest, below, above, hasBelow, hasAbove
  <2>7. CASE hasBelow /\ hasAbove
    <3>1. rest = <<below>> \o <<above>>
      BY <2>6, <2>7, Zenon
    <3>2. Len(rest) = 2 /\ rest[1] = below /\ rest[2] = above
      BY <3>1, Pieces
    <3>3. <<below>> \in Arrays /\ <<above>> \in Arrays
      BY <2>4, <2>5, <2>7, Single
    <3>4. \A x \in 1..Len(<<below>>), y \in 1..Len(<<above>>) :
            RB(<<below>>[x]) < <<above>>[y].location
      <4>1. RB(below) < above.location
        BY <2>1, <2>4, <2>5, <2>7
      <4>2. /\ Len(<<below>>) = 1 /\ <<below>>[1] = below
            /\ Len(<<above>>) = 1 /\ <<above>>[1] = above
        OBVIOUS
      <4>3. \A x \in 1..1 : x = 1
        OBVIOUS
      <4> QED
        BY <4>1, <4>2, <4>3
    <3>5. rest \in Arrays
      BY <3>1, <3>3, <3>4, ConcatArrays
    <3>6. \A k \in 1..Len(rest) : k = 1 \/ k = 2
      BY <3>2
    <3> QED
      BY <1>1, <2>4, <2>5, <2>7, <3>2, <3>5, <3>6 DEF rest
  <2>8. CASE hasBelow /\ ~hasAbove
    <3>1. rest = <<below>> \o <<>>
      BY <2>6, <2>8, Zenon
    <3>2. <<below>> \in Seq(Held)
      BY <2>4, <2>8
    <3>3. rest = <<below>>
      BY <3>1, <3>2, ConcatEmptySeq
    <3> QED
      BY <1>1, <2>4, <2>8, <3>3, Single DEF rest
  <2>9. CASE ~hasBelow /\ hasAbove
    <3>1. rest = <<>> \o <<above>>
      BY <2>6, <2>9, Zenon
    <3>2. <<above>> \in Seq(Held)
      BY <2>5, <2>9
    <3>3. rest = <<above>>
      BY <3>1, <3>2, ConcatEmptySeq
    <3> QED
      BY <1>1, <2>5, <2>9, <3>3, Single DEF rest
  <2>10. CASE ~hasBelow /\ ~hasAbove
    <3>1. rest = <<>>
      BY <2>6, <2>10
    <3> QED
      BY <1>1, <3>1, NoRange DEF rest
  <2> QED
    BY <2>7, <2>8, <2>9, <2>10
<1> QED
  BY <1>2, <1>3

\* removeRange() keeps the array one and takes away the indexes of the range.
LEMMA RemoveRangeArray ==
  ASSUME NEW s \in Arrays, NEW r \in Cutters
  PROVE  /\ removeRange(s, r) \in Arrays
         /\ Members(removeRange(s, r)) = Members(s) \ Indexes(r)
<1> DEFINE left == leftRangeIndexForIndex(s, r.location)
           N == Len(s)
           meets(k) == RangeHasIntersection(At(s, k), r)
           P == {k \in left..(N - 1) : meets(k)}
           hit == {j \in left..(N - 1) : \A k \in left..j : meets(k)}
           n == Cardinality(hit)
           pieces == [k \in 1..n |-> RangeRemoveRange(s[left + k], r)]
           mid == FlattenSeq(pieces)
<1>1. /\ N \in Nat /\ s \in Seq(Held) /\ \A k \in 1..N : s[k] \in Held
      /\ \A j, k \in 1..N : j < k => RB(s[j]) < s[k].location
  BY ArrayFacts
<1>2. /\ r \in Ranges /\ r.location \in Nat /\ RB(r) \in Nat /\ r.location <= RB(r)
  BY CutterFacts
<1>3. /\ left \in 0..N
      /\ \A k \in 1..left : RB(s[k]) < r.location
      /\ left < N => r.location <= RB(s[left + 1])
  BY <1>2, LeftRange
<1>4. removeRange(s, r) = Splice(s, left, left + n, mid)
  BY DEF removeRange, Splice
<1> HIDE DEF left, N
<1>5. \A k \in 1..N : /\ s[k].location \in Nat /\ RB(s[k]) \in Nat
                      /\ s[k].location <= RB(s[k]) /\ s[k] \in Ranges
  BY <1>1, HeldFacts
\* The ranges that are hit are those from left + 1 to q.
<1>6. PICK q \in left..N : (\A k \in left..(q - 1) : k \in P) /\ (q < N => q \notin P)
  <2>1. left \in Nat /\ N \in Nat /\ left <= N
    BY <1>1, <1>3
  <2> HIDE DEF P
  <2> QED
    BY <2>1, FirstOutside
<1>7. left \in Nat /\ q \in Nat /\ left <= q /\ q <= N
  BY <1>1, <1>3, <1>6
<1>8. (\A k \in left..(q - 1) : meets(k)) /\ (q < N => ~meets(q))
  <2>1. q < N => q \in left..(N - 1)
    BY <1>1, <1>7
  <2> HIDE DEF meets
  <2> QED
    BY <1>6, <2>1
<1>9. hit = left..(q - 1)
  <2> HIDE DEF meets
  <2>1. ASSUME NEW j \in left..(N - 1), \A k \in left..j : meets(k)
        PROVE  j \in left..(q - 1)
    <3>1. CASE j >= q
      <4>1. q \in left..j /\ q < N
        BY <1>1, <1>7, <3>1
      <4> QED
        BY <1>8, <2>1, <4>1
    <3> QED
      BY <1>7, <3>1
  <2>2. ASSUME NEW j \in left..(q - 1)
        PROVE  j \in left..(N - 1) /\ \A k \in left..j : meets(k)
    BY <1>1, <1>7, <1>8
  <2> QED
    BY <2>1, <2>2
<1>10. n = q - left
  <2>1. left \in Int /\ q - 1 \in Int
    BY <1>7
  <2>2. Cardinality(left..(q - 1))
          = IF left > q - 1 THEN 0 ELSE (q - 1) - left + 1
    BY <2>1, FS_Interval
  <2>3. n = Cardinality(left..(q - 1))
    BY <1>9
  <2> QED
    BY <1>7, <2>2, <2>3
<1> HIDE DEF hit, n, P
<1>11. /\ n \in Nat /\ left + n = q
       /\ \A k \in 1..n : left + k \in 1..N /\ left + k \in (left + 1)..q
  BY <1>1, <1>7, <1>10
\* What is left of them.
<1>12. ASSUME NEW k \in 1..n
       PROVE  /\ pieces[k] \in Arrays
              /\ \A x \in 1..Len(pieces[k]) :
                   /\ s[left + k].location <= pieces[k][x].location
                   /\ RB(pieces[k][x]) <= RB(s[left + k])
              /\ Members(pieces[k]) = Indexes(s[left + k]) \ Indexes(r)
  <2>1. s[left + k] \in Held
    BY <1>1, <1>11
  <2>2. pieces[k] = RangeRemoveRange(s[left + k], r)
    OBVIOUS
  <2> QED
    BY <2>1, <2>2, CutHeld
<1>13. pieces \in Seq(Arrays) /\ Len(pieces) = n
  <2>1. \A k \in 1..n : pieces[k] \in Arrays
    BY <1>12
  <2>2. pieces \in [1..n -> Arrays]
    <3>1. pieces = [k \in 1..n |-> pieces[k]]
      OBVIOUS
    <3> HIDE DEF pieces
    <3> QED
      BY <2>1, <3>1
  <2> HIDE DEF pieces
  <2> QED
    BY <1>11, <2>2
<1> HIDE DEF pieces
<1>14. ASSUME NEW j \in 1..n, NEW k \in 1..n, j < k,
              NEW x \in 1..Len(pieces[j]), NEW y \in 1..Len(pieces[k])
       PROVE  RB(pieces[j][x]) < pieces[k][y].location
  <2>1. RB(s[left + j]) < s[left + k].location
    <3>1. left + j \in 1..N /\ left + k \in 1..N /\ left + j < left + k
      BY <1>7, <1>11, <1>14
    <3> QED
      BY <1>1, <3>1
  <2>2. /\ RB(pieces[j][x]) <= RB(s[left + j])
        /\ s[left + k].location <= pieces[k][y].location
    BY <1>12
  <2>3. /\ RB(s[left + j]) \in Nat /\ s[left + k].location \in Nat
    BY <1>5, <1>11
  <2>4. RB(pieces[j][x]) \in Nat /\ pieces[k][y].location \in Nat
    <3>1. pieces[j][x] \in Held /\ pieces[k][y] \in Held
      BY <1>12, ArrayFacts
    <3> QED
      BY <3>1, HeldFacts
  <2> QED
    BY <2>1, <2>2, <2>3, <2>4
<1>15. /\ mid \in Arrays
       /\ \A x \in 1..Len(mid) :
            \E j \in 1..n : \E y \in 1..Len(pieces[j]) : mid[x] = pieces[j][y]
       /\ \A i : i \in Members(mid) <=> \E j \in 1..n : i \in Members(pieces[j])
  BY <1>13, <1>14, FlattenArrays
<1> HIDE DEF mid
<1>16. ASSUME NEW x \in 1..Len(mid)
       PROVE  \E h \in (left + 1)..q :
                /\ h \in 1..N
                /\ s[h].location <= mid[x].location /\ RB(mid[x]) <= RB(s[h])
                /\ RB(mid[x]) \in Nat /\ mid[x].location \in Nat
  <2>1. PICK j \in 1..n : \E y \in 1..Len(pieces[j]) : mid[x] = pieces[j][y]
    BY <1>15
  <2>2. mid[x] \in Held
    BY <1>15, ArrayFacts
  <2> QED
    BY <1>11, <1>12, <2>1, <2>2, HeldFacts
<1>17. \A k \in 1..left, x \in 1..Len(mid) : RB(s[k]) < mid[x].location
  <2> SUFFICES ASSUME NEW k \in 1..left, NEW x \in 1..Len(mid)
               PROVE  RB(s[k]) < mid[x].location
    OBVIOUS
  <2>1. PICK h \in (left + 1)..q :
          h \in 1..N /\ s[h].location <= mid[x].location /\ mid[x].location \in Nat
    BY <1>16
  <2>2. k \in 1..N /\ k < h
    BY <1>1, <1>7, <2>1
  <2> QED
    BY <1>1, <1>5, <2>1, <2>2
<1>18. \A k \in (q + 1)..N, x \in 1..Len(mid) : RB(mid[x]) < s[k].location
  <2> SUFFICES ASSUME NEW k \in (q + 1)..N, NEW x \in 1..Len(mid)
               PROVE  RB(mid[x]) < s[k].location
    OBVIOUS
  <2>1. PICK h \in (left + 1)..q :
          h \in 1..N /\ RB(mid[x]) <= RB(s[h]) /\ RB(mid[x]) \in Nat
    BY <1>16
  <2>2. k \in 1..N /\ h < k
    BY <1>1, <1>7, <2>1
  <2>3. RB(s[h]) < s[k].location
    BY <1>1, <2>1, <2>2
  <2>4. RB(s[h]) \in Nat /\ s[k].location \in Nat
    BY <1>5, <2>1, <2>2
  <2> QED
    BY <2>1, <2>3, <2>4
<1> DEFINE u == removeRange(s, r)
<1> HIDE DEF u
<1>19. Spliced(u, s, left, q, mid)
  <2>1. left \in 0..Len(s) /\ q \in left..Len(s) /\ mid \in Seq(Held)
    BY <1>1, <1>7, <1>15, ArrayFacts DEF N
  <2>2. u = Splice(s, left, q, mid)
    BY <1>4, <1>11 DEF u
  <2> QED
    BY <1>1, <2>1, <2>2, SpliceElements
<1>20. /\ u \in Arrays
       /\ \A i : i \in Members(u) <=>
            \/ \E k \in 1..left : i \in Indexes(s[k])
            \/ i \in Members(mid)
            \/ \E k \in (q + 1)..N : i \in Indexes(s[k])
  <2>1. left \in 0..Len(s) /\ q \in left..Len(s) /\ mid \in Arrays
    BY <1>1, <1>7, <1>15 DEF N
  <2>2. \A k \in (q + 1)..Len(s), x \in 1..Len(mid) : RB(mid[x]) < s[k].location
    BY <1>18 DEF N
  <2>3. u \in Arrays /\ SplicedMembers(u, s, left, q, mid)
    BY <1>17, <1>19, <2>1, <2>2, SpliceArray
  <2> QED
    BY <2>3, Zenon DEF N, SplicedMembers
\* Those before and after have nothing of it.
<1>21. ASSUME NEW k \in 1..N, k \notin (left + 1)..q, NEW i \in Indexes(s[k])
       PROVE  i \notin Indexes(r)
  <2>1. i \in Nat /\ s[k].location <= i /\ i <= RB(s[k])
    BY <1>1, <1>21, InIndexes
  <2>2. i \in Indexes(r) => r.location <= i /\ i <= RB(r)
    BY DEF Indexes, RB
  <2>3. CASE k \in 1..left
    <3>1. RB(s[k]) < r.location
      BY <1>3, <2>3
    <3> QED
      BY <1>2, <1>5, <2>1, <2>2, <3>1
  <2>4. CASE k \in (q + 1)..N
    <3>1. q < N /\ q + 1 \in 1..N /\ left < N /\ left + 1 \in 1..N
      BY <1>1, <1>7, <2>4
    <3>2. r.location <= RB(s[q + 1])
      <4>1. r.location <= RB(s[left + 1])
        BY <1>3, <3>1
      <4>2. CASE q = left
        BY <4>1, <4>2
      <4>3. CASE q # left
        <5>1. RB(s[left + 1]) < s[q + 1].location
          BY <1>1, <1>7, <3>1, <4>3
        <5> QED
          BY <1>2, <1>5, <3>1, <4>1, <5>1
      <4> QED
        BY <4>2, <4>3
    <3>3. RB(r) < s[q + 1].location
      <4>1. ~RangeHasIntersection(s[q + 1], r)
        BY <1>8, <3>1 DEF At
      <4>2. ~(s[q + 1].location <= RB(r) /\ r.location <= RB(s[q + 1]))
        BY <1>2, <1>5, <3>1, <4>1, MeetRanges
      <4> QED
        BY <1>2, <1>5, <3>1, <3>2, <4>2
    <3>4. s[q + 1].location <= s[k].location
      <4>1. CASE k = q + 1
        BY <1>5, <4>1
      <4>2. CASE k # q + 1
        <5>1. RB(s[q + 1]) < s[k].location
          BY <1>1, <1>7, <2>4, <3>1, <4>2
        <5> QED
          BY <1>5, <3>1, <5>1
      <4> QED
        BY <4>1, <4>2
    <3> QED
      BY <1>2, <1>5, <2>1, <2>2, <3>1, <3>3, <3>4
  <2> QED
    BY <1>1, <1>7, <1>21, <2>3, <2>4
<1>22. ASSUME NEW i
       PROVE  i \in Members(mid) <=>
                \E k \in (left + 1)..q : i \in Indexes(s[k]) /\ i \notin Indexes(r)
  <2>1. ASSUME NEW j \in 1..n, i \in Members(pieces[j])
        PROVE  left + j \in (left + 1)..q /\ i \in Indexes(s[left + j]) \ Indexes(r)
    BY <1>11, <1>12, <2>1
  <2>2. ASSUME NEW k \in (left + 1)..q, i \in Indexes(s[k]), i \notin Indexes(r)
        PROVE  k - left \in 1..n /\ i \in Members(pieces[k - left])
    <3>1. k - left \in 1..n /\ left + (k - left) = k
      BY <1>7, <1>10
    <3>2. Members(pieces[k - left]) = Indexes(s[left + (k - left)]) \ Indexes(r)
      BY <1>12, <3>1
    <3> QED
      BY <2>2, <3>1, <3>2
  <2> QED
    BY <1>15, <2>1, <2>2
<1>23. ASSUME NEW i PROVE i \in Members(u) <=> i \in Members(s) \ Indexes(r)
  <2>1. i \in Members(s) <=> \E k \in 1..N : i \in Indexes(s[k])
    BY InMembers DEF N
  <2>2. /\ \A k \in 1..left : k \in 1..N /\ k \notin (left + 1)..q
        /\ \A k \in (q + 1)..N : k \in 1..N /\ k \notin (left + 1)..q
        /\ \A k \in (left + 1)..q : k \in 1..N
        /\ \A k \in 1..N : k \in 1..left \/ k \in (left + 1)..q \/ k \in (q + 1)..N
    BY <1>1, <1>7
  <2> QED
    BY <1>20, <1>21, <1>22, <2>1, <2>2
<1> QED
  BY <1>20, <1>23 DEF u

-----------------------------------------------------------------------------
(* Adding, removing and intersecting whole sets, one range after another.  *)

\* What Apply() does for each of the folds.
LEMMA ApplyCases ==
  ASSUME NEW s, NEW x, NEW y
  PROVE  /\ Apply(<<"add">>, x, y) = addRange(x, y)
         /\ Apply(<<"remove">>, x, y) = removeRange(x, y)
         /\ Apply(<<"item">>, x, y) = addRange(x, ItemRange(y))
         /\ Apply(<<"meets", s>>, x, y) = addIndexSet(x, intersectsRange(s, y))
<1>1. /\ <<"add">>[1] = "add" /\ <<"remove">>[1] = "remove" /\ <<"item">>[1] = "item"
      /\ <<"meets", s>>[1] = "meets" /\ <<"meets", s>>[2] = s
      /\ "remove" # "add" /\ "item" # "add" /\ "item" # "remove"
      /\ "meets" # "add" /\ "meets" # "remove" /\ "meets" # "item"
  OBVIOUS
<1> QED
  BY <1>1, Zenon DEF Apply

\* What comes of adding ranges one after the other, as long as none straddles
\* two of the ranges there are by then.
Made(u, s, t, n) ==
  \A i : i \in Members(u) <=> i \in Members(s) \/ \E j \in 1..n : i \in Indexes(t[j])

\* Adding the ranges one by one makes what Made() says.
LEMMA AddSteps ==
  ASSUME NEW n \in Nat, NEW s \in Arrays, NEW t, NEW f, f[0] = s,
         \A k \in 1..n : t[k] \in Held /\ f[k] = addRange(f[k - 1], t[k]),
         \A k \in 1..n : f[k - 1] \in Arrays /\ Made(f[k - 1], s, t, k - 1)
                           => ~Straddles(f[k - 1], t[k])
  PROVE  f[n] \in Arrays /\ Made(f[n], s, t, n)
<1> DEFINE T == {k \in Nat : k <= n => f[k] \in Arrays /\ Made(f[k], s, t, k)}
<1>1. 0 \in T
  BY DEF Made
<1>2. ASSUME NEW m \in Nat, m \in T PROVE m + 1 \in T
  <2> SUFFICES ASSUME m + 1 <= n PROVE f[m + 1] \in Arrays /\ Made(f[m + 1], s, t, m + 1)
    OBVIOUS
  <2>1. f[m] \in Arrays /\ Made(f[m], s, t, m)
    BY <1>2
  <2>2. m + 1 \in 1..n /\ (m + 1) - 1 = m
    OBVIOUS
  <2>3. t[m + 1] \in Held /\ f[m + 1] = addRange(f[m], t[m + 1])
    BY <2>2
  <2>4. ~Straddles(f[m], t[m + 1])
    BY <2>1, <2>2
  <2>5. /\ f[m + 1] \in Arrays
        /\ Members(f[m + 1]) = Members(f[m]) \cup Indexes(t[m + 1])
    BY <2>1, <2>3, <2>4, AddRangeArray
  <2>6. \A j \in 1..(m + 1) : j \in 1..m \/ j = m + 1
    OBVIOUS
  <2>7. m + 1 \in 1..(m + 1) /\ \A j \in 1..m : j \in 1..(m + 1)
    OBVIOUS
  <2> QED
    BY <2>1, <2>5, <2>6, <2>7 DEF Made
<1>3. n \in T
  <2> HIDE DEF T
  <2> QED
    BY <1>1, <1>2, Induct
<1> QED
  BY <1>3

\* In any case it is an array.
LEMMA AddIndexSetArray ==
  ASSUME NEW s \in Arrays, NEW t \in Seq(Held)
  PROVE  addIndexSet(s, t) \in Arrays
<1> DEFINE n == Len(t)
           f == FoldPath(<<"add">>, s, t, n)
           T == {k \in Nat : k <= n => f[k] \in Arrays}
<1>1. n \in Nat /\ DOMAIN t = 1..n /\ \A k \in 1..n : t[k] \in Held
  BY LenProperties, ElementOfSeq
<1> HIDE DEF f
<1>2. IsPath(f, <<"add">>, s, t, n)
  BY <1>1, FoldSteps DEF f
<1>3. /\ f[0] = s /\ f[n] = addIndexSet(s, t)
      /\ \A k \in 1..n : f[k] = addRange(f[k - 1], t[k])
  BY <1>2, AddFold, ApplyCases DEF IsPath
<1>4. 0 \in T
  BY <1>3
<1>5. ASSUME NEW m \in Nat, m \in T PROVE m + 1 \in T
  <2> SUFFICES ASSUME m + 1 <= n PROVE f[m + 1] \in Arrays
    OBVIOUS
  <2>1. f[m] \in Arrays /\ m + 1 \in 1..n /\ (m + 1) - 1 = m
    BY <1>1, <1>5
  <2> QED
    BY <1>1, <1>3, <2>1, AddRangeArray
<1>6. n \in T
  <2> HIDE DEF T
  <2> QED
    BY <1>1, <1>4, <1>5, Induct
<1> QED
  BY <1>1, <1>3, <1>6

\* What has been added of a set is what its first ranges add.
LEMMA AddPrefix ==
  ASSUME NEW s \in Arrays, NEW t \in Seq(Held), NEW k \in 1..Len(t)
  PROVE  addIndexSet(s, SubSeq(t, 1, k - 1)) = FoldPath(<<"add">>, s, t, Len(t))[k - 1]
<1> DEFINE n == Len(t)
           f == FoldPath(<<"add">>, s, t, n)
           p == SubSeq(t, 1, k - 1)
           g == FoldPath(<<"add">>, s, p, k - 1)
           T == {m \in Nat : m <= k - 1 => g[m] = f[m]}
<1>1. /\ n \in Nat /\ DOMAIN t = 1..n /\ \A j \in 1..n : t[j] \in Held
      /\ k - 1 \in Nat /\ k - 1 < n
  BY LenProperties, ElementOfSeq
<1>2. p \in Seq(Held) /\ Len(p) = k - 1 /\ \A j \in 1..(k - 1) : p[j] = t[j]
  <2>1. \A j \in 1..(k - 1) : t[j] \in Held
    BY <1>1
  <2>2. /\ p \in Seq(Held)
        /\ Len(p) = IF 1 <= k - 1 THEN (k - 1) - 1 + 1 ELSE 0
        /\ \A j \in 1..((k - 1) - 1 + 1) : p[j] = t[1 + j - 1]
    BY <1>1, <2>1, SubSeqProperties
  <2> HIDE DEF p
  <2>3. Len(p) = k - 1
    BY <1>1, <2>2
  <2>4. ASSUME NEW j \in 1..(k - 1) PROVE p[j] = t[j]
    <3>1. 1 + j - 1 = j /\ j \in 1..((k - 1) - 1 + 1)
      BY <1>1
    <3> QED
      BY <2>2, <3>1
  <2> QED
    BY <2>2, <2>3, <2>4
<1> HIDE DEF f, g, p, n
<1>3. DOMAIN p = 1..(k - 1)
  BY <1>2, LenProperties
<1>4. IsPath(f, <<"add">>, s, t, n)
  BY <1>1, FoldSteps DEF f
<1>5. IsPath(g, <<"add">>, s, p, k - 1)
  BY <1>1, <1>3, FoldSteps DEF g
<1>6. 0 \in T
  BY <1>4, <1>5 DEF IsPath
<1>7. ASSUME NEW m \in Nat, m \in T PROVE m + 1 \in T
  <2> SUFFICES ASSUME m + 1 <= k - 1 PROVE g[m + 1] = f[m + 1]
    OBVIOUS
  <2>1. /\ g[m] = f[m] /\ m + 1 \in 1..n /\ m + 1 \in 1..(k - 1) /\ (m + 1) - 1 = m
    BY <1>1, <1>7
  <2>2. f[m + 1] = Apply(<<"add">>, f[m], t[m + 1])
    BY <1>4, <2>1 DEF IsPath
  <2>3. g[m + 1] = Apply(<<"add">>, g[m], p[m + 1])
    BY <1>5, <2>1 DEF IsPath
  <2> QED
    BY <1>2, <2>1, <2>2, <2>3
<1>8. k - 1 \in T
  <2> HIDE DEF T
  <2> QED
    BY <1>1, <1>6, <1>7, Induct
<1>9. g[k - 1] = addIndexSet(s, p)
  BY <1>5, AddFold DEF IsPath
<1> QED
  BY <1>1, <1>8, <1>9 DEF f, p, n

\* addIndexSet() adds the indexes of the other set.
LEMMA AddIndexSetExact ==
  ASSUME NEW s \in Arrays, NEW t \in Seq(Held),
         \A k \in 1..Len(t) : ~Straddles(addIndexSet(s, SubSeq(t, 1, k - 1)), t[k])
  PROVE  Members(addIndexSet(s, t)) = Members(s) \cup Members(t)
<1> DEFINE n == Len(t)
           f == FoldPath(<<"add">>, s, t, n)
<1>1. n \in Nat /\ DOMAIN t = 1..n /\ \A k \in 1..n : t[k] \in Held
  BY LenProperties, ElementOfSeq
<1>2. IsPath(f, <<"add">>, s, t, n)
  BY <1>1, FoldSteps
<1>3. \A k \in 1..n : addIndexSet(s, SubSeq(t, 1, k - 1)) = f[k - 1]
  BY AddPrefix
<1> HIDE DEF f
<1>4. /\ f[0] = s /\ f[n] = addIndexSet(s, t)
      /\ \A k \in 1..n : f[k] = addRange(f[k - 1], t[k])
  BY <1>2, AddFold, ApplyCases DEF IsPath
<1>5. \A k \in 1..n : ~Straddles(f[k - 1], t[k])
  BY <1>3
<1>6. \A i : i \in Members(t) <=> \E j \in 1..n : i \in Indexes(t[j])
  BY InMembers
<1> HIDE DEF n
<1>7. Made(f[n], s, t, n)
  <2>1. \A k \in 1..n : t[k] \in Held /\ f[k] = addRange(f[k - 1], t[k])
    BY <1>1, <1>4
  <2>2. \A k \in 1..n : f[k - 1] \in Arrays /\ Made(f[k - 1], s, t, k - 1)
                            => ~Straddles(f[k - 1], t[k])
    BY <1>5
  <2> QED
    BY <1>1, <1>4, <2>1, <2>2, AddSteps
<1> QED
  BY <1>4, <1>6, <1>7 DEF Made

\* A range that begins above all indexes straddles nothing.
LEMMA BeyondStraddlesNothing ==
  ASSUME NEW s \in Arrays, NEW r \in Held, \A i \in Members(s) : i < r.location
  PROVE  ~Straddles(s, r)
<1> SUFFICES ASSUME NEW j \in 1..Len(s),
                    s[j].location < r.location, r.location <= RangeRightBound(s[j])
             PROVE  FALSE
  BY DEF Straddles
<1>1. s[j] \in Held /\ r.location \in Nat /\ r.location < UINT64_MAX
      /\ s[j].location \in Nat
  BY ArrayFacts, HeldFacts
<1>2. r.location \in Indexes(s[j])
  BY <1>1, InIndexes DEF RB
<1>3. r.location \in Members(s)
  BY <1>2, InMembers
<1> QED
  BY <1>1, <1>3

\* Nor do those of an array that does.
LEMMA AddStepsBeyond ==
  ASSUME NEW s \in Arrays, NEW t \in Arrays, NEW f, f[0] = s,
         \A k \in 1..Len(t) : f[k] = addRange(f[k - 1], t[k]),
         \A i \in Members(s), j \in 1..Len(t) : i < t[j].location
  PROVE  /\ f[Len(t)] \in Arrays
         /\ Members(f[Len(t)]) = Members(s) \cup Members(t)
<1> DEFINE n == Len(t)
<1>1. /\ n \in Nat /\ \A k \in 1..n : t[k] \in Held
      /\ \A j, k \in 1..n : j < k => RB(t[j]) < t[k].location
  BY ArrayFacts
<1>2. \A i : i \in Members(t) <=> \E j \in 1..n : i \in Indexes(t[j])
  BY InMembers
<1>3. ASSUME NEW k \in 1..n, f[k - 1] \in Arrays, Made(f[k - 1], s, t, k - 1)
      PROVE  ~Straddles(f[k - 1], t[k])
  <2>1. f[k - 1] \in Arrays /\ t[k] \in Held
    BY <1>1, <1>3
  <2>2. ASSUME NEW i \in Members(f[k - 1]) PROVE i < t[k].location
    <3>1. CASE i \in Members(s)
      BY <3>1
    <3>2. ASSUME NEW j \in 1..(k - 1), i \in Indexes(t[j]) PROVE i < t[k].location
      <4>1. j \in 1..n /\ j < k
        BY <1>1
      <4>2. RB(t[j]) < t[k].location /\ t[j] \in Held
        BY <1>1, <4>1
      <4>3. i \in Nat /\ i <= RB(t[j]) /\ RB(t[j]) \in Nat /\ t[k].location \in Nat
        BY <2>1, <3>2, <4>2, InIndexes, HeldFacts
      <4> QED
        BY <4>2, <4>3
    <3> QED
      BY <1>3, <3>1, <3>2 DEF Made
  <2> QED
    BY <2>1, <2>2, BeyondStraddlesNothing
<1>4. \A k \in 1..n : t[k] \in Held /\ f[k] = addRange(f[k - 1], t[k])
  BY <1>1
<1> HIDE DEF n
<1>5. f[n] \in Arrays /\ Made(f[n], s, t, n)
  BY <1>1, <1>3, <1>4, AddSteps
<1> QED
  BY <1>2, <1>5 DEF Made, n

\* The same when every range lies beyond those there are.
LEMMA AddBeyond ==
  ASSUME NEW s \in Arrays, NEW t \in Arrays,
         \A i \in Members(s), j \in 1..Len(t) : i < t[j].location
  PROVE  /\ addIndexSet(s, t) \in Arrays
         /\ Members(addIndexSet(s, t)) = Members(s) \cup Members(t)
<1> DEFINE f == FoldPath(<<"add">>, s, t, Len(t))
<1>1. Len(t) \in Nat /\ DOMAIN t = 1..Len(t)
  BY ArrayFacts
<1>2. IsPath(f, <<"add">>, s, t, Len(t))
  BY <1>1, FoldSteps
<1> HIDE DEF f
<1>3. /\ f[0] = s /\ f[Len(t)] = addIndexSet(s, t)
      /\ \A k \in 1..Len(t) : f[k] = addRange(f[k - 1], t[k])
  BY <1>2, AddFold, ApplyCases DEF IsPath
<1> QED
  BY <1>3, AddStepsBeyond

\* removeIndexSet() takes away the indexes of the other set.
LEMMA RemoveIndexSetExact ==
  ASSUME NEW s \in Arrays, NEW t \in Arrays
  PROVE  /\ removeIndexSet(s, t) \in Arrays
         /\ Members(removeIndexSet(s, t)) = Members(s) \ Members(t)
<1> DEFINE n == Len(t)
           f == FoldPath(<<"remove">>, s, t, n)
           left(k) == \A i : i \in Members(f[k]) <=>
                        i \in Members(s) /\ ~\E j \in 1..k : i \in Indexes(t[j])
           T == {k \in Nat : k <= n => f[k] \in Arrays /\ left(k)}
<1>1. n \in Nat /\ DOMAIN t = 1..n /\ \A k \in 1..n : t[k] \in Held
  BY ArrayFacts
<1>2. IsPath(f, <<"remove">>, s, t, n)
  BY <1>1, FoldSteps
<1> HIDE DEF f
<1>3. /\ f[0] = s /\ f[n] = removeIndexSet(s, t)
      /\ \A k \in 1..n : f[k] = removeRange(f[k - 1], t[k])
  <2>1. f[n] = Folded(<<"remove">>, s, t) /\ f[0] = s
    BY <1>2 DEF IsPath
  <2>2. \A k \in 1..n : f[k] = Apply(<<"remove">>, f[k - 1], t[k])
    BY <1>2 DEF IsPath
  <2>3. \A x, y : Apply(<<"remove">>, x, y) = removeRange(x, y)
    BY ApplyCases, Zenon
  <2> QED
    BY <2>1, <2>2, <2>3, RemoveFold
<1>4. 0 \in T
  BY <1>3
<1>5. ASSUME NEW m \in Nat, m \in T PROVE m + 1 \in T
  <2> SUFFICES ASSUME m + 1 <= n PROVE f[m + 1] \in Arrays /\ left(m + 1)
    <3> HIDE DEF left, n
    <3> QED
      OBVIOUS
  <2>1. f[m] \in Arrays /\ left(m)
    BY <1>1, <1>5
  <2>2. m + 1 \in 1..n /\ (m + 1) - 1 = m
    BY <1>1
  <2>3. t[m + 1] \in Cutters /\ f[m + 1] = removeRange(f[m], t[m + 1])
    BY <1>1, <1>3, <2>2 DEF Held, Cutters
  <2>4. /\ f[m + 1] \in Arrays
        /\ Members(f[m + 1]) = Members(f[m]) \ Indexes(t[m + 1])
    BY <2>1, <2>3, RemoveRangeArray
  <2>5. \A j \in 1..(m + 1) : j \in 1..m \/ j = m + 1
    OBVIOUS
  <2>6. m + 1 \in 1..(m + 1) /\ \A j \in 1..m : j \in 1..(m + 1)
    OBVIOUS
  <2> QED
    BY <2>1, <2>4, <2>5, <2>6
<1>6. n \in T
  <2> HIDE DEF T
  <2> QED
    BY <1>1, <1>4, <1>5, Induct
<1>7. f[n] \in Arrays /\ left(n)
  BY <1>1, <1>6
<1>8. \A i : i \in Members(t) <=> \E j \in 1..n : i \in Indexes(t[j])
  BY InMembers
<1> QED
  BY <1>3, <1>7, <1>8

\* intersectsRange() keeps the indexes of the range.
LEMMA IntersectsRangeExact ==
  ASSUME NEW s \in Arrays, NEW r \in Held
  PROVE  /\ intersectsRange(s, r) \in Arrays
         /\ Members(intersectsRange(s, r)) = Members(s) \cap Indexes(r)
<1> DEFINE right == RangeRightBound(r)
           low == RangeMake(0, Wrap(r.location - 1))
           high == RangeMake(right + 1, UINT64_MAX)
           below == removeRange(s, low)
<1>1. /\ r.location \in Nat /\ right \in Nat /\ 0 < r.location
      /\ r.location <= right /\ r.location < UINT64_MAX /\ right <= UINT64_MAX
      /\ right = UINT64_MAX \/ right < UINT32_MAX
      /\ r.location <= UINT32_MAX /\ UINT32_MAX \in Nat /\ UINT32_MAX < UINT64_MAX
  BY HeldFacts DEF RB
<1>2. ASSUME NEW i \in Members(s) PROVE i \in Nat /\ i < UINT64_MAX /\ i \in Uint64
  <2>1. PICK k \in 1..Len(s) : i \in Indexes(s[k])
    BY InMembers
  <2> QED
    BY <2>1, ArrayFacts, InIndexes DEF Indexes
<1>3. low \in Cutters /\ \A i \in Uint64 : i \in Indexes(low) <=> i < r.location
  <2>1. low = [location |-> 0, length |-> r.location - 1]
    BY <1>1, RangeAssumption DEF RangeMake, Wrap
  <2>2. low.location = 0 /\ low.length = r.location - 1
    BY <2>1
  <2>3. RB(low) = r.location - 1
    BY <1>1, <2>2, RangeAssumption DEF RB, RangeRightBound, Wrap
  <2>4. low \in Ranges
    <3>1. 0 \in Uint64 /\ r.location - 1 \in Uint64 /\ 0 + (r.location - 1) <= UINT64_MAX
      BY <1>1, RangeAssumption DEF Uint64
    <3> QED
      BY <1>1, <2>1, <2>2, <3>1, RangeAssumption DEF Ranges
  <2> HIDE DEF low
  <2>5. low \in Cutters
    BY <1>1, <2>2, <2>3, <2>4, RangeAssumption DEF Cutters
  <2>6. \A i \in Uint64 : i \in Indexes(low) <=> i < r.location
    BY <1>1, <2>2, <2>3, RangeAssumption DEF Indexes, RB, Uint64
  <2> QED
    BY <2>5, <2>6
<1> HIDE DEF low, high, right, below
<1>4. below \in Arrays /\ Members(below) = Members(s) \ Indexes(low)
  BY <1>3, RemoveRangeArray DEF below
<1>5. \A i \in Members(s) : i \in Indexes(r) <=> r.location <= i /\ i <= right
  BY <1>2 DEF Indexes, right
<1>6. CASE right = UINT64_MAX
  <2>1. intersectsRange(s, r) = below
    BY <1>6 DEF intersectsRange, right, below, low
  <2>2. \A i \in Members(s) : i <= right
    BY <1>1, <1>2, <1>6
  <2>3. \A i \in Members(s) : i \in Indexes(low) <=> ~(r.location <= i)
    BY <1>1, <1>2, <1>3
  <2> QED
    BY <1>4, <1>5, <2>1, <2>2, <2>3
<1>7. CASE right # UINT64_MAX
  <2>1. intersectsRange(s, r) = removeRange(below, high)
    BY <1>7 DEF intersectsRange, right, below, low, high
  <2>2. high = [location |-> right + 1, length |-> UINT64_MAX]
    BY DEF high, RangeMake
  <2>3. high.location = right + 1 /\ high.length = UINT64_MAX /\ RB(high) = UINT64_MAX
    BY <2>2 DEF RB, RangeRightBound
  <2>4. high \in Cutters
    <3>1. right + 1 \in Uint64 /\ UINT64_MAX \in Uint64 /\ right + 1 < UINT64_MAX
          /\ right + 1 <= UINT32_MAX
      BY <1>1, <1>7, RangeAssumption DEF Uint64
    <3> QED
      BY <2>2, <2>3, <3>1 DEF Ranges, Cutters
  <2>5. /\ removeRange(below, high) \in Arrays
        /\ Members(removeRange(below, high)) = Members(below) \ Indexes(high)
    BY <1>4, <2>4, RemoveRangeArray
  <2>6. \A i \in Members(s) : i \in Indexes(high) <=> ~(i <= right)
    BY <1>1, <1>2, <1>7, <2>3, RangeAssumption DEF Indexes, RB
  <2>7. \A i \in Members(s) : i \in Indexes(low) <=> ~(r.location <= i)
    BY <1>1, <1>2, <1>3
  <2> QED
    BY <1>4, <1>5, <2>1, <2>5, <2>6, <2>7
<1> QED
  BY <1>6, <1>7

\* intersectsIndexSet() keeps the indexes of the other set: what it collects of
\* one range of the other set lies below what it collects of the next.
LEMMA IntersectsIndexSetExact ==
  ASSUME NEW s \in Arrays, NEW t \in Arrays
  PROVE  /\ intersectsIndexSet(s, t) \in Arrays
         /\ Members(intersectsIndexSet(s, t)) = Members(s) \cap Members(t)
<1> DEFINE n == Len(t)
           f == FoldPath(<<"meets", s>>, <<>>, t, n)
           kept(k) == \A i : i \in Members(f[k]) <=>
                        i \in Members(s) /\ \E j \in 1..k : i \in Indexes(t[j])
           T == {k \in Nat : k <= n => f[k] \in Arrays /\ kept(k)}
<1>1. /\ n \in Nat /\ DOMAIN t = 1..n /\ \A k \in 1..n : t[k] \in Held
      /\ \A j, k \in 1..n : j < k => RB(t[j]) < t[k].location
  BY ArrayFacts
<1>2. IsPath(f, <<"meets", s>>, <<>>, t, n)
  BY <1>1, FoldSteps
<1> HIDE DEF f
<1>3. /\ f[0] = <<>> /\ intersectsIndexSet(s, t) = addIndexSet(<<>>, f[n])
      /\ \A k \in 1..n : f[k] = addIndexSet(f[k - 1], intersectsRange(s, t[k]))
  BY <1>2, MeetsFold, ApplyCases DEF IsPath
<1>4. 0 \in T
  BY <1>3, NoRange
<1>5. ASSUME NEW m \in Nat, m \in T PROVE m + 1 \in T
  <2> SUFFICES ASSUME m + 1 <= n PROVE f[m + 1] \in Arrays /\ kept(m + 1)
    <3> HIDE DEF kept, n
    <3> QED
      OBVIOUS
  <2> DEFINE r == t[m + 1]
             p == intersectsRange(s, r)
  <2>1. f[m] \in Arrays /\ kept(m)
    BY <1>1, <1>5
  <2>2. m + 1 \in 1..n /\ (m + 1) - 1 = m /\ r \in Held
    BY <1>1
  <2>3. f[m + 1] = addIndexSet(f[m], p)
    BY <1>3, <2>2
  <2>4. p \in Arrays /\ Members(p) = Members(s) \cap Indexes(r)
    BY <2>2, IntersectsRangeExact
  <2>5. ASSUME NEW i \in Members(f[m]), NEW j \in 1..Len(p)
        PROVE  i < p[j].location
    <3>1. PICK h \in 1..m : i \in Indexes(t[h])
      BY <2>1
    <3>2. h \in 1..n /\ h < m + 1
      BY <1>1, <2>2
    <3>3. RB(t[h]) < r.location /\ t[h] \in Held
      BY <1>1, <2>2, <3>2
    <3>4. i \in Nat /\ i <= RB(t[h]) /\ RB(t[h]) \in Nat /\ r.location \in Nat
      BY <2>2, <3>1, <3>3, InIndexes, HeldFacts
    <3>5. p[j] \in Held
      BY <2>4, ArrayFacts
    <3>6. p[j].location \in Nat /\ p[j].location \in Indexes(p[j])
      BY <3>5, HeldFacts, InIndexes
    <3>7. p[j].location \in Indexes(r)
      BY <2>4, <3>6, InMembers
    <3>8. r.location <= p[j].location
      BY <2>2, <3>7, InIndexes
    <3> QED
      BY <3>3, <3>4, <3>6, <3>8
  <2> HIDE DEF p, r
  <2>6. /\ f[m + 1] \in Arrays
        /\ Members(f[m + 1]) = Members(f[m]) \cup Members(p)
    BY <2>1, <2>3, <2>4, <2>5, AddBeyond
  <2>7. \A j \in 1..(m + 1) : j \in 1..m \/ j = m + 1
    OBVIOUS
  <2>8. m + 1 \in 1..(m + 1) /\ \A j \in 1..m : j \in 1..(m + 1)
    OBVIOUS
  <2> QED
    BY <2>1, <2>4, <2>6, <2>7, <2>8 DEF r
<1>6. n \in T
  <2> HIDE DEF T
  <2> QED
    BY <1>1, <1>4, <1>5, Induct
<1>7. f[n] \in Arrays /\ kept(n)
  BY <1>1, <1>6
<1>8. \A i : i \in Members(t) <=> \E j \in 1..n : i \in Indexes(t[j])
  BY InMembers
<1>9. /\ addIndexSet(<<>>, f[n]) \in Arrays
      /\ Members(addIndexSet(<<>>, f[n])) = Members(f[n])
  <2> DEFINE none == <<>>
  <2>1. none \in Arrays /\ Members(none) = {}
    BY NoRange
  <2>2. f[n] \in Arrays
    BY <1>7
  <2> HIDE DEF none
  <2>3. \A i \in Members(none), j \in 1..Len(f[n]) : i < f[n][j].location
    BY <2>1
  <2>4. /\ addIndexSet(none, f[n]) \in Arrays
        /\ Members(addIndexSet(none, f[n])) = Members(none) \cup Members(f[n])
    BY <2>1, <2>2, <2>3, AddBeyond
  <2> QED
    BY <2>1, <2>4 DEF none
<1> QED
  BY <1>3, <1>7, <1>8, <1>9

-----------------------------------------------------------------------------
(* The sets of the protocol.                                               *)

\* Numbers of 32 bits are not cut down.
LEMMA Uint32Same ==
  ASSUME NEW x \in Nat, x <= UINT32_MAX
  PROVE  Uint32(x) = x
<1> DEFINE m == UINT32_MAX + 1
<1>1. m \in Nat /\ m > 0 /\ x < m
  BY IndexSetAssumption
<1> HIDE DEF m
<1>2. x % m = x
  BY <1>1
<1> QED
  BY <1>2 DEF Uint32, m

\* A range comes back from the protocol with its bounds.
LEMMA ItemBack ==
  ASSUME NEW r \in Held
  PROVE  LET last == IF RangeRightBound(r) = UINT64_MAX THEN 0
                     ELSE RangeRightBound(r)
             item == <<Uint32(r.location), Uint32(last)>>
             back == ItemRange(item)
         IN  back \in Held /\ back.location = r.location /\ RB(back) = RB(r)
<1> DEFINE last == IF RangeRightBound(r) = UINT64_MAX THEN 0 ELSE RangeRightBound(r)
           item == <<Uint32(r.location), Uint32(last)>>
           back == ItemRange(item)
<1>1. /\ r.location <= UINT32_MAX
      /\ r.location \in Nat /\ RB(r) \in Nat /\ 0 < r.location
      /\ r.location <= RB(r) /\ r.location < UINT64_MAX /\ RB(r) <= UINT64_MAX
      /\ RB(r) = UINT64_MAX \/ RB(r) < UINT32_MAX
  BY HeldFacts
<1>2. item[1] = r.location /\ item[2] = last
  <2>1. last \in Nat /\ last <= UINT32_MAX
    BY <1>1, IndexSetAssumption DEF RB
  <2> HIDE DEF last
  <2>2. Uint32(r.location) = r.location /\ Uint32(last) = last
    BY <1>1, <2>1, Uint32Same
  <2> QED
    BY <2>2
<1> HIDE DEF item
<1>3. CASE RB(r) = UINT64_MAX
  <2>1. back = [location |-> r.location, length |-> UINT64_MAX]
    BY <1>2, <1>3 DEF ItemRange, RangeMake, RB
  <2>2. back.location = r.location /\ back.length = UINT64_MAX
    BY <2>1
  <2>3. RB(back) = UINT64_MAX
    BY <2>2 DEF RB, RangeRightBound
  <2>4. r.location \in Uint64 /\ UINT64_MAX \in Uint64
    BY <1>1, RangeAssumption DEF Uint64
  <2>5. back \in Ranges
    BY <1>1, <2>1, <2>2, <2>4 DEF Ranges
  <2> QED
    BY <1>1, <1>3, <2>2, <2>3, <2>5 DEF Held, item
<1>4. CASE RB(r) # UINT64_MAX
  <2>1. last = RB(r) /\ last # 0
    BY <1>1, <1>4 DEF RB
  <2> HIDE DEF last
  <2>2. back = [location |-> r.location, length |-> last - r.location]
    BY <1>2, <2>1 DEF ItemRange, RangeMake
  <2>3. back.location = r.location /\ back.length = last - r.location
    BY <2>2
  <2>4. /\ r.location \in Uint64 /\ last - r.location \in Uint64
        /\ r.location + (last - r.location) = last
        /\ last - r.location # UINT64_MAX /\ last <= UINT64_MAX
    BY <1>1, <1>4, <2>1, RangeAssumption DEF Uint64
  <2>5. RB(back) = last
    BY <1>1, <2>1, <2>3, <2>4, RangeAssumption DEF RB, RangeRightBound, Wrap
  <2>6. back \in Ranges
    BY <1>1, <2>2, <2>3, <2>4 DEF Ranges
  <2>7. back \in Held /\ back.location = r.location /\ RB(back) = RB(r)
    BY <1>1, <1>4, <2>1, <2>3, <2>5, <2>6 DEF Held
  <2> QED
    BY <2>7 DEF item, last
<1> QED
  BY <1>3, <1>4

\* The set sent to the server comes back with the same members.
LEMMA SetBack ==
  ASSUME NEW s \in Arrays
  PROVE  Members(indexSetFromSet(setFromIndexSet(s))) = Members(s)
<1> DEFINE n == Len(s)
           set == setFromIndexSet(s)
           t == [k \in 1..n |-> ItemRange(set[k])]
           none == <<>>
           f == FoldPath(<<"item">>, none, set, n)
<1>1. /\ n \in Nat /\ \A k \in 1..n : s[k] \in Held
      /\ \A j, k \in 1..n : j < k => RB(s[j]) < s[k].location
  BY ArrayFacts
<1>2. DOMAIN set = 1..n
  BY DEF setFromIndexSet
<1>3. ASSUME NEW k \in 1..n
      PROVE  /\ t[k] = ItemRange(set[k]) /\ t[k] \in Held
             /\ t[k].location = s[k].location /\ RB(t[k]) = RB(s[k])
  <2>1. set[k] = <<Uint32(s[k].location),
                   Uint32(IF RangeRightBound(s[k]) = UINT64_MAX THEN 0
                          ELSE RangeRightBound(s[k]))>>
    BY DEF setFromIndexSet
  <2>2. t[k] = ItemRange(set[k]) /\ s[k] \in Held
    BY <1>1
  <2> HIDE DEF set, t
  <2> QED
    BY <2>1, <2>2, ItemBack
<1>4. Len(t) = n /\ t \in Seq(Held)
  <2>1. t = [k \in 1..n |-> t[k]]
    OBVIOUS
  <2> HIDE DEF t
  <2>2. t \in [1..n -> Held]
    BY <1>3, <2>1
  <2> QED
    BY <1>1, <2>2
<1> HIDE DEF t, set, n, none, f
<1>5. t \in Arrays
  BY <1>1, <1>3, <1>4 DEF Arrays, Sorted
<1>6. \A k \in 1..n : Indexes(t[k]) = Indexes(s[k])
  BY <1>3 DEF Indexes, RB
<1>7. Members(t) = Members(s)
  <2>1. \A i : i \in Members(t) <=> \E k \in 1..n : i \in Indexes(t[k])
    BY <1>4, InMembers
  <2>2. \A i : i \in Members(s) <=> \E k \in 1..n : i \in Indexes(s[k])
    BY InMembers DEF n
  <2> QED
    BY <1>6, <2>1, <2>2
<1>8. IsPath(f, <<"item">>, none, set, n)
  BY <1>1, <1>2, FoldSteps DEF f
<1>9. \A k \in 1..n : f[k] = addRange(f[k - 1], t[k])
  <2>1. \A k \in 1..n : f[k] = Apply(<<"item">>, f[k - 1], set[k])
    BY <1>8 DEF IsPath
  <2>2. \A x, y : Apply(<<"item">>, x, y) = addRange(x, ItemRange(y))
    BY ApplyCases, Zenon
  <2> QED
    BY <1>3, <2>1, <2>2
<1>10. f[0] = none /\ f[n] = indexSetFromSet(set)
  BY <1>8, ItemsFold DEF IsPath, none
<1>11. none \in Arrays /\ Members(none) = {}
  BY NoRange DEF none
<1>12. \A i \in Members(none), j \in 1..n : i < t[j].location
  BY <1>11
<1>13. Members(f[n]) = Members(none) \cup Members(t)
  BY <1>4, <1>5, <1>9, <1>10, <1>11, <1>12, AddStepsBeyond
<1> QED
  BY <1>7, <1>10, <1>11, <1>13 DEF set

\* The commands of a copy, move or store, joined, are the whole set.
LEMMA SplitJoined ==
  ASSUME NEW S, NEW set \in Seq(S)
  PROVE  FlattenSeq(splitSet(set)) = set
<1> DEFINE N == Len(set)
           chunks == splitSet(set)
           C == Len(chunks)
           commands == (N + splitCount - 1) \div splitCount
           before(c) == (c - 1) * splitCount
           piece(c) == SubSeq(set, (c - 1) * splitCount + 1,
                              IF c = commands THEN N ELSE c * splitCount)
<1>1. /\ N \in Nat /\ splitCount \in Nat /\ splitCount >= 1
      /\ \A k \in 1..N : set[k] \in S
  BY LenProperties, ElementOfSeq, IndexSetAssumption
<1>2. commands \in Nat /\ (commands = 0 => N = 0)
  BY <1>1, Z3
<1>3. C = commands /\ chunks = [c \in 1..commands |-> piece(c)]
  <2>1. chunks = [c \in 1..commands |-> piece(c)]
    BY DEF splitSet
  <2> HIDE DEF piece, commands, chunks
  <2> QED
    BY <1>2, <2>1
<1> HIDE DEF chunks, commands, piece
<1>4. ASSUME NEW c \in 1..C
      PROVE  /\ chunks[c] \in Seq(S)
             /\ Len(chunks[c]) \in 1..splitCount
             /\ before(c) + Len(chunks[c]) <= N
             /\ c = C => before(c) + Len(chunks[c]) = N
             /\ c # C => Len(chunks[c]) = splitCount
             /\ \A k \in 1..Len(chunks[c]) : chunks[c][k] = set[before(c) + k]
  BY SplitIsExact DEF chunks
<1>5. chunks \in Seq(Seq(S)) /\ C \in Nat
  <2>1. DOMAIN chunks = 1..C /\ C \in Nat
    BY <1>2, <1>3
  <2>2. chunks = [c \in 1..C |-> chunks[c]]
    BY <1>3
  <2>3. chunks \in [1..C -> Seq(S)]
    BY <1>4, <2>2
  <2> QED
    BY <2>1, <2>3
<1>6. PICK f : /\ f[0] = <<>>
               /\ \A k \in 1..C : f[k] = f[k - 1] \o chunks[k]
               /\ f[C] = FlattenSeq(chunks)
  BY <1>5, FlattenSteps
<1> DEFINE upto(u, m) == /\ u \in Seq(S) /\ Len(u) = m
                         /\ \A k \in 1..m : u[k] = set[k]
           T == {c \in Nat : c <= C =>
                   /\ upto(f[c], Len(f[c]))
                   /\ c # C => Len(f[c]) = c * splitCount
                   /\ c = C => Len(f[c]) = N}
<1>7. 0 \in T
  <2>1. Len(<<>>) = 0 /\ <<>> \in Seq(S) /\ 0 * splitCount = 0
    BY <1>1
  <2>2. 0 = C => N = 0
    BY <1>2, <1>3
  <2>3. f[0] \in Seq(S) /\ Len(f[0]) = 0
    BY <1>6, <2>1
  <2>4. upto(f[0], Len(f[0]))
    BY <2>3
  <2> HIDE DEF upto
  <2>5. 0 # C => Len(f[0]) = 0 * splitCount
    BY <2>1, <2>3
  <2>6. 0 = C => Len(f[0]) = N
    BY <2>2, <2>3
  <2> QED
    BY <2>4, <2>5, <2>6
<1>8. ASSUME NEW m \in Nat, m \in T PROVE m + 1 \in T
  <2> SUFFICES ASSUME m + 1 <= C
               PROVE  /\ upto(f[m + 1], Len(f[m + 1]))
                      /\ m + 1 # C => Len(f[m + 1]) = (m + 1) * splitCount
                      /\ m + 1 = C => Len(f[m + 1]) = N
    OBVIOUS
  <2> DEFINE a == m * splitCount
             u == f[m]
             v == f[m + 1]
             chunk == chunks[m + 1]
  <2>1. m + 1 \in 1..C /\ m # C /\ m <= C /\ (m + 1) - 1 = m
    BY <1>5
  <2>2. upto(u, a)
    BY <1>8, <2>1
  <2>3. a \in Nat /\ (m + 1) * splitCount = a + splitCount
    BY <1>1, Z3
  <2>4. v = u \o chunk
    BY <1>6, <2>1
  <2>5. before(m + 1) = a
    BY <2>1
  <2> HIDE DEF a, u, v, chunk
  <2>6. /\ chunk \in Seq(S) /\ Len(chunk) \in 1..splitCount
        /\ m + 1 = C => a + Len(chunk) = N
        /\ m + 1 # C => Len(chunk) = splitCount
        /\ \A k \in 1..Len(chunk) : chunk[k] = set[a + k]
    <3> HIDE DEF before
    <3> QED
      BY <1>4, <2>1, <2>5 DEF chunk
  <2>7. /\ v \in Seq(S) /\ Len(v) = a + Len(chunk)
        /\ \A k \in 1..(a + Len(chunk)) :
             v[k] = IF k <= a THEN u[k] ELSE chunk[k - a]
    <3>1. u \in Seq(S) /\ Len(u) = a /\ chunk \in Seq(S)
      BY <2>2, <2>6
    <3> HIDE DEF upto
    <3> QED
      BY <2>4, <3>1, ConcatProperties
  <2>8. \A k \in 1..(a + Len(chunk)) : v[k] = set[k]
    <3> SUFFICES ASSUME NEW k \in 1..(a + Len(chunk)) PROVE v[k] = set[k]
      OBVIOUS
    <3>1. CASE k <= a
      BY <2>2, <2>3, <2>7, <3>1
    <3>2. CASE ~(k <= a)
      <4>1. k - a \in 1..Len(chunk) /\ a + (k - a) = k
        BY <1>1, <2>3, <2>6, <3>2
      <4>2. chunk[k - a] = set[a + (k - a)]
        BY <2>6, <4>1
      <4> QED
        BY <2>7, <3>2, <4>1, <4>2
    <3> QED
      BY <3>1, <3>2
  <2>9. upto(v, Len(v))
    BY <2>7, <2>8
  <2> QED
    BY <2>3, <2>6, <2>7, <2>9 DEF v
<1>9. C \in T
  <2> HIDE DEF T
  <2> QED
    BY <1>5, <1>7, <1>8, Induct
<1>10. upto(f[C], N)
  BY <1>5, <1>9
<1>11. f[C] = set
  BY <1>1, <1>10, SeqEqual
<1> QED
  BY <1>6, <1>11 DEF chunks


-----------------------------------------------------------------------------
(* The steps of an index set.                                              *)

\* Ranges of message numbers may be held and cut out.
LEMMA NumbersHeld == Numbers \subseteq Held /\ Held \subseteq Cutters
<1>1. ASSUME NEW r \in Numbers PROVE r \in Held
  <2>1. r \in Ranges /\ r.location > 0 /\ r.location <= UINT32_MAX
        /\ (r.length = UINT64_MAX \/ r.location + r.length < UINT32_MAX)
    BY <1>1 DEF Numbers
  <2>2. RB(r) = UINT64_MAX \/ RB(r) < UINT32_MAX
    BY <2>1, RangeFacts, RangeAssumption, IndexSetAssumption
       DEF RB, RangeRightBound, Wrap
  <2> QED
    BY <2>1, <2>2 DEF Held
<1> QED
  BY <1>1 DEF Held, Cutters

\* The other index sets of the model are arrays in order.
LEMMA OperandsArrays ==
  ASSUME Inputs \subseteq Numbers, NEW t \in Operands
  PROVE  t \in Arrays
<1>1. PICK r1, r2 \in Inputs : t = addRange(addRange(<<>>, r1), r2)
  BY DEF Operands
<1>2. r1 \in Held /\ r2 \in Held
  BY NumbersHeld
<1>3. addRange(<<>>, r1) \in Arrays
  BY <1>2, NoRange, AddRangeArray
<1>4. addRange(addRange(<<>>, r1), r2) \in Arrays
  BY <1>2, <1>3, AddRangeArray
<1> QED
  BY <1>1, <1>4

\* The array is one of ordered ranges, and unless clients straddle ranges it
\* stands for the integers that were added and not removed.
IndexInv ==
  /\ mRanges \in Arrays
  /\ Straddling \/ Members(mRanges) = indexes

\* IndexInv holds at the beginning ...
LEMMA IndexInit == Init => IndexInv
BY NoRange DEF Init, IndexInv

\* ... after a call about a range ...
LEMMA IndexRangeStep ==
  ASSUME Inputs \subseteq Numbers, IndexInv, NEW r \in Inputs,
         AddRange(r) \/ RemoveRange(r) \/ IntersectsRange(r)
  PROVE  IndexInv'
<1>1. r \in Held /\ r \in Cutters /\ mRanges \in Arrays
  BY NumbersHeld DEF IndexInv
<1>2. CASE AddRange(r)
  <2>1. addRange(mRanges, r) \in Arrays
    BY <1>1, AddRangeArray
  <2>2. ~Straddling => Members(addRange(mRanges, r)) = indexes \cup Indexes(r)
    BY <1>1, <1>2, AddRangeArray, IndexSetAssumption DEF AddRange, IndexInv
  <2> QED
    BY <1>2, <2>1, <2>2 DEF AddRange, IndexInv
<1>3. CASE RemoveRange(r)
  BY <1>1, <1>3, RemoveRangeArray DEF RemoveRange, IndexInv
<1>4. CASE IntersectsRange(r)
  BY <1>1, <1>4, IntersectsRangeExact DEF IntersectsRange, IndexInv
<1> QED
  BY <1>2, <1>3, <1>4

\* ... after one about another index set ...
LEMMA IndexSetStep ==
  ASSUME Inputs \subseteq Numbers, IndexInv, NEW t \in Operands,
         AddIndexSet(t) \/ RemoveIndexSet(t) \/ IntersectsIndexSet(t)
  PROVE  IndexInv'
<1>1. t \in Arrays /\ t \in Seq(Held) /\ mRanges \in Arrays
  BY OperandsArrays, ArrayFacts DEF IndexInv
<1>2. CASE AddIndexSet(t)
  <2>1. addIndexSet(mRanges, t) \in Arrays
    BY <1>1, AddIndexSetArray
  <2>2. ASSUME ~Straddling
        PROVE  Members(addIndexSet(mRanges, t)) = indexes \cup Members(t)
    <3>1. \A k \in 1..Len(t) :
             ~Straddles(addIndexSet(mRanges, SubSeq(t, 1, k - 1)), t[k])
      BY <1>2, <2>2 DEF AddIndexSet
    <3>2. Members(addIndexSet(mRanges, t)) = Members(mRanges) \cup Members(t)
      BY <1>1, <3>1, AddIndexSetExact
    <3> QED
      BY <2>2, <3>2 DEF IndexInv
  <2> QED
    BY <1>2, <2>1, <2>2 DEF AddIndexSet, IndexInv
<1>3. CASE RemoveIndexSet(t)
  BY <1>1, <1>3, RemoveIndexSetExact DEF RemoveIndexSet, IndexInv
<1>4. CASE IntersectsIndexSet(t)
  BY <1>1, <1>4, IntersectsIndexSetExact DEF IntersectsIndexSet, IndexInv
<1> QED
  BY <1>2, <1>3, <1>4

\* ... hence after every step of an index set ...
LEMMA IndexNext ==
  ASSUME Inputs \subseteq Numbers, IndexInv, [Next]_vars
  PROVE  IndexInv'
<1>1. CASE RemoveAllIndexes
  BY <1>1, NoRange DEF RemoveAllIndexes, IndexInv
<1>2. CASE UNCHANGED vars
  BY <1>2 DEF vars, IndexInv
<1> QED
  BY <1>1, <1>2, IndexRangeStep, IndexSetStep DEF Next

\* ... and after those of the other parts.
LEMMA IndexMCStep ==
  ASSUME Inputs \subseteq Numbers
  PROVE  IndexInv /\ [MCNext]_<<part, vars, popAll, nntpAll, downloadAll>>
           => IndexInv'
<1>1. [MCNext]_<<part, vars, popAll, nntpAll, downloadAll>> => [Next]_vars
  BY DEF MCNext, Indexes_Next, Pop_Next, Nntp_Next, Download_Next
<1> QED
  BY <1>1, IndexNext

\* However ranges are added, cut and intersected, straddling or not, those of
\* the array stay in order and apart: bisection, the next merge and the
\* protocol's sets may rely on it.
THEOREM RangesStayInOrder ==
  Inputs \subseteq Numbers => (MCSpec => []RangesInOrder)
<1> SUFFICES ASSUME Inputs \subseteq Numbers PROVE MCSpec => []RangesInOrder
  OBVIOUS
<1>1. MCInit => IndexInv
  BY IndexInit DEF MCInit
<1>2. IndexInv => RangesInOrder
  BY ArrayFacts DEF IndexInv, RangesInOrder, RB
<1>3. IndexInv /\ [MCNext]_<<part, vars, popAll, nntpAll, downloadAll>> => IndexInv'
  BY IndexMCStep
<1> QED
  BY <1>1, <1>2, <1>3, PTL DEF MCSpec

\* As long as no client adds a range that straddles two, the array stands for
\* exactly the integers that were added and not removed since, whichever
\* ranges were merged, cut or split, and bisection finds these and no other:
\* for any width of the integers and any message numbers.
THEOREM SetStandsForIndexes ==
  Inputs \subseteq Numbers /\ ~Straddling => (MCSpec => []StandsForIndexes)
<1> SUFFICES ASSUME Inputs \subseteq Numbers, ~Straddling
             PROVE  MCSpec => []StandsForIndexes
  OBVIOUS
<1>1. MCInit => IndexInv
  BY IndexInit DEF MCInit
<1>2. IndexInv => StandsForIndexes
  <2> SUFFICES ASSUME IndexInv PROVE StandsForIndexes
    OBVIOUS
  <2>1. mRanges \in Arrays /\ Members(mRanges) = indexes
    BY DEF IndexInv
  <2>2. RangesInOrder
    BY <2>1, ArrayFacts DEF RangesInOrder, RB
  <2>3. ContainsWhatItHolds
    <3> SUFFICES ASSUME NEW i \in Uint64 \ {UINT64_MAX}
                 PROVE  containsIndex(mRanges, i) <=> i \in indexes
      BY DEF ContainsWhatItHolds
    <3>1. i \in Nat /\ i < UINT64_MAX
      BY RangeAssumption DEF Uint64
    <3> QED
      BY <2>1, <3>1, ContainsExact
  <2> QED
    BY <2>1, <2>2, <2>3 DEF StandsForIndexes
<1>3. IndexInv /\ [MCNext]_<<part, vars, popAll, nntpAll, downloadAll>> => IndexInv'
  BY IndexMCStep
<1> QED
  BY <1>1, <1>2, <1>3, PTL DEF MCSpec

\* The set the server is sent is the one the client built, "*" included, it
\* comes back as the same set, and the commands of a copy, move or store name
\* each of its items exactly once, none of them too long: for any message
\* numbers and any number of items in a command.
THEOREM SetReachesTheServer ==
  Inputs \subseteq Numbers /\ ~Straddling => (MCSpec => []ReachesTheServer)
<1> SUFFICES ASSUME Inputs \subseteq Numbers, ~Straddling
             PROVE  MCSpec => []ReachesTheServer
  OBVIOUS
<1>1. MCInit => IndexInv
  BY IndexInit DEF MCInit
<1>2. IndexInv => ReachesTheServer
  <2> SUFFICES ASSUME IndexInv PROVE ReachesTheServer
    OBVIOUS
  <2> DEFINE set == setFromIndexSet(mRanges)
             S == {set[k] : k \in 1..Len(mRanges)}
  <2>1. mRanges \in Arrays /\ Members(mRanges) = indexes
    BY DEF IndexInv
  <2>2. set \in Seq(S)
    <3>1. Len(mRanges) \in Nat
      BY <2>1, ArrayFacts
    <3>2. set \in [1..Len(mRanges) -> S]
      BY DEF setFromIndexSet
    <3> QED
      BY <3>1, <3>2, SeqDef
  <2>3. Members(indexSetFromSet(set)) = indexes
    BY <2>1, SetBack
  <2> HIDE DEF set, S
  <2>4. FlattenSeq(splitSet(set)) = set
    BY <2>2, SplitJoined
  <2>5. \A c \in 1..Len(splitSet(set)) : Len(splitSet(set)[c]) \in 1..splitCount
    BY <2>2, SplitIsExact
  <2> QED
    BY <2>3, <2>4, <2>5 DEF ReachesTheServer, set
<1>3. IndexInv /\ [MCNext]_<<part, vars, popAll, nntpAll, downloadAll>> => IndexInv'
  BY IndexMCStep
<1> QED
  BY <1>1, <1>2, <1>3, PTL DEF MCSpec

=============================================================================
