-------------------------- MODULE ReleasePartsProofs ---------------------------
(***************************************************************************)
(* Proofs about three parts of the release tooling, for every value of     *)
(* their bounds: what the client's calls to GitHub return and create, what *)
(* automatic releases publish, and what sync and check leave in the files  *)
(* that declare a version.  The parts share no state; each has an          *)
(* inductive invariant of its own.                                         *)
(***************************************************************************)
EXTENDS MCRelease, FoldTheorems

-------------------------------------------------------------------------------
(***************************************************************************)
(* The client's calls.                                                     *)
(***************************************************************************)
PostedOnce == /\ created \in {0, 1}
              /\ post \in {"no", "sent"} => created = 0

LEMMA TransportPosts == ASSUME PostedOnce, Transport!Next PROVE PostedOnce'
<1>1. CASE \E o \in Transport!Ops : Transport!Begin(o)
  BY <1>1 DEF PostedOnce, Transport!Begin
<1>2. CASE Transport!Read
  BY <1>2 DEF PostedOnce, Transport!Read
<1>3. CASE Transport!Serve
  BY <1>3 DEF PostedOnce, Transport!Serve
<1>4. CASE Transport!Create
  BY <1>4 DEF PostedOnce, Transport!Create, Transport!Reconcile
<1>5. CASE Transport!Readback
  BY <1>5 DEF PostedOnce, Transport!Readback
<1>6. CASE Transport!Others
  BY <1>6 DEF PostedOnce, Transport!Others
<1> QED BY <1>1, <1>2, <1>3, <1>4, <1>5, <1>6 DEF Transport!Next

(***************************************************************************)
(* A call that creates a release creates one at most, although its answer  *)
(* may be lost and the call be settled by reading: for any number of       *)
(* releases, retries and bad responses.                                    *)
(***************************************************************************)
THEOREM CreatesOnce == MCSpec => []CreatedOnce
<1>1. MCInit => PostedOnce
  BY DEF MCInit, Transport!Init, PostedOnce
<1>2. PostedOnce /\ [MCNext]_all => PostedOnce'
  <2> SUFFICES ASSUME PostedOnce, [MCNext]_all PROVE PostedOnce'
    OBVIOUS
  <2>1. CASE UNCHANGED transport
    BY <2>1 DEF PostedOnce, transport
  <2>2. CASE Transport!Next
    BY <2>2, TransportPosts
  <2> QED BY <2>1, <2>2 DEF MCNext, Part, all
<1>3. PostedOnce => CreatedOnce
  BY DEF PostedOnce, CreatedOnce, Transport!CreatedOnce
<1> QED BY <1>1, <1>2, <1>3, PTL DEF MCSpec

-------------------------------------------------------------------------------
(***************************************************************************)
(* Lists that change while they are read.  Releases are listed the newest  *)
(* first; a record that was there throughout the attempt is gathered or    *)
(* still ahead, unless one was deleted: a new release only moves the       *)
(* others back.                                                            *)
(***************************************************************************)
Listing == /\ made \in Nat /\ records \in Seq(1..made)
           /\ \A i, j \in 1..Len(records) : i < j => records[i] > records[j]

Behind == (page - 1) * PageSize
GatheredBehind == \A i \in 1..Len(records) :
                     records[i] \in always /\ i <= Behind => records[i] \in Range(gathered)

ListInv == /\ Listing /\ page \in Nat \ {0}
           /\ always \subseteq Range(records)
           /\ result = None => Range(records) \subseteq ever
           /\ gathered \in Seq(Nat) /\ Range(gathered) \subseteq ever
           /\ result = "absent" => Transport!Target \notin always
           /\ result = None /\ ~deleted => GatheredBehind
           /\ result = "list" => deleted \/ always \subseteq Range(gathered)
           /\ op = "readback" => IsInjective(gathered)

LEMMA ListedRange ==
    ASSUME Listing
    PROVE  /\ Len(records) \in Nat /\ DOMAIN records = 1..Len(records)
           /\ Range(records) = {records[i] : i \in 1..Len(records)}
           /\ \A i \in 1..Len(records) : records[i] \in 1..made
BY DEF Listing, Range

LEMMA SeqRange ==
    ASSUME NEW S, NEW seq \in Seq(S)
    PROVE  /\ Len(seq) \in Nat /\ DOMAIN seq = 1..Len(seq)
           /\ Range(seq) = {seq[i] : i \in 1..Len(seq)}
           /\ \A i \in 1..Len(seq) : seq[i] \in S
BY DEF Range

LEMMA SecondPart ==
    ASSUME NEW S, NEW a \in Seq(S), NEW b \in Seq(S), NEW j \in 1..Len(b)
    PROVE  (a \o b)[Len(a) + j] = b[j]
OBVIOUS

LEMMA SeqOfMore == ASSUME NEW S, NEW T, S \subseteq T, NEW seq \in Seq(S) PROVE seq \in Seq(T)
OBVIOUS

\* A new release is the first.
LEMMA Prepended ==
    ASSUME Listing, made' = made + 1, records' = <<made'>> \o records
    PROVE  /\ Listing' /\ Len(records') = Len(records) + 1
           /\ Range(records') = Range(records) \cup {made'}
           /\ made' \notin Range(records)
           /\ records'[1] = made'
           /\ \A i \in 1..Len(records) : records'[i + 1] = records[i]
<1>1. /\ made \in Nat /\ made' \in Nat /\ Len(records) \in Nat /\ records \in Seq(1..made)
      /\ \A i \in 1..Len(records) : records[i] \in 1..made
  BY DEF Listing
<1>2. /\ Len(records') = Len(records) + 1 /\ records'[1] = made'
      /\ \A i \in 1..Len(records) : records'[i + 1] = records[i]
  BY <1>1
<1>3. ASSUME NEW i \in 1..Len(records'), i # 1
      PROVE  i - 1 \in 1..Len(records) /\ records'[i] = records[i - 1]
  <2>1. i - 1 \in 1..Len(records) /\ (i - 1) + 1 = i
    BY <1>1, <1>2, <1>3
  <2> QED BY <1>2, <2>1
<1>4. records' \in Seq(1..made')
  <2>1. records \in Seq(1..made')
    <3>1. 1..made \subseteq 1..made'
      BY <1>1
    <3> QED BY <1>1, <3>1, SeqOfMore
  <2> QED BY <1>1, <2>1
<1>5. ASSUME NEW i \in 1..Len(records'), NEW j \in 1..Len(records'), i < j
      PROVE  records'[i] > records'[j]
  <2>1. j # 1 /\ records'[j] = records[j - 1] /\ j - 1 \in 1..Len(records)
    BY <1>3, <1>5
  <2>2. CASE i = 1
    BY <1>1, <1>2, <2>1, <2>2
  <2>3. CASE i # 1
    <3>1. records'[i] = records[i - 1] /\ i - 1 \in 1..Len(records) /\ i - 1 < j - 1
      BY <1>3, <1>5, <2>3
    <3> QED BY <2>1, <3>1 DEF Listing
  <2> QED BY <2>2, <2>3
<1>6. Listing'
  BY <1>1, <1>4, <1>5 DEF Listing
<1>7. Range(records') = {records'[i] : i \in 1..Len(records')}
  <2>1. PICK S, s : S = 1..made' /\ s = records' /\ s \in Seq(S)
    BY <1>4
  <2>2. Range(s) = {s[i] : i \in 1..Len(s)}
    <3>1. s \in Seq(S)
      BY <2>1
    <3> QED BY <3>1, SeqRange
  <2> QED BY <2>1, <2>2
<1>8. Range(records') = Range(records) \cup {made'}
  <2>1. ASSUME NEW x \in Range(records') PROVE x \in Range(records) \cup {made'}
    <3>1. PICK i \in 1..Len(records') : x = records'[i]
      BY <1>7
    <3> QED BY <1>2, <1>3, <3>1, ListedRange
  <2>2. ASSUME NEW x \in Range(records) \cup {made'} PROVE x \in Range(records')
    <3>1. CASE x = made'
      BY <1>1, <1>2, <1>7, <3>1
    <3>2. CASE x \in Range(records)
      <4>1. PICK i \in 1..Len(records) : x = records[i]
        BY <3>2, ListedRange
      <4>2. i + 1 \in 1..Len(records') /\ records'[i + 1] = x
        BY <1>1, <1>2, <4>1
      <4> QED BY <1>7, <4>2
    <3> QED BY <3>1, <3>2
  <2> QED BY <2>1, <2>2
<1>9. made' \notin Range(records)
  BY <1>1, ListedRange
<1> QED BY <1>2, <1>6, <1>8, <1>9

LEMMA Deleted ==
    ASSUME Listing, NEW i \in 1..Len(records), records' = RemoveAt(records, i), made' = made
    PROVE  /\ Listing' /\ Range(records') \subseteq Range(records)
           /\ Range(records) \ {records[i]} \subseteq Range(records')
<1> DEFINE n == Len(records)
<1>1. /\ made \in Nat /\ n \in Nat /\ records \in Seq(1..made) /\ i \in 1..n
      /\ \A j \in 1..n : records[j] \in 1..made
  BY DEF Listing
<1>2. /\ records' \in Seq(1..made) /\ Len(records') = n - 1
      /\ \A j \in 1..(n - 1) : records'[j] = IF j < i THEN records[j] ELSE records[j + 1]
  <2>1. SubSeq(records, 1, i - 1) \in Seq(1..made) /\ SubSeq(records, i + 1, n) \in Seq(1..made)
    BY <1>1
  <2>2. /\ Len(SubSeq(records, 1, i - 1)) = i - 1 /\ Len(SubSeq(records, i + 1, n)) = n - i
        /\ \A j \in 1..(i - 1) : SubSeq(records, 1, i - 1)[j] = records[j]
        /\ \A j \in 1..(n - i) : SubSeq(records, i + 1, n)[j] = records[j + i]
    BY <1>1
  <2> DEFINE a == SubSeq(records, 1, i - 1)
             b == SubSeq(records, i + 1, n)
  <2>3. records' = a \o b
    BY DEF RemoveAt
  <2> HIDE DEF a, b
  <2>4. /\ a \in Seq(1..made) /\ b \in Seq(1..made) /\ Len(a) = i - 1 /\ Len(b) = n - i
        /\ \A j \in 1..(i - 1) : a[j] = records[j]
        /\ \A j \in 1..(n - i) : b[j] = records[j + i]
    BY <2>1, <2>2 DEF a, b
  <2>5. records' \in Seq(1..made) /\ Len(records') = n - 1
    BY <1>1, <2>3, <2>4
  <2>6. ASSUME NEW j \in 1..(n - 1)
        PROVE  records'[j] = IF j < i THEN records[j] ELSE records[j + 1]
    <3>1. CASE j < i
      <4>1. j \in 1..(i - 1) /\ records'[j] = a[j]
        BY <1>1, <2>3, <2>4, <3>1
      <4> QED BY <2>4, <3>1, <4>1
    <3>2. CASE ~(j < i)
      <4>0. j - (i - 1) \in 1..(n - i)
        BY <1>1, <3>2
      <4>1. j - (i - 1) \in 1..(n - i) /\ records'[j] = b[j - (i - 1)]
        <5>1. (a \o b)[Len(a) + (j - (i - 1))] = b[j - (i - 1)]
          BY <2>4, <4>0, SecondPart
        <5>2. Len(a) + (j - (i - 1)) = j
          BY <1>1, <2>4
        <5> QED BY <2>3, <4>0, <5>1, <5>2
      <4>2. (j - (i - 1)) + i = j + 1
        BY <1>1
      <4> QED BY <2>4, <3>2, <4>1, <4>2
    <3> QED BY <3>1, <3>2
  <2> QED BY <2>5, <2>6
<1> HIDE DEF n
<1>3. ASSUME NEW j \in 1..(n - 1), NEW k \in 1..(n - 1), j < k PROVE records'[j] > records'[k]
  <2>1. PICK p \in 1..n : records'[j] = records[p] /\ (p = j \/ (p = j + 1 /\ j >= i))
    <3>1. CASE j < i
      BY <1>1, <1>2, <3>1
    <3>2. CASE ~(j < i)
      <4>1. j + 1 \in 1..n /\ j >= i
        BY <1>1, <3>2
      <4> QED BY <1>2, <3>2, <4>1
    <3> QED BY <3>1, <3>2
  <2>2. PICK q \in 1..n : records'[k] = records[q] /\ ((q = k /\ k < i) \/ q = k + 1)
    <3>1. CASE k < i
      <4>1. k \in 1..n
        BY <1>1
      <4> QED BY <1>2, <3>1, <4>1
    <3>2. CASE ~(k < i)
      <4>1. k + 1 \in 1..n
        BY <1>1
      <4> QED BY <1>2, <3>2, <4>1
    <3> QED BY <3>1, <3>2
  <2>3. p < q
    BY <1>1, <1>3, <2>1, <2>2
  <2> QED BY <2>1, <2>2, <2>3 DEF Listing, n
<1>4. Listing'
  BY <1>1, <1>2, <1>3 DEF Listing
<1>5. Range(records') = {records'[j] : j \in 1..(n - 1)}
  BY <1>2, SeqRange
<1>6. Range(records) = {records[j] : j \in 1..n}
  BY ListedRange DEF n
<1>7. ASSUME NEW x \in Range(records') PROVE x \in Range(records)
  <2>1. PICK j \in 1..(n - 1) : x = records'[j]
    BY <1>5
  <2>2. x = records[j] \/ x = records[j + 1]
    BY <1>2, <2>1
  <2>3. j \in 1..n /\ j + 1 \in 1..n
    BY <1>1
  <2> QED BY <1>6, <2>2, <2>3
<1>8. ASSUME NEW x \in Range(records) \ {records[i]} PROVE x \in Range(records')
  <2>1. PICK j \in 1..n : x = records[j] /\ j # i
    BY <1>6
  <2>2. CASE j < i
    <3>1. j \in 1..(n - 1) /\ records'[j] = x
      BY <1>1, <1>2, <2>1, <2>2
    <3> QED BY <1>5, <3>1
  <2>3. CASE j > i
    <3>1. j - 1 \in 1..(n - 1) /\ ~(j - 1 < i) /\ (j - 1) + 1 = j
      BY <1>1, <2>1, <2>3
    <3>2. records'[j - 1] = x
      BY <1>2, <2>1, <3>1
    <3> QED BY <1>5, <3>1, <3>2
  <2> QED BY <1>1, <2>1, <2>2, <2>3
<1> QED BY <1>4, <1>7, <1>8

-------------------------------------------------------------------------------
\* The page that is read.
LEMMA PageListed ==
    ASSUME Listing, page \in Nat \ {0}
    PROVE  LET values == Transport!Listed(page)
           IN  /\ Behind \in Nat /\ page * PageSize = Behind + PageSize
               /\ values \in Seq(Nat)
               /\ Range(values) \subseteq Range(records)
               /\ IsInjective(values)
               /\ \A i \in 1..Len(records) :
                     i > Behind /\ i <= page * PageSize => records[i] \in Range(values)
               /\ Transport!HasNext(page) => Len(values) = PageSize
<1> DEFINE values == Transport!Listed(page)
           last == IF page * PageSize < Len(records) THEN page * PageSize ELSE Len(records)
<1>1. Behind \in Nat /\ page * PageSize = Behind + PageSize /\ PageSize \in Nat \ {0}
  <2> DEFINE p == page
             size == PageSize
  <2>1. p - 1 \in Nat /\ p \in Int /\ size \in Nat \ {0}
    BY TransportAssumption
  <2>2. (p - 1) * size + size = p * size
    <3> HIDE DEF p, size
    <3> QED BY <2>1, OneMore
  <2>3. (p - 1) * size \in Nat
    <3> HIDE DEF p, size
    <3> DEFINE a == p - 1
    <3>1. a \in Nat /\ size \in Nat
      BY <2>1
    <3> HIDE DEF a
    <3>2. a * size \in Nat
      BY <3>1
    <3> QED BY <3>2 DEF a
  <2> QED BY <2>1, <2>2, <2>3 DEF Behind
<1> DEFINE behind == Behind
           n == Len(records)
<1>2. /\ n \in Nat /\ records \in Seq(1..made) /\ made \in Nat
      /\ \A i \in 1..n : records[i] \in 1..made
  BY DEF Listing
<1>3. values = SubSeq(records, behind + 1, last) /\ last \in Nat /\ last <= n
      /\ last <= behind + PageSize /\ (behind + PageSize <= n => last = behind + PageSize)
      /\ (last = n \/ last = behind + PageSize)
  BY <1>1, <1>2 DEF Transport!Listed, Behind
<1>4. Transport!HasNext(page) <=> n > behind + PageSize
  BY <1>1 DEF Transport!HasNext
<1> HIDE DEF values, last, behind, n
<1>5. DOMAIN records = 1..n
  BY <1>2 DEF n
<1>6. CASE behind >= last
  <2>1. values = <<>>
    BY <1>1, <1>2, <1>3, <1>6 DEF behind
  <2>2. last = n
    BY <1>1, <1>3, <1>6 DEF behind
  <2>3. values \in Seq(Nat) /\ DOMAIN values = {}
    BY <2>1
  <2>4. Range(values) = {} /\ IsInjective(values)
    BY <2>3 DEF Range, IsInjective
  <2>5. ~Transport!HasNext(page)
    BY <1>1, <1>2, <1>4, <1>6, <2>2 DEF behind
  <2> QED BY <1>1, <1>2, <1>6, <2>2, <2>3, <2>4, <2>5 DEF behind, n, values
<1>7. CASE behind < last
  <2>1. /\ values \in Seq(1..made) /\ Len(values) = last - behind
        /\ \A i \in 1..(last - behind) : values[i] = records[i + behind]
    <3>1. behind \in Nat
      BY <1>1 DEF behind
    <3>2. Len(values) = last - behind
      BY <1>2, <1>3, <1>7, <3>1 DEF n
    <3>3. values \in Seq(1..made)
      BY <1>2, <1>3, <1>7, <3>1 DEF n
    <3>4. ASSUME NEW i \in 1..(last - behind) PROVE values[i] = records[i + behind]
      BY <1>2, <1>3, <1>7, <3>1, <3>4 DEF n
    <3> QED BY <3>2, <3>3, <3>4
  <2>2. Range(values) = {values[i] : i \in 1..(last - behind)} /\ DOMAIN values = 1..(last - behind)
    BY <2>1, SeqRange
  <2>3. behind \in Nat /\ \A i \in 1..(last - behind) : i + behind \in 1..n
    BY <1>1, <1>2, <1>3 DEF behind
  <2>4. Range(values) \subseteq Range(records)
    BY <1>5, <2>1, <2>2, <2>3 DEF Range
  <2>5. ASSUME NEW i \in 1..(last - behind), NEW j \in 1..(last - behind), i < j
        PROVE  values[i] # values[j]
    <3>1. i + behind < j + behind /\ i + behind \in 1..n /\ j + behind \in 1..n
      BY <2>3, <2>5
    <3>2. records[i + behind] > records[j + behind]
      BY <3>1 DEF Listing, n
    <3>3. records[i + behind] \in Int /\ records[j + behind] \in Int
      BY <1>2, <3>1
    <3>4. values[i] = records[i + behind] /\ values[j] = records[j + behind]
      BY <2>1
    <3> QED BY <3>2, <3>3, <3>4
  <2>6. IsInjective(values)
    <3> SUFFICES ASSUME NEW i \in 1..(last - behind), NEW j \in 1..(last - behind),
                        values[i] = values[j], i # j
                 PROVE  FALSE
      BY <2>2 DEF IsInjective
    <3>1. i < j \/ j < i
      BY <1>3, <2>3
    <3> QED BY <2>5, <3>1
  <2>7. ASSUME NEW i \in 1..n, i > behind, i <= behind + PageSize PROVE records[i] \in Range(values)
    <3>1. i - behind \in 1..(last - behind) /\ (i - behind) + behind = i
      BY <1>1, <1>2, <1>3, <2>3, <2>7
    <3> QED BY <2>1, <2>2, <3>1
  <2>8. ASSUME Transport!HasNext(page) PROVE Len(values) = PageSize
    BY <1>1, <1>2, <1>3, <1>4, <2>1, <2>3, <2>8
  <2>9. values \in Seq(Nat)
    <3>1. 1..made \subseteq Nat
      BY <1>2
    <3> QED BY <2>1, <3>1, SeqOfMore
  <2> QED BY <1>1, <2>4, <2>6, <2>7, <2>8, <2>9 DEF behind, n, values
<1> QED BY <1>1, <1>2, <1>3, <1>6, <1>7 DEF behind

LEMMA JoinedRange ==
    ASSUME NEW a \in Seq(Nat), NEW b \in Seq(Nat)
    PROVE  /\ a \o b \in Seq(Nat) /\ Range(a \o b) = Range(a) \cup Range(b)
           /\ IsInjective(a) /\ IsInjective(b) /\ Range(b) \cap Range(a) = {} => IsInjective(a \o b)
<1> DEFINE c == a \o b
<1>1. /\ c \in Seq(Nat) /\ Len(c) = Len(a) + Len(b) /\ Len(a) \in Nat /\ Len(b) \in Nat
      /\ DOMAIN a = 1..Len(a) /\ DOMAIN b = 1..Len(b) /\ DOMAIN c = 1..Len(c)
      /\ \A i \in 1..Len(a) : c[i] = a[i]
  OBVIOUS
<1>2. \A j \in 1..Len(b) : c[Len(a) + j] = b[j]
  BY SecondPart
<1> HIDE DEF c
<1>3. /\ Range(a) = {a[i] : i \in 1..Len(a)} /\ Range(b) = {b[i] : i \in 1..Len(b)}
      /\ Range(c) = {c[i] : i \in 1..Len(c)}
  BY <1>1, SeqRange
<1>4. ASSUME NEW i \in 1..Len(c)
      PROVE  \/ i \in 1..Len(a) /\ c[i] = a[i]
             \/ i - Len(a) \in 1..Len(b) /\ c[i] = b[i - Len(a)]
  <2>1. CASE i \in 1..Len(a)
    BY <1>1, <2>1
  <2>2. CASE i \notin 1..Len(a)
    <3>1. i - Len(a) \in 1..Len(b) /\ Len(a) + (i - Len(a)) = i
      BY <1>1, <2>2
    <3> QED BY <1>2, <3>1
  <2> QED BY <2>1, <2>2
<1>5. Range(c) = Range(a) \cup Range(b)
  <2>1. Range(c) \subseteq Range(a) \cup Range(b)
    BY <1>3, <1>4
  <2>2. Range(a) \subseteq Range(c)
    <3>1. \A i \in 1..Len(a) : i \in 1..Len(c)
      BY <1>1
    <3> QED BY <1>1, <1>3, <3>1
  <2>3. Range(b) \subseteq Range(c)
    <3>1. \A j \in 1..Len(b) : Len(a) + j \in 1..Len(c)
      BY <1>1
    <3> QED BY <1>2, <1>3, <3>1
  <2> QED BY <2>1, <2>2, <2>3
<1>6. ASSUME IsInjective(a), IsInjective(b), Range(b) \cap Range(a) = {} PROVE IsInjective(c)
  <2> SUFFICES ASSUME NEW i \in 1..Len(c), NEW j \in 1..Len(c), c[i] = c[j] PROVE i = j
    BY <1>1 DEF IsInjective
  <2>1. \A k \in 1..Len(a) : a[k] \in Range(a)
    BY <1>3
  <2>2. \A k \in 1..Len(b) : b[k] \in Range(b)
    BY <1>3
  <2>3. CASE i \in 1..Len(a) /\ c[i] = a[i] /\ j \in 1..Len(a) /\ c[j] = a[j]
    BY <1>1, <1>6, <2>3 DEF IsInjective
  <2>4. CASE /\ i - Len(a) \in 1..Len(b) /\ c[i] = b[i - Len(a)]
             /\ j - Len(a) \in 1..Len(b) /\ c[j] = b[j - Len(a)]
    <3>1. i - Len(a) = j - Len(a)
      BY <1>1, <1>6, <2>4 DEF IsInjective
    <3> QED BY <1>1, <3>1
  <2> QED BY <1>4, <1>6, <2>1, <2>2, <2>3, <2>4
<1> QED BY <1>1, <1>5, <1>6 DEF c

\* Gathering a page: what it adds, and what it leaves behind.
LEMMA Gathers ==
    ASSUME ListInv, result = None, NEW values, values = Transport!Listed(page),
           gathered' = gathered \o values
    PROVE  /\ gathered' \in Seq(Nat)
           /\ Range(gathered') = Range(gathered) \cup Range(values)
           /\ Range(values) \subseteq Range(records)
           /\ IsInjective(gathered) /\ Range(values) \cap Range(gathered) = {}
                 => IsInjective(gathered')
           /\ ~deleted => \A i \in 1..Len(records) :
                 records[i] \in always /\ i <= page * PageSize => records[i] \in Range(gathered')
           /\ Transport!HasNext(page) => Len(values) = PageSize
<1>1. /\ Listing /\ page \in Nat \ {0} /\ gathered \in Seq(Nat)
      /\ ~deleted => GatheredBehind
  BY DEF ListInv
<1>2. /\ Behind \in Nat /\ values \in Seq(Nat) /\ Range(values) \subseteq Range(records)
      /\ IsInjective(values)
      /\ \A i \in 1..Len(records) :
            i > Behind /\ i <= page * PageSize => records[i] \in Range(values)
      /\ Transport!HasNext(page) => Len(values) = PageSize
  BY <1>1, PageListed
<1>3. /\ gathered' \in Seq(Nat) /\ Range(gathered') = Range(gathered) \cup Range(values)
      /\ IsInjective(gathered) /\ Range(values) \cap Range(gathered) = {} => IsInjective(gathered')
  BY <1>1, <1>2, JoinedRange
<1>4. ASSUME ~deleted, NEW i \in 1..Len(records), records[i] \in always, i <= page * PageSize
      PROVE  records[i] \in Range(gathered')
  <2>1. CASE i <= Behind
    BY <1>1, <1>3, <1>4, <2>1 DEF GatheredBehind
  <2>2. CASE ~(i <= Behind)
    <3>1. i > Behind
      BY <1>2, <2>2
    <3> QED BY <1>2, <1>3, <1>4, <3>1
  <2> QED BY <2>1, <2>2
<1> QED BY <1>2, <1>3, <1>4

\* The page after the last one is not there: everything that was there is gathered.
LEMMA GathersAll ==
    ASSUME ListInv, ~Transport!HasNext(page), NEW read,
           \A i \in 1..Len(records) :
              records[i] \in always /\ i <= page * PageSize => records[i] \in read
    PROVE  always \subseteq read
<1>1. Listing /\ page \in Nat \ {0} /\ always \subseteq Range(records)
  BY DEF ListInv
<1>2. page * PageSize \in Nat
  <2>1. Behind \in Nat /\ page * PageSize = Behind + PageSize
    BY <1>1, PageListed
  <2> QED BY <2>1, TransportAssumption
<1>3. Len(records) <= page * PageSize
  BY <1>1, <1>2, ListedRange DEF Transport!HasNext
<1> QED BY <1>1, <1>2, <1>3, ListedRange

LEMMA NextBehind ==
    ASSUME Listing, page \in Nat \ {0}, page' = page + 1 PROVE Behind' = page * PageSize
BY DEF Behind

LEMMA NothingBehind == ASSUME Listing', page' = 1 PROVE GatheredBehind'
<1>1. Behind' = 0
  BY TransportAssumption DEF Behind
<1> QED BY <1>1 DEF GatheredBehind

LEMMA SameRange == \A f : Transport!Range(f) = Range(f)
BY DEF Transport!Range, Range

\* A new attempt begins with what is there.
LEMMA Watched ==
    ASSUME ListInv, Transport!Watch, page' = 1, gathered' = <<>>, UNCHANGED <<records, made>>,
           result' \notin {"absent", "list"}
    PROVE  ListInv'
<1>1. Listing' /\ Range(records)' = Range(records)
  BY DEF ListInv, Listing, Range
<1>2. always' = Range(records) /\ ever' = Range(records) /\ deleted' = FALSE
  BY SameRange DEF Transport!Watch
<1>3. gathered' \in Seq(Nat) /\ DOMAIN gathered' = {}
  OBVIOUS
<1>4. Range(gathered') = {} /\ IsInjective(gathered')
  BY <1>3 DEF Range, IsInjective
<1> QED BY <1>1, <1>2, <1>3, <1>4, NothingBehind DEF ListInv

-------------------------------------------------------------------------------
LEMMA AttemptRestarts ==
    ASSUME ListInv, result' = None, Transport!Again, Transport!Watch, UNCHANGED <<records, made>>,
           UNCHANGED op
    PROVE  ListInv'
BY Watched, TransportAssumption DEF Transport!Again, Transport!Results

LEMMA BeginLists ==
    ASSUME ListInv, NEW o \in Transport!Ops, Transport!Begin(o) PROVE ListInv'
<1>1. /\ Transport!Watch /\ page' = 1 /\ gathered' = <<>> /\ UNCHANGED <<records, made>>
      /\ result' = None
  BY DEF Transport!Begin, Transport!server
<1> QED BY <1>1, Watched, TransportAssumption DEF Transport!Results

LEMMA FinishLists ==
    ASSUME ListInv, result = None, NEW verdict, Transport!Finish(verdict),
           UNCHANGED <<records, made, op>>, verdict \in {"present", "absent", "created", "error"},
           verdict = "absent" => Transport!Target \notin always
    PROVE  ListInv'
<1>1. /\ UNCHANGED <<page, gathered, always, ever, deleted>> /\ result' = verdict
      /\ result' # None /\ result' # "list"
  BY TransportAssumption DEF Transport!Finish, Transport!history, Transport!Results
<1>2. Listing'
  BY DEF ListInv, Listing
<1> QED BY <1>1, <1>2 DEF ListInv, Range

LEMMA ReadLists == ASSUME ListInv, Transport!Read PROVE ListInv'
<1>1. /\ UNCHANGED <<records, made, op>> /\ result = None /\ op \in {"optional", "pages"}
  BY DEF Transport!Read, Transport!server
<1>2. PICK r \in Transport!Response :
        /\ Transport!Answers(Transport!Whole(
              IF op = "optional" /\ Transport!Target \notin Range(records) THEN 404 ELSE 200), r)
        /\ \/ Transport!Good(r, 200) /\ op = "pages" /\ Transport!GatherPage
           \/ Transport!Good(r, 200) /\ op # "pages" /\ Transport!Finish("present")
           \/ Transport!Again /\ Transport!Watch /\ UNCHANGED result
           \/ Transport!Finish(IF op = "optional" /\ Transport!NotFound(r)
                               THEN "absent" ELSE "error")
  BY SameRange DEF Transport!Read
<1>3. CASE op = "pages" /\ Transport!GatherPage
  <2>1. PICK values : values = Transport!Listed(page)
    OBVIOUS
  <2>2. /\ gathered' = gathered \o values /\ UNCHANGED <<always, ever, deleted>>
        /\ IF Transport!HasNext(page) THEN page' = page + 1 /\ result' = result
           ELSE result' = "list" /\ page' = page
    BY <1>3, <2>1 DEF Transport!GatherPage, Transport!history
  <2>3. /\ gathered' \in Seq(Nat) /\ Range(gathered') = Range(gathered) \cup Range(values)
        /\ Range(values) \subseteq Range(records)
        /\ ~deleted => \A i \in 1..Len(records) :
              records[i] \in always /\ i <= page * PageSize => records[i] \in Range(gathered')
    BY <1>1, <2>1, <2>2, Gathers
  <2>4. /\ Listing /\ Listing' /\ page \in Nat \ {0}
        /\ Range(gathered') \subseteq ever' /\ op' = "pages"
    BY <1>1, <1>3, <2>2, <2>3 DEF ListInv, Listing
  <2>5. CASE Transport!HasNext(page)
    <3>1. page' = page + 1 /\ result' = None
      BY <1>1, <2>2, <2>5
    <3>2. ~deleted' => GatheredBehind'
      BY <1>1, <2>2, <2>3, <2>4, <3>1, NextBehind DEF GatheredBehind
    <3> QED BY <1>1, <2>2, <2>3, <2>4, <3>1, <3>2, TransportAssumption
            DEF ListInv, Transport!Results
  <2>6. CASE ~Transport!HasNext(page)
    <3>1. page' = page /\ result' = "list"
      BY <2>2, <2>6
    <3>2. ~deleted => always \subseteq Range(gathered')
      BY <2>3, <2>6, GathersAll
    <3> QED BY <1>1, <2>2, <2>3, <2>4, <3>1, <3>2, TransportAssumption
            DEF ListInv, Transport!Results
  <2> QED BY <2>5, <2>6
<1>4. CASE Transport!Finish("present")
  BY <1>1, <1>4, FinishLists
<1>5. CASE Transport!Again /\ Transport!Watch /\ UNCHANGED result
  BY <1>1, <1>5, AttemptRestarts
<1>6. ASSUME Transport!Finish(IF op = "optional" /\ Transport!NotFound(r)
                              THEN "absent" ELSE "error")
      PROVE  ListInv'
  <2>1. CASE op = "optional" /\ Transport!NotFound(r)
    <3>1. r.head = 404
      BY <2>1 DEF Transport!NotFound
    <3>2. Transport!Target \notin Range(records)
      BY <1>2, <3>1 DEF Transport!Answers, Transport!Whole, Transport!Bad
    <3> QED BY <1>1, <1>6, <2>1, <3>2, FinishLists DEF ListInv
  <2>2. CASE ~(op = "optional" /\ Transport!NotFound(r))
    BY <1>1, <1>6, <2>2, FinishLists
  <2> QED BY <2>1, <2>2
<1> QED BY <1>2, <1>3, <1>4, <1>5, <1>6

\* A release that is created meanwhile, and one that is deleted.
LEMMA CreationLists ==
    ASSUME ListInv, made' = made + 1, records' = <<made'>> \o records, ever' = ever \cup {made'},
           UNCHANGED <<op, result, page, gathered, always, deleted>>
    PROVE  ListInv'
<1>1. /\ Listing /\ Listing' /\ Len(records') = Len(records) + 1
      /\ Range(records') = Range(records) \cup {made'} /\ made' \notin Range(records)
      /\ records'[1] = made' /\ \A i \in 1..Len(records) : records'[i + 1] = records[i]
  BY Prepended DEF ListInv
<1>2. ASSUME result = None, ~deleted PROVE GatheredBehind'
  <2> SUFFICES ASSUME NEW i \in 1..Len(records'), records'[i] \in always, i <= Behind
               PROVE  records'[i] \in Range(gathered)
    BY DEF GatheredBehind, Behind
  <2>1. i # 1
    BY <1>1 DEF ListInv
  <2>2. i - 1 \in 1..Len(records) /\ (i - 1) + 1 = i /\ Len(records) \in Nat
    BY <1>1, <2>1, ListedRange
  <2>3. Behind \in Nat
    BY PageListed DEF ListInv
  <2>4. records'[i] = records[i - 1] /\ i - 1 <= Behind
    BY <1>1, <2>2, <2>3
  <2> QED BY <1>2, <2>2, <2>4 DEF ListInv, GatheredBehind
<1> QED BY <1>1, <1>2 DEF ListInv

LEMMA DeletionLists ==
    ASSUME ListInv, NEW i \in 1..Len(records), records' = RemoveAt(records, i),
           always' = always \ {records[i]}, deleted' = TRUE,
           UNCHANGED <<made, ever, op, result, page, gathered>>
    PROVE  ListInv'
<1>1. /\ Listing' /\ Range(records') \subseteq Range(records)
      /\ Range(records) \ {records[i]} \subseteq Range(records')
  BY Deleted DEF ListInv
<1> QED BY <1>1 DEF ListInv

LEMMA SameLists ==
    ASSUME ListInv, UNCHANGED <<records, made, op, result, page, gathered, always, ever, deleted>>
    PROVE  ListInv'
BY DEF ListInv, Listing, GatheredBehind, Behind, Range, IsInjective

LEMMA ServeLists == ASSUME ListInv, Transport!Serve PROVE ListInv'
<1>1. UNCHANGED <<op, result, page, gathered, always, deleted>>
  BY DEF Transport!Serve, Transport!call
<1>2. CASE made' = made + 1 /\ records' = <<made'>> \o records /\ ever' = ever \cup {made'}
  BY <1>1, <1>2, CreationLists
<1>3. CASE UNCHANGED <<records, made, ever>>
  BY <1>1, <1>3, SameLists
<1> QED BY <1>2, <1>3 DEF Transport!Serve, Transport!server

LEMMA OthersList == ASSUME ListInv, Transport!Others PROVE ListInv'
<1>1. UNCHANGED <<op, result, page, gathered>>
  BY DEF Transport!Others, Transport!call
<1>2. CASE /\ made' = made + 1 /\ records' = <<made'>> \o records /\ ever' = ever \cup {made'}
           /\ UNCHANGED <<always, deleted>>
  BY <1>1, <1>2, CreationLists
<1>3. CASE \E i \in DOMAIN records : /\ records' = Transport!RemoveAt(records, i)
                                     /\ always' = always \ {records[i]} /\ deleted' = TRUE
                                     /\ UNCHANGED <<made, ever>>
  <2>1. PICK i \in 1..Len(records) : /\ records' = RemoveAt(records, i)
                                     /\ always' = always \ {records[i]} /\ deleted' = TRUE
                                     /\ UNCHANGED <<made, ever>>
    BY <1>3, ListedRange DEF ListInv, RemoveAt, Transport!RemoveAt
  <2> QED BY <1>1, <2>1, DeletionLists
<1> QED BY <1>2, <1>3 DEF Transport!Others

LEMMA CreateLists == ASSUME ListInv, Transport!Create PROVE ListInv'
<1>1. UNCHANGED <<records, made>> /\ result = None /\ op = "create"
  BY DEF Transport!Create, Transport!server
<1>2. PICK r \in Transport!Response :
        \/ Transport!Reconcile /\ UNCHANGED result
        \/ /\ Transport!Finish(IF Transport!Good(r, 201) THEN "created" ELSE "error")
           /\ UNCHANGED op
  BY DEF Transport!Create
<1>3. CASE Transport!Reconcile /\ UNCHANGED result
  <2>1. /\ Transport!Watch /\ page' = 1 /\ gathered' = <<>> /\ result' = None
    BY <1>1, <1>3 DEF Transport!Reconcile
  <2> QED BY <1>1, <2>1, Watched, TransportAssumption DEF Transport!Results
<1>4. ASSUME Transport!Finish(IF Transport!Good(r, 201) THEN "created" ELSE "error"), UNCHANGED op
      PROVE  ListInv'
  BY <1>1, <1>4, FinishLists
<1> QED BY <1>2, <1>3, <1>4

LEMMA ReadbackLists == ASSUME ListInv, Transport!Readback PROVE ListInv'
<1>1. UNCHANGED <<records, made, op>> /\ result = None /\ op = "readback"
  BY DEF Transport!Readback, Transport!server
<1>2. PICK values : values = Transport!Listed(page)
  OBVIOUS
<1>3. PICK linked \in {Transport!HasNext(page), FALSE} :
        \/ Transport!Finish("error")
        \/ /\ Range(values) \cap Range(gathered) = {}
           /\ gathered' = gathered \o values /\ UNCHANGED <<always, ever, deleted>>
           /\ IF Transport!More(values, linked) THEN page' = page + 1 /\ UNCHANGED result
              ELSE result' = "list" /\ UNCHANGED page
  BY <1>2, SameRange DEF Transport!Readback, Transport!history
<1>4. CASE Transport!Finish("error")
  BY <1>1, <1>4, FinishLists
<1>5. CASE ~Transport!Finish("error")
  <2>1. /\ gathered' \in Seq(Nat) /\ Range(gathered') = Range(gathered) \cup Range(values)
        /\ Range(values) \subseteq Range(records) /\ IsInjective(gathered')
        /\ ~deleted => \A i \in 1..Len(records) :
              records[i] \in always /\ i <= page * PageSize => records[i] \in Range(gathered')
        /\ Transport!HasNext(page) => Len(values) = PageSize
    BY <1>1, <1>2, <1>3, <1>5, Gathers DEF ListInv
  <2>2. UNCHANGED <<always, ever, deleted>>
    BY <1>3, <1>5
  <2>3. /\ Listing /\ Listing' /\ page \in Nat \ {0} /\ Range(gathered') \subseteq ever'
    BY <1>1, <2>1, <2>2 DEF ListInv, Listing
  <2>4. CASE Transport!More(values, linked)
    <3>1. page' = page + 1 /\ result' = None
      BY <1>1, <1>3, <1>5, <2>4
    <3>2. ~deleted' => GatheredBehind'
      BY <1>1, <2>1, <2>2, <2>3, <3>1, NextBehind DEF GatheredBehind
    <3> QED BY <1>1, <2>1, <2>2, <2>3, <3>1, <3>2, TransportAssumption
            DEF ListInv, Transport!Results
  <2>5. CASE ~Transport!More(values, linked)
    <3>1. page' = page /\ result' = "list"
      BY <1>3, <1>5, <2>5
    <3>2. ~Transport!HasNext(page)
      BY <2>1, <2>5 DEF Transport!More
    <3>3. ~deleted => always \subseteq Range(gathered')
      BY <2>1, <3>2, GathersAll
    <3> QED BY <1>1, <2>1, <2>2, <2>3, <3>1, <3>3, TransportAssumption
            DEF ListInv, Transport!Results
  <2> QED BY <2>4, <2>5
<1> QED BY <1>4, <1>5

(***************************************************************************)
(* What a read reports: nothing that was there throughout the attempt is   *)
(* reported missing or lacks from a list, and nothing is listed that was   *)
(* gone before; for any page size, number of releases and sequence of bad  *)
(* responses.                                                              *)
(***************************************************************************)
THEOREM ReadsAreSound == MCSpec => []ReadsSound
<1>1. MCInit => ListInv
  <2> SUFFICES ASSUME Transport!Init PROVE ListInv
    BY DEF MCInit
  <2>1. /\ made \in Nat /\ records = [i \in 1..made |-> made + 1 - i]
        /\ always = {} /\ ever = {} /\ gathered = <<>> /\ page = 1 /\ op = "optional"
        /\ result = "error"
    BY TransportAssumption DEF Transport!Init
  <2>2. /\ records \in Seq(1..made) /\ Len(records) = made
        /\ \A i \in 1..made : records[i] = made + 1 - i
    <3>1. \A i \in 1..made : made + 1 - i \in 1..made
      BY <2>1
    <3> QED BY <2>1, <3>1
  <2>3. Listing
    BY <2>1, <2>2 DEF Listing
  <2>4. gathered \in Seq(Nat) /\ DOMAIN gathered = {}
    BY <2>1
  <2>5. Range(gathered) = {}
    BY <2>4 DEF Range
  <2>6. result # None
    BY <2>1, TransportAssumption DEF Transport!Results
  <2> QED BY <2>1, <2>3, <2>4, <2>5, <2>6 DEF ListInv
<1>2. ListInv /\ [MCNext]_all => ListInv'
  <2> SUFFICES ASSUME ListInv, [MCNext]_all PROVE ListInv'
    OBVIOUS
  <2>1. CASE UNCHANGED transport
    BY <2>1, SameLists DEF transport
  <2>2. CASE Transport!Next
    BY <2>2, BeginLists, ReadLists, ServeLists, CreateLists, ReadbackLists, OthersList
       DEF Transport!Next
  <2> QED BY <2>1, <2>2 DEF MCNext, Part, all
<1>3. ListInv => ReadsSound
  BY SameRange DEF ListInv, ReadsSound, Transport!ReadsSound, Transport!IsInjective, IsInjective
<1> QED BY <1>1, <1>2, <1>3, PTL DEF MCSpec
-------------------------------------------------------------------------------
(***************************************************************************)
(* Automatic releases, for any number of commits, runs, reruns and forced  *)
(* pushes.                                                                 *)
(***************************************************************************)
Phases == {"waiting", "first", "replacement", "second", "replacement again", "reuse",
           "capture", "consume", "draft", "confirm", "publish"} \cup Automatic!Verdicts

Positive == Nat \ {0}

\* Whatever the bounds on pushes are.
RunsTyped == runs \in Seq([event : Automatic!Events, sha : Positive, at : Phases])

\* A commit is based on commits that are not newer, and on all that these are based on.
Branches == /\ past \in Seq(SUBSET Nat) /\ pushed \in Seq(Positive)
            /\ branchHead \in DOMAIN past
            /\ \A c \in DOMAIN past : c \in past[c] /\ past[c] \subseteq 1..c
            /\ \A c \in DOMAIN past : \A a \in past[c] : past[a] \subseteq past[c]

\* The concurrency group.
OneExecutes == \A r, s \in DOMAIN runs : Automatic!Executes(r) /\ Automatic!Executes(s) => r = s

\* The captured head is the source of the run, until it was confirmed.
Captured == \A r \in DOMAIN runs : runs[r].at \in {"consume", "draft", "confirm"}
                                      => seen = runs[r].sha

Numbered(r) == runs[r].at \in {"draft", "confirm", "publish"}

\* Only a forced push takes a release off the branch.
Retained(c) == c \in DOMAIN past /\ c \in past[branchHead] \cup dropped

Releases == /\ public \in Seq(Positive)
            /\ \A i \in DOMAIN public : Retained(public[i])
            /\ Automatic!AutomaticOrder

\* What is confirmed was the head, when no release that is still on the branch was newer.
Confirmable(c) == /\ c \in since /\ Retained(c)
                  /\ \A i \in DOMAIN public :
                        c \in past[public[i]] \ {public[i]} => public[i] \in dropped
Since == \A r \in DOMAIN runs : Numbered(r) => branchHead \in since
Confirmed == \A r \in DOMAIN runs : runs[r].at = "publish" => Confirmable(runs[r].sha)

RunsInv == RunsTyped /\ Branches /\ OneExecutes /\ Captured /\ Releases /\ Since /\ Confirmed
-------------------------------------------------------------------------------
LEMMA InitRunsInv == Automatic!Init => RunsInv
<1> SUFFICES ASSUME Automatic!Init PROVE RunsInv
  OBVIOUS
<1>1. runs = <<>> /\ DOMAIN runs = {} /\ public = <<>> /\ DOMAIN public = {} /\ since = {}
  BY DEF Automatic!Init
<1>2. past = <<{1}>> /\ DOMAIN past = {1} /\ past[1] = {1} /\ Len(past) = 1 /\ branchHead = 1
      /\ pushed = <<1>>
  BY DEF Automatic!Init
<1>3. Branches
  BY <1>2 DEF Branches, Positive
<1>4. RunsTyped /\ Releases
  BY <1>1 DEF RunsTyped, Releases, Automatic!AutomaticOrder
<1>5. OneExecutes /\ Captured /\ Since /\ Confirmed
  BY <1>1 DEF OneExecutes, Captured, Since, Confirmed
<1> QED BY <1>3, <1>4, <1>5 DEF RunsInv

\* Steps that create or requeue a run.
Requeued == /\ RunsTyped'
            /\ \A r \in DOMAIN runs' :
                  \/ runs'[r].at \in {"waiting", "cancelled"}
                  \/ r \in DOMAIN runs /\ runs'[r] = runs[r]

LEMMA RequeuedRunsInv ==
    ASSUME RunsInv, Requeued, UNCHANGED <<branchHead, past, seen, since, public, dropped>>,
           pushed' \in Seq(Positive)
    PROVE  RunsInv'
<1>1. \A r \in DOMAIN runs' : runs'[r].at \notin {"waiting", "cancelled"}
                                 => r \in DOMAIN runs /\ runs'[r] = runs[r]
  BY DEF Requeued
<1>2. OneExecutes'
  BY <1>1 DEF RunsInv, OneExecutes, Automatic!Executes, Automatic!Verdicts
<1>3. Captured' /\ Confirmed'
  BY <1>1 DEF RunsInv, Captured, Confirmed, Confirmable, Retained
<1>4. Since'
  BY <1>1 DEF RunsInv, Since, Numbered
<1>5. Branches' /\ Releases'
  BY DEF RunsInv, Branches, Releases, Retained, Automatic!AutomaticOrder
<1> QED BY <1>2, <1>3, <1>4, <1>5 DEF RunsInv, Requeued

LEMMA QueueRequeues ==
    ASSUME NEW queued \in Seq([event : Automatic!Events, sha : Positive, at : Phases]),
           NEW r \in DOMAIN queued,
           runs' = Automatic!Queue(queued, r),
           \A run \in DOMAIN queued \ {r} : run \in DOMAIN runs /\ queued[run] = runs[run]
    PROVE  Requeued
<1> DEFINE New == [event : Automatic!Events, sha : Positive, at : Phases]
<1>0. queued \in Seq(New)
  OBVIOUS
<1>1. "waiting" \in Phases /\ "cancelled" \in Phases
  BY DEF Phases, Automatic!Verdicts
<1>2. /\ DOMAIN queued = 1..Len(queued) /\ Len(queued) \in Nat
      /\ \A run \in DOMAIN queued : queued[run] \in New
  <2> HIDE DEF New
  <2> QED BY <1>0
<1>3. \A run \in DOMAIN queued, phase \in {"waiting", "cancelled"} :
         [queued[run] EXCEPT !.at = phase] \in New /\ [queued[run] EXCEPT !.at = phase].at = phase
  BY <1>1, <1>2
<1>4. DOMAIN runs' = DOMAIN queued
  BY DEF Automatic!Queue
<1>5. \A run \in DOMAIN queued :
         runs'[run] \in {[queued[run] EXCEPT !.at = "waiting"],
                           [queued[run] EXCEPT !.at = "cancelled"]}
         \/ (run # r /\ runs'[run] = queued[run])
  BY DEF Automatic!Queue
<1>6. \A run \in DOMAIN queued : runs'[run] \in New
  BY <1>2, <1>3, <1>5
<1>7. runs' = [run \in 1..Len(queued) |-> runs'[run]]
  BY <1>2 DEF Automatic!Queue
<1>8. RunsTyped'
  BY <1>2, <1>6, <1>7 DEF RunsTyped
<1>9. \A run \in DOMAIN runs' :
         \/ runs'[run].at \in {"waiting", "cancelled"}
         \/ run \in DOMAIN runs /\ runs'[run] = runs[run]
  BY <1>3, <1>4, <1>5
<1> QED BY <1>8, <1>9 DEF Requeued

LEMMA CreateRequeues ==
    ASSUME RunsInv, NEW event \in Automatic!Events, NEW sha \in Positive,
           Automatic!Create(event, sha)
    PROVE  Requeued
<1> DEFINE new == [event |-> event, sha |-> sha, at |-> "waiting"]
           queued == Append(runs, new)
<1>1. runs \in Seq([event : Automatic!Events, sha : Positive, at : Phases])
  BY DEF RunsInv, RunsTyped
<1>2. new \in [event : Automatic!Events, sha : Positive, at : Phases]
  BY DEF Phases
<1> HIDE DEF new
<1>3. queued \in Seq([event : Automatic!Events, sha : Positive, at : Phases])
      /\ Len(runs) + 1 \in DOMAIN queued
  BY <1>1, <1>2
<1>4. \A run \in DOMAIN queued \ {Len(runs) + 1} : run \in DOMAIN runs /\ queued[run] = runs[run]
  BY <1>1
<1>5. runs' = Automatic!Queue(queued, Len(runs) + 1)
  BY DEF Automatic!Create, new
<1> QED BY <1>3, <1>4, <1>5, QueueRequeues
-------------------------------------------------------------------------------
(***************************************************************************)
(* The steps of the executing run.  The others wait or are over, so only   *)
(* its own obligations are left.                                           *)
(***************************************************************************)
Alone(r) == \A s \in DOMAIN runs \ {r} : ~Automatic!Executes(s)

LEMMA Moved ==
    ASSUME RunsInv, NEW r \in DOMAIN runs, NEW to \in Phases, Alone(r),
           runs' = [runs EXCEPT ![r].at = to]
    PROVE  /\ RunsTyped' /\ OneExecutes' /\ DOMAIN runs' = DOMAIN runs
           /\ runs'[r].at = to /\ runs'[r].sha = runs[r].sha
           /\ \A s \in DOMAIN runs \ {r} : runs'[s] = runs[s] /\ ~Automatic!Executes(s)
<1> DEFINE AnyRun == [event : Automatic!Events, sha : Positive, at : Phases]
           new == [runs[r] EXCEPT !.at = to]
<1>1. runs \in Seq(AnyRun)
  BY DEF RunsInv, RunsTyped
<1>2. runs[r] \in AnyRun
  <2> HIDE DEF AnyRun
  <2> QED BY <1>1
<1>3. new \in AnyRun /\ new.at = to /\ new.sha = runs[r].sha
  BY <1>2
<1>4. runs' = [runs EXCEPT ![r] = new]
  BY <1>1
<1>5. runs' \in Seq(AnyRun) /\ DOMAIN runs' = DOMAIN runs /\ runs'[r] = new
      /\ \A s \in DOMAIN runs \ {r} : runs'[s] = runs[s]
  <2> HIDE DEF AnyRun, new
  <2> QED BY <1>1, <1>3, <1>4
<1>6. \A s \in DOMAIN runs \ {r} :
         Automatic!Executes(s)' = Automatic!Executes(s) /\ ~Automatic!Executes(s)
  BY <1>5 DEF Automatic!Executes, Alone
<1>7. OneExecutes'
  BY <1>5, <1>6 DEF OneExecutes
<1> QED BY <1>3, <1>5, <1>6, <1>7 DEF RunsTyped

LEMMA Idle ==
    ASSUME NEW s \in DOMAIN runs, ~Automatic!Executes(s)
    PROVE  runs[s].at \notin {"consume", "draft", "confirm", "publish"}
BY DEF Automatic!Executes, Automatic!Verdicts

LEMMA MovedRunsInv ==
    ASSUME RunsInv, NEW r \in DOMAIN runs, NEW to \in Phases, Alone(r),
           runs' = [runs EXCEPT ![r].at = to],
           Branches', Releases',
           to \in {"consume", "draft", "confirm"} => seen' = runs[r].sha,
           to \in {"draft", "confirm", "publish"} => branchHead' \in since',
           to = "publish" => /\ Confirmable(runs[r].sha)
                             /\ UNCHANGED <<Automatic!Branch, public, since>>
    PROVE  RunsInv'
<1>1. /\ RunsTyped' /\ OneExecutes' /\ DOMAIN runs' = DOMAIN runs
      /\ runs'[r].at = to /\ runs'[r].sha = runs[r].sha
      /\ \A s \in DOMAIN runs \ {r} : runs'[s] = runs[s] /\ ~Automatic!Executes(s)
  BY Moved
<1>2. \A s \in DOMAIN runs \ {r} : runs'[s].at \notin {"consume", "draft", "confirm", "publish"}
  BY <1>1, Idle
<1>3. Captured'
  BY <1>1, <1>2 DEF Captured
<1>4. Since'
  BY <1>1, <1>2 DEF Since, Numbered
<1>5. Confirmed'
  <2> SUFFICES ASSUME NEW s \in DOMAIN runs', runs'[s].at = "publish"
               PROVE  Confirmable(runs[s].sha) /\ runs'[s].sha = runs[s].sha
                      /\ UNCHANGED <<Automatic!Branch, public, since>>
    BY DEF Confirmed, Confirmable, Retained, Automatic!Branch
  <2> QED BY <1>1, <1>2
<1> QED BY <1>1, <1>3, <1>4, <1>5 DEF RunsInv

LEMMA AtPhases ==
    /\ \A phase \in Automatic!Verdicts : phase \in Phases
    /\ {"first", "replacement", "second", "replacement again", "reuse", "capture", "consume",
        "draft", "confirm", "publish", "failed", "superseded", "reused", "published"}
          \subseteq Phases
BY DEF Phases, Automatic!Verdicts

\* The run that executes is alone.
LEMMA ExecutesAlone == ASSUME RunsInv, NEW r \in DOMAIN runs, Automatic!Executes(r) PROVE Alone(r)
BY DEF RunsInv, OneExecutes, Alone

LEMMA SameBranches == ASSUME RunsInv, UNCHANGED Automatic!Branch PROVE Branches'
BY DEF RunsInv, Branches, Automatic!Branch

LEMMA SameReleases ==
    ASSUME RunsInv, UNCHANGED <<Automatic!Branch, public>> PROVE Branches' /\ Releases'
BY SameBranches DEF RunsInv, Releases, Retained, Automatic!AutomaticOrder, Automatic!Branch

\* Before it has a number, and at its end, a run owes nothing.
LEMMA FreeStep ==
    ASSUME RunsInv, NEW r \in DOMAIN runs, Alone(r), UNCHANGED <<Automatic!Branch, public>>,
           NEW to \in Phases \ {"consume", "draft", "confirm", "publish"},
           runs' = [runs EXCEPT ![r].at = to]
    PROVE  RunsInv'
<1> QED BY SameReleases, MovedRunsInv

LEMMA StartStep == ASSUME RunsInv, NEW r \in DOMAIN runs, Automatic!Start(r) PROVE RunsInv'
<1>1. Alone(r)
  BY DEF Alone, Automatic!Start
<1>2. "first" \in Phases \ {"consume", "draft", "confirm", "publish"}
  BY AtPhases
<1>3. /\ UNCHANGED <<Automatic!Branch, public>>
      /\ runs' = [runs EXCEPT ![r].at = "first"]
  BY DEF Automatic!Start, Automatic!Branch
<1> QED BY <1>1, <1>2, <1>3, FreeStep

LEMMA ReadHeadStep == ASSUME RunsInv, NEW r \in DOMAIN runs, Automatic!ReadHead(r) PROVE RunsInv'
<1>1. Automatic!Executes(r)
  <2>1. runs[r].at = "first" \/ runs[r].at = "second"
    BY DEF Automatic!ReadHead, Automatic!Goes
  <2> QED BY <2>1 DEF Automatic!Executes, Automatic!Verdicts
<1>2. PICK to \in {"second", "replacement", "reuse", "replacement again"} :
        runs' = [runs EXCEPT ![r].at = to]
  BY DEF Automatic!ReadHead, Automatic!Goes
<1>3. to \in Phases \ {"consume", "draft", "confirm", "publish"}
  BY <1>2, AtPhases
<1>4. UNCHANGED <<Automatic!Branch, public>>
  BY DEF Automatic!ReadHead
<1> QED BY <1>1, <1>2, <1>3, <1>4, ExecutesAlone, FreeStep

LEMMA GiveWayStep == ASSUME RunsInv, NEW r \in DOMAIN runs, Automatic!GiveWay(r) PROVE RunsInv'
<1>1. Automatic!Executes(r)
  <2>1. runs[r].at = "replacement" \/ runs[r].at = "replacement again"
    BY DEF Automatic!GiveWay
  <2> QED BY <2>1 DEF Automatic!Executes, Automatic!Verdicts
<1>2. PICK to \in {"superseded", "failed"} : runs' = [runs EXCEPT ![r].at = to]
  BY DEF Automatic!GiveWay
<1>3. to \in Phases \ {"consume", "draft", "confirm", "publish"}
  BY <1>2, AtPhases
<1>4. UNCHANGED <<Automatic!Branch, public>>
  BY DEF Automatic!GiveWay
<1> QED BY <1>1, <1>2, <1>3, <1>4, ExecutesAlone, FreeStep

LEMMA ReuseStep == ASSUME RunsInv, NEW r \in DOMAIN runs, Automatic!Reuse(r) PROVE RunsInv'
<1>1. Automatic!Executes(r)
  <2>1. runs[r].at = "reuse"
    BY DEF Automatic!Reuse
  <2> QED BY <2>1 DEF Automatic!Executes, Automatic!Verdicts
<1>2. PICK to \in {"reused", "capture"} : runs' = [runs EXCEPT ![r].at = to]
  BY DEF Automatic!Reuse, Automatic!Goes
<1>3. to \in Phases \ {"consume", "draft", "confirm", "publish"}
  BY <1>2, AtPhases
<1>4. UNCHANGED <<Automatic!Branch, public>>
  BY DEF Automatic!Reuse
<1> QED BY <1>1, <1>2, <1>3, <1>4, ExecutesAlone, FreeStep

LEMMA FailStep == ASSUME RunsInv, NEW r \in DOMAIN runs, Automatic!Fail(r) PROVE RunsInv'
<1>1. Automatic!Executes(r) /\ runs' = [runs EXCEPT ![r].at = "failed"]
  BY DEF Automatic!Fail
<1>2. "failed" \in Phases \ {"consume", "draft", "confirm", "publish"}
  BY AtPhases
<1>3. UNCHANGED <<Automatic!Branch, public>>
  BY DEF Automatic!Fail
<1> QED BY <1>1, <1>2, <1>3, ExecutesAlone, FreeStep
-------------------------------------------------------------------------------
\* The head that is captured is the source.
LEMMA CaptureStep == ASSUME RunsInv, NEW r \in DOMAIN runs, Automatic!Capture(r) PROVE RunsInv'
<1>1. Automatic!Executes(r)
  <2>1. runs[r].at = "capture"
    BY DEF Automatic!Capture, Automatic!Goes
  <2> QED BY <2>1 DEF Automatic!Executes, Automatic!Verdicts
<1>2. PICK to \in {"consume", "failed"} :
        /\ runs' = [runs EXCEPT ![r].at = to]
        /\ to = "consume" => runs[r].sha = branchHead
  BY DEF Automatic!Capture, Automatic!Goes, Automatic!AtHead
<1>3. to \in Phases
  BY <1>2, AtPhases
<1>4. UNCHANGED <<Automatic!Branch, since, public>> /\ seen' = branchHead
  BY DEF Automatic!Capture
<1>5. Branches' /\ Releases'
  BY <1>4, SameReleases
<1> QED BY <1>1, <1>2, <1>3, <1>4, <1>5, ExecutesAlone, MovedRunsInv

\* From here on, a head is one of those since the number was consumed.
LEMMA ConsumeStep == ASSUME RunsInv, NEW r \in DOMAIN runs, Automatic!Consume(r) PROVE RunsInv'
<1>1. runs[r].at = "consume" /\ Automatic!Executes(r)
  BY DEF Automatic!Consume, Automatic!Goes, Automatic!Executes, Automatic!Verdicts
<1>2. "draft" \in Phases
  BY AtPhases
<1>3. /\ UNCHANGED <<Automatic!Branch, public>> /\ seen' = seen /\ since' = {branchHead}
      /\ runs' = [runs EXCEPT ![r].at = "draft"]
  BY DEF Automatic!Consume, Automatic!Goes
<1>4. seen' = runs[r].sha
  BY <1>1, <1>3 DEF RunsInv, Captured
<1>5. Branches' /\ Releases' /\ branchHead' \in since'
  BY <1>3, SameReleases DEF Automatic!Branch
<1> QED BY <1>1, <1>2, <1>3, <1>4, <1>5, ExecutesAlone, MovedRunsInv

LEMMA DraftStep == ASSUME RunsInv, NEW r \in DOMAIN runs, Automatic!Draft(r) PROVE RunsInv'
<1>1. runs[r].at = "draft" /\ Automatic!Executes(r) /\ Numbered(r)
  BY DEF Automatic!Draft, Automatic!Goes, Automatic!Executes, Automatic!Verdicts, Numbered
<1>2. "confirm" \in Phases
  BY AtPhases
<1>3. /\ UNCHANGED <<Automatic!Branch, public>> /\ seen' = seen /\ since' = since
      /\ runs' = [runs EXCEPT ![r].at = "confirm"]
  BY DEF Automatic!Draft, Automatic!Goes
<1>4. seen' = runs[r].sha
  BY <1>1, <1>3 DEF RunsInv, Captured
<1>5. Branches' /\ Releases'
  BY <1>3, SameReleases
<1>6. branchHead' \in since'
  BY <1>1, <1>3 DEF RunsInv, Since, Automatic!Branch
<1> QED BY <1>1, <1>2, <1>3, <1>4, <1>5, <1>6, ExecutesAlone, MovedRunsInv

\* The head is one since the number was consumed, and confirmed to be the source.
LEMMA ConfirmStep == ASSUME RunsInv, NEW r \in DOMAIN runs, Automatic!Confirm(r) PROVE RunsInv'
<1>1. runs[r].at = "confirm" /\ Automatic!Executes(r) /\ Numbered(r)
  BY DEF Automatic!Confirm, Automatic!Goes, Automatic!Executes, Automatic!Verdicts, Numbered
<1>2. PICK to \in {"publish", "failed"} :
        /\ runs' = [runs EXCEPT ![r].at = to]
        /\ to = "publish" => branchHead = seen
  BY DEF Automatic!Confirm, Automatic!Goes
<1>3. to \in Phases
  BY <1>2, AtPhases
<1>4. UNCHANGED <<Automatic!Branch, public>> /\ seen' = seen /\ since' = since
  BY DEF Automatic!Confirm
<1>5. Branches' /\ Releases'
  BY <1>4, SameReleases
<1>6. branchHead \in since /\ branchHead' \in since'
  BY <1>1, <1>4 DEF RunsInv, Since, Automatic!Branch
<1>7. to = "publish" => Confirmable(runs[r].sha)
  <2> SUFFICES ASSUME to = "publish" PROVE Confirmable(branchHead)
    BY <1>1, <1>2 DEF RunsInv, Captured
  <2>1. branchHead \in DOMAIN past /\ branchHead \in past[branchHead]
    BY DEF RunsInv, Branches
  <2>2. ASSUME NEW i \in DOMAIN public, branchHead \in past[public[i]] \ {public[i]}
        PROVE  public[i] \in dropped
    <3>1. public[i] \in DOMAIN past /\ public[i] \in past[branchHead] \cup dropped
      BY DEF RunsInv, Releases, Retained
    <3>2. CASE public[i] \in past[branchHead]
      <4>1. branchHead \in 1..public[i] /\ public[i] \in 1..branchHead
        BY <2>1, <2>2, <3>1, <3>2 DEF RunsInv, Branches
      <4>2. DOMAIN past = 1..Len(past) /\ Len(past) \in Nat
        BY DEF RunsInv, Branches
      <4>3. branchHead \in Nat /\ public[i] \in Nat
        BY <2>1, <3>1, <4>2
      <4> QED BY <2>2, <4>1, <4>3
    <3> QED BY <3>1, <3>2
  <2> QED BY <1>6, <2>1, <2>2 DEF Confirmable, Retained
<1> QED BY <1>1, <1>2, <1>3, <1>4, <1>5, <1>6, <1>7, ExecutesAlone, MovedRunsInv

LEMMA PublishStep ==
    ASSUME RunsInv, NEW r \in DOMAIN runs, Automatic!Publish(r)
    PROVE  RunsInv' /\ runs[r].sha \in since
<1>1. runs[r].at = "publish" /\ Automatic!Executes(r) /\ Numbered(r)
  BY DEF Automatic!Publish, Automatic!Goes, Automatic!Executes, Automatic!Verdicts, Numbered
<1>2. "published" \in Phases
  BY AtPhases
<1>3. /\ UNCHANGED Automatic!Branch /\ seen' = seen /\ since' = since
      /\ runs' = [runs EXCEPT ![r].at = "published"] /\ public' = Append(public, runs[r].sha)
  BY DEF Automatic!Publish, Automatic!Goes
<1>4. Confirmable(runs[r].sha) /\ runs[r].sha \in Positive
  <2>1. Confirmable(runs[r].sha)
    BY <1>1 DEF RunsInv, Confirmed
  <2>2. DOMAIN past = 1..Len(past) /\ Len(past) \in Nat
    BY DEF RunsInv, Branches
  <2> QED BY <2>1, <2>2 DEF Confirmable, Retained, Positive
<1>5. runs[r].sha \in since
  BY <1>4 DEF Confirmable
<1>6. Releases'
  <2> DEFINE sha == runs[r].sha
  <2>1. public \in Seq(Positive) /\ public' = Append(public, sha) /\ UNCHANGED Automatic!Branch
    BY <1>3 DEF RunsInv, Releases
  <2>2. sha \in Positive /\ Confirmable(sha)
    BY <1>4
  <2> HIDE DEF sha
  <2>3. /\ public' \in Seq(Positive) /\ DOMAIN public' = DOMAIN public \cup {Len(public) + 1}
        /\ public'[Len(public) + 1] = sha /\ \A i \in DOMAIN public : public'[i] = public[i]
    BY <2>1, <2>2
  <2>4. \A i \in DOMAIN public' : Retained(public'[i])
    BY <2>2, <2>3 DEF RunsInv, Releases, Confirmable
  <2>5. (\A i \in DOMAIN public : Retained(public[i]))'
    BY <2>1, <2>4 DEF Retained, Automatic!Branch
  <2>6. Automatic!AutomaticOrder'
    <3> SUFFICES ASSUME NEW i \in DOMAIN public', NEW j \in DOMAIN public', i < j,
                        public'[j] \in past[public'[i]] \ {public'[i]}
                 PROVE  public'[i] \in dropped
      BY <2>1 DEF Automatic!AutomaticOrder, Automatic!Branch
    <3>1. i \in DOMAIN public
      <4>1. DOMAIN public = 1..Len(public) /\ Len(public) \in Nat
        BY <2>1
      <4> QED BY <2>3, <4>1
    <3>2. CASE j \in DOMAIN public
      BY <2>3, <3>1, <3>2 DEF RunsInv, Releases, Automatic!AutomaticOrder
    <3>3. CASE j = Len(public) + 1
      BY <2>2, <2>3, <3>1, <3>3 DEF Confirmable
    <3> QED BY <2>3, <3>2, <3>3
  <2> QED BY <2>3, <2>5, <2>6 DEF Releases
<1>7. Branches'
  BY <1>3, SameBranches
<1> QED BY <1>1, <1>2, <1>3, <1>5, <1>6, <1>7, ExecutesAlone, MovedRunsInv
-------------------------------------------------------------------------------
(***************************************************************************)
(* Pushes, and the runs they create.                                       *)
(***************************************************************************)
\* Commits are only added.
Extends == /\ Branches' /\ DOMAIN past \subseteq DOMAIN past'
           /\ \A c \in DOMAIN past : past'[c] = past[c]

LEMMA OldExtends ==
    ASSUME RunsInv, NEW commit \in DOMAIN past, Automatic!OldCommit(commit), Automatic!Moved
    PROVE  Extends
<1>1. past \in Seq(SUBSET Nat) /\ pushed \in Seq(Positive) /\ past' = past
      /\ branchHead' = commit
  BY DEF RunsInv, Branches, Automatic!OldCommit
<1>2. commit \in Positive
  BY <1>1 DEF Positive
<1>3. pushed' \in Seq(Positive)
  BY <1>1, <1>2 DEF Automatic!Moved
<1> QED BY <1>1, <1>3 DEF Extends, RunsInv, Branches

LEMMA NewExtends ==
    ASSUME RunsInv, NEW base \in DOMAIN past, Automatic!NewCommit(base), Automatic!Moved
    PROVE  Extends /\ past[base] \subseteq past'[branchHead']
<1> DEFINE new == Len(past) + 1
           based == past[base] \cup {new}
<1>1. /\ past \in Seq(SUBSET Nat) /\ pushed \in Seq(Positive)
      /\ branchHead' = new /\ past' = Append(past, based) /\ pushed' = Append(pushed, new)
  BY DEF RunsInv, Branches, Automatic!NewCommit, Automatic!Moved
<1>2. /\ new \in Positive /\ Len(past) \in Nat /\ DOMAIN past = 1..Len(past)
      /\ base \in 1..Len(past)
  BY <1>1 DEF Positive
<1>3. past[base] \subseteq 1..base
  BY DEF RunsInv, Branches
<1>4. based \in SUBSET Nat /\ based \subseteq 1..new /\ past[base] \subseteq DOMAIN past
  BY <1>1, <1>2, <1>3 DEF Positive
<1> HIDE DEF based
<1>5. past' \in Seq(SUBSET Nat) /\ pushed' \in Seq(Positive)
  BY <1>1, <1>2, <1>4
<1>6. /\ DOMAIN past' = DOMAIN past \cup {new} /\ past'[new] = based
      /\ \A c \in DOMAIN past : past'[c] = past[c]
  BY <1>1, <1>2, <1>4
<1>7. new \in based /\ past[base] \subseteq based /\ based \subseteq past[base] \cup {new}
  BY DEF based
<1>8. \A c \in DOMAIN past' : c \in past'[c] /\ past'[c] \subseteq 1..c
  BY <1>4, <1>6, <1>7 DEF RunsInv, Branches
<1>9. ASSUME NEW c \in DOMAIN past', NEW a \in past'[c] PROVE past'[a] \subseteq past'[c]
  <2>1. CASE c \in DOMAIN past
    <3>1. a \in past[c] /\ past[c] \subseteq 1..c /\ past[a] \subseteq past[c]
      BY <1>6, <1>9, <2>1 DEF RunsInv, Branches
    <3>2. a \in DOMAIN past
      BY <1>2, <2>1, <3>1
    <3> QED BY <1>6, <2>1, <3>1, <3>2
  <2>2. CASE c = new /\ a = new
    BY <2>2
  <2>3. CASE c = new /\ a \in past[base]
    <3>1. a \in DOMAIN past /\ past[a] \subseteq past[base]
      BY <1>4, <2>3 DEF RunsInv, Branches
    <3> QED BY <1>6, <1>7, <2>3, <3>1
  <2> QED BY <1>6, <1>7, <1>9, <2>1, <2>2, <2>3
<1>10. Branches'
  BY <1>1, <1>5, <1>6, <1>8, <1>9 DEF Branches
<1> QED BY <1>1, <1>6, <1>7, <1>10 DEF Extends

\* What is released or confirmed stays on the branch, or a forced push took it off.
LEMMA MovedBranch ==
    ASSUME RunsInv, Extends, Automatic!Moved, dropped \subseteq dropped',
           \A c \in Automatic!Released : Retained(c) => c \in past'[branchHead'] \cup dropped'
    PROVE  RunsInv'
<1>1. UNCHANGED <<runs, seen, public>> /\ since' = since \cup {branchHead'}
  BY DEF Automatic!Moved
<1>2. ASSUME NEW c, c \in Automatic!Released, Retained(c)
      PROVE  c \in DOMAIN past' /\ c \in past'[branchHead'] \cup dropped'
  BY <1>2 DEF Retained, Extends
<1>3. \A i \in DOMAIN public : /\ Retained(public[i]) /\ public[i] \in Automatic!Released
                                /\ past'[public[i]] = past[public[i]]
  BY DEF RunsInv, Releases, Retained, Extends, Automatic!Released
<1>4. Automatic!AutomaticOrder'
  BY <1>1, <1>3 DEF RunsInv, Releases, Automatic!AutomaticOrder
<1>5. Releases'
  <2>1. (\A i \in DOMAIN public : Retained(public[i]))'
    BY <1>1, <1>2, <1>3 DEF Retained
  <2> QED BY <1>1, <1>4, <2>1 DEF RunsInv, Releases
<1>6. Confirmed'
  <2> SUFFICES ASSUME NEW r \in DOMAIN runs, runs[r].at = "publish"
               PROVE  Confirmable(runs[r].sha)'
    BY <1>1 DEF Confirmed
  <2>1. Confirmable(runs[r].sha) /\ runs[r].sha \in Automatic!Released
    BY DEF RunsInv, Confirmed, Automatic!Released
  <2>2. Retained(runs[r].sha)'
    BY <1>1, <1>2, <2>1 DEF Confirmable, Retained
  <2> QED BY <1>1, <1>3, <2>1, <2>2 DEF Confirmable
<1>7. RunsTyped' /\ OneExecutes' /\ Captured' /\ Since'
  BY <1>1 DEF RunsInv, RunsTyped, OneExecutes, Automatic!Executes, Captured, Since, Numbered
<1> QED BY <1>5, <1>6, <1>7 DEF RunsInv, Extends

LEMMA PushStep == ASSUME RunsInv, Automatic!Push PROVE RunsInv'
<1>1. Automatic!Moved /\ dropped' = dropped
  BY DEF Automatic!Push
<1>2. Extends /\ past[branchHead] \subseteq past'[branchHead']
  <2>1. CASE Automatic!NewCommit(branchHead)
    <3>1. branchHead \in DOMAIN past
      BY DEF RunsInv, Branches
    <3> QED BY <1>1, <2>1, <3>1, NewExtends
  <2>2. CASE ~Automatic!NewCommit(branchHead)
    <3>1. PICK later \in DOMAIN past : branchHead \in past[later] /\ Automatic!OldCommit(later)
      BY <2>2 DEF Automatic!Push
    <3>2. Extends
      BY <1>1, <3>1, OldExtends
    <3>3. past[branchHead] \subseteq past[later]
      BY <3>1 DEF RunsInv, Branches
    <3> QED BY <3>1, <3>2, <3>3 DEF Automatic!OldCommit
  <2> QED BY <2>1, <2>2
<1> QED BY <1>1, <1>2, MovedBranch DEF Retained

LEMMA ForcePushStep == ASSUME RunsInv, Automatic!ForcePush PROVE RunsInv'
<1>1. /\ Automatic!Moved
      /\ dropped' = dropped \cup (Automatic!Released \ past'[branchHead'])
  BY DEF Automatic!ForcePush
<1>2. PICK base \in DOMAIN past : Automatic!NewCommit(base) \/ Automatic!OldCommit(base)
  BY DEF Automatic!ForcePush
<1>3. Extends
  BY <1>1, <1>2, NewExtends, OldExtends
<1> QED BY <1>1, <1>3, MovedBranch

LEMMA CreateStep ==
    ASSUME RunsInv, Automatic!CreatePushRun \/ Automatic!CreateNightly PROVE RunsInv'
<1>1. CASE Automatic!CreatePushRun
  <2>1. pushed \in Seq(Positive) /\ pushed # <<>>
    BY <1>1 DEF RunsInv, Branches, Automatic!CreatePushRun
  <2>2. Head(pushed) \in Positive /\ Tail(pushed) \in Seq(Positive)
    BY <2>1
  <2>3. "push" \in Automatic!Events
    BY DEF Automatic!Events
  <2>4. Requeued
    BY <1>1, <2>2, <2>3, CreateRequeues DEF Automatic!CreatePushRun
  <2> QED BY <1>1, <2>2, <2>4, RequeuedRunsInv DEF Automatic!CreatePushRun
<1>2. CASE Automatic!CreateNightly
  <2>1. "schedule" \in Automatic!Events /\ branchHead \in Positive
    BY DEF Automatic!Events, RunsInv, Branches, Positive
  <2>2. Requeued
    BY <1>2, <2>1, CreateRequeues DEF Automatic!CreateNightly
  <2>3. UNCHANGED <<branchHead, past, seen, since, public, dropped>> /\ pushed' \in Seq(Positive)
    BY <1>2 DEF Automatic!CreateNightly, RunsInv, Branches
  <2> QED BY <2>2, <2>3, RequeuedRunsInv
<1> QED BY <1>1, <1>2

LEMMA RerunStep == ASSUME RunsInv, NEW r \in DOMAIN runs, Automatic!Rerun(r) PROVE RunsInv'
<1>1. runs \in Seq([event : Automatic!Events, sha : Positive, at : Phases])
  BY DEF RunsInv, RunsTyped
<1>2. Requeued
  BY <1>1, QueueRequeues DEF Automatic!Rerun
<1>3. UNCHANGED <<branchHead, past, seen, since, public, dropped>> /\ pushed' \in Seq(Positive)
  BY DEF Automatic!Rerun, Automatic!Branch, RunsInv, Branches
<1> QED BY <1>2, <1>3, RequeuedRunsInv

LEMMA RunsInductive == RunsInv /\ (Automatic!Next \/ UNCHANGED automatic) => RunsInv'
<1> SUFFICES ASSUME RunsInv, (Automatic!Next \/ UNCHANGED automatic) PROVE RunsInv'
  OBVIOUS
<1>1. CASE UNCHANGED automatic
  <2>1. Branches' /\ Releases' /\ RunsTyped'
    BY <1>1 DEF automatic, RunsInv, Branches, Releases, Retained, Automatic!AutomaticOrder,
                RunsTyped
  <2>2. OneExecutes' /\ Captured' /\ Since' /\ Confirmed'
    BY <1>1 DEF automatic, RunsInv, OneExecutes, Automatic!Executes, Captured, Since, Numbered,
                Confirmed, Confirmable, Retained
  <2> QED BY <2>1, <2>2 DEF RunsInv
<1>2. CASE Automatic!CreatePushRun \/ Automatic!CreateNightly
  BY <1>2, CreateStep
<1>3. CASE Automatic!Push \/ Automatic!ForcePush
  BY <1>3, PushStep, ForcePushStep
<1>4. ASSUME NEW r \in DOMAIN runs, Automatic!Execute(r) PROVE RunsInv'
  BY <1>4, StartStep, ReadHeadStep, GiveWayStep, ReuseStep, CaptureStep, ConsumeStep, DraftStep,
     ConfirmStep, PublishStep DEF Automatic!Execute
<1>5. ASSUME NEW r \in DOMAIN runs, Automatic!Fail(r) \/ Automatic!Rerun(r) PROVE RunsInv'
  BY <1>5, FailStep, RerunStep
<1> QED BY <1>1, <1>2, <1>3, <1>4, <1>5 DEF Automatic!Next

LEMMA RunsInvariant == MCSpec => []RunsInv
<1>1. MCInit => RunsInv
  BY InitRunsInv DEF MCInit
<1>2. RunsInv /\ [MCNext]_all => RunsInv'
  BY RunsInductive DEF MCNext, Part, all
<1> QED BY <1>1, <1>2, PTL DEF MCSpec

(***************************************************************************)
(* No rerun and no delay between two requests lets a run publish a commit  *)
(* that a released commit is based on, unless a forced push took the       *)
(* released commit off the branch.                                         *)
(***************************************************************************)
THEOREM ReleasesInOrder == MCSpec => []AutomaticOrder
<1>1. RunsInv => AutomaticOrder
  BY DEF RunsInv, Releases, AutomaticOrder
<1> QED BY <1>1, RunsInvariant, PTL

(***************************************************************************)
(* The source of an automatic release was the head of the default branch   *)
(* at an instant after the release consumed its number.                    *)
(***************************************************************************)
THEOREM PublishesAHead == MCSpec => PublishedWasHead
<1> DEFINE WasHead == \A r \in DOMAIN runs :
              runs[r].at = "publish" /\ runs'[r].at = "published" => runs[r].sha \in since
<1>1. RunsInv => [WasHead]_(Automatic!vars)
  BY DEF RunsInv, Confirmed, Confirmable
<1>2. MCSpec => [][WasHead]_(Automatic!vars)
  <2> HIDE DEF WasHead
  <2> QED BY <1>1, RunsInvariant, PTL
<1> QED BY <1>2 DEF PublishedWasHead, Automatic!PublishedWasHead

-------------------------------------------------------------------------------
(***************************************************************************)
(* What the edits of the declarations do to a file.                        *)
(***************************************************************************)
Fielded(field) ==
    field = Entry(field.field, field.package, field.local, field.numeric, field.value)

Content(c) == /\ c = [edits |-> c.edits, fields |-> c.fields]
              /\ \A i \in DOMAIN c.fields : Fielded(c.fields[i])

\* The file c, the files that differ from it in values that are in W, and a refusal.
Values(c, W) == {c.fields[i].value : i \in DOMAIN c.fields} \cup W
Fields(c, W) ==
    {Entry(c.fields[i].field, c.fields[i].package, c.fields[i].local, c.fields[i].numeric, v) :
        i \in DOMAIN c.fields, v \in Values(c, W)}
Versions(c, W) ==
    {None, c} \cup {[edits |-> c.edits, fields |-> f] : f \in [DOMAIN c.fields -> Fields(c, W)]}

LEMMA VersionsAre ==
    ASSUME NEW c, Content(c), NEW W, NEW x \in Versions(c, W), x # None
    PROVE  /\ Content(x) /\ x.edits = c.edits /\ DOMAIN x.fields = DOMAIN c.fields
           /\ \A i \in DOMAIN c.fields : x.fields[i] \in Fields(c, W)
<1>1. CASE x = c
  <2>1. ASSUME NEW i \in DOMAIN c.fields PROVE c.fields[i] \in Fields(c, W)
    BY DEF Fields, Values, Content, Fielded
  <2> QED BY <1>1, <2>1
<1>2. CASE x # c
  <2>1. PICK f \in [DOMAIN c.fields -> Fields(c, W)] : x = [edits |-> c.edits, fields |-> f]
    BY <1>2 DEF Versions
  <2>2. x.fields = f /\ x.edits = c.edits
    BY <2>1
  <2>3. ASSUME NEW y \in Fields(c, W) PROVE Fielded(y)
    BY DEF Fields, Fielded, Entry
  <2> QED BY <2>1, <2>2, <2>3 DEF Content
<1> QED BY <1>1, <1>2

LEMMA Revalued ==
    ASSUME NEW a, NEW b, NEW l, NEW n, NEW w, NEW v
    PROVE  [Entry(a, b, l, n, w) EXCEPT !.value = v] = Entry(a, b, l, n, v)
BY DEF Entry

\* An edit changes values, or is refused.
LEMMA EditKeeps ==
    ASSUME NEW c, Content(c), NEW W, NEW x \in Versions(c, W), NEW d, NEW v \in W
    PROVE  VersionInputs!Edit(x, d, v) \in Versions(c, W)
<1> DEFINE owned == VersionInputs!Owned(x, d)
           g == [i \in DOMAIN x.fields |-> IF i \in owned THEN [x.fields[i] EXCEPT !.value = v]
                                           ELSE x.fields[i]]
<1>1. CASE VersionInputs!Edit(x, d, v) = None
  BY <1>1 DEF Versions
<1>2. CASE VersionInputs!Edit(x, d, v) # None
  <2>1. x # None /\ VersionInputs!Edit(x, d, v) = [x EXCEPT !.fields = g]
    BY <1>2 DEF VersionInputs!Edit
  <2>2. /\ Content(x) /\ x.edits = c.edits /\ DOMAIN x.fields = DOMAIN c.fields
        /\ \A i \in DOMAIN c.fields : x.fields[i] \in Fields(c, W)
    BY <2>1, VersionsAre
  <2> HIDE DEF owned
  <2>3. ASSUME NEW i \in DOMAIN c.fields PROVE [x.fields[i] EXCEPT !.value = v] \in Fields(c, W)
    <3>1. PICK j \in DOMAIN c.fields, w \in Values(c, W) :
              x.fields[i] = Entry(c.fields[j].field, c.fields[j].package, c.fields[j].local,
                                  c.fields[j].numeric, w)
      BY <2>2 DEF Fields
    <3>2. [x.fields[i] EXCEPT !.value = v] =
              Entry(c.fields[j].field, c.fields[j].package, c.fields[j].local,
                    c.fields[j].numeric, v)
      BY <3>1 DEF Entry
    <3> QED BY <3>2 DEF Fields, Values
  <2>4. g \in [DOMAIN c.fields -> Fields(c, W)]
    BY <2>2, <2>3
  <2> HIDE DEF g
  <2>5. [x EXCEPT !.fields = g] = [edits |-> c.edits, fields |-> g]
    <3>1. x = [edits |-> c.edits, fields |-> x.fields]
      BY <2>2 DEF Content
    <3> QED BY <3>1
  <2> QED BY <2>1, <2>4, <2>5 DEF Versions
<1> QED BY <1>1, <1>2

-------------------------------------------------------------------------------
\* The first k of n indices.
LEMMA Prefix ==
    ASSUME NEW n \in Nat, NEW k \in 1..n
    PROVE  1..k \in SUBSET (1..n) /\ 1..k # {} /\ Max(1..k) = k /\ (1..k) \ {k} = 1..(k - 1)
<1>1. k \in Nat /\ k > 0 /\ 1..k \in SUBSET (1..n) /\ 1..k # {}
  OBVIOUS
<1> QED BY <1>1, MaxOfRange

EditsFold(h, path, p, c, declarations) ==
    h = [s \in SUBSET DOMAIN declarations |->
            IF s = {} THEN c
            ELSE IF declarations[Max(s)] \in VersionInputs!Of(path)
            THEN VersionInputs!Edit(h[s \ {Max(s)}], declarations[Max(s)],
                                    VersionInputs!ProjectedValue(p, declarations[Max(s)]))
            ELSE h[s \ {Max(s)}]]

Checked(j) == /\ Len(j.declarations) \in Nat \ {0}
              /\ DOMAIN j.declarations = 1..Len(j.declarations)
              /\ \A i \in 1..Len(j.declarations) : j.declarations[i].path \in DOMAIN Committed

LEMMA JobsChecked == ASSUME NEW j \in Jobs PROVE Checked(j)
BY FilesAssumption DEF Checked

\* All the edits of a file leave what people did to it.
LEMMA EditAllKeeps ==
    ASSUME Checked(job), NEW c, Content(c), NEW path, NEW p,
           VersionInputs!EditAll(c, path, p) # None
    PROVE  LET after == VersionInputs!EditAll(c, path, p)
           IN  Content(after) /\ after.edits = c.edits
<1> DEFINE n == Len(job.declarations)
           decl == job.declarations
           W == {VersionInputs!ProjectedValue(p, decl[i]) : i \in 1..n}
           V == Versions(c, W)
           folds == [q \in (1..n) \X V |->
                      IF decl[q[1]] \in VersionInputs!Of(path)
                      THEN VersionInputs!Edit(q[2], decl[q[1]],
                                              VersionInputs!ProjectedValue(p, decl[q[1]]))
                      ELSE q[2]]
           Does(i, v) == IF decl[i] \in VersionInputs!Of(path)
                         THEN VersionInputs!Edit(v, decl[i],
                                                 VersionInputs!ProjectedValue(p, decl[i]))
                         ELSE v
<1>1. n \in Nat /\ DOMAIN decl = 1..n
  BY DEF Checked
<1>2. \A i \in 1..n, v \in V : folds[<<i, v>>] = Does(i, v) /\ Does(i, v) \in V
  <2>1. ASSUME NEW i \in 1..n, NEW v \in V PROVE Does(i, v) \in V
    <3>1. VersionInputs!ProjectedValue(p, decl[i]) \in W
      OBVIOUS
    <3> HIDE DEF W
    <3> QED BY <3>1, EditKeeps
  <2>2. ASSUME NEW i \in 1..n, NEW v \in V PROVE folds[<<i, v>>] = Does(i, v)
    OBVIOUS
  <2> HIDE DEF folds, Does
  <2> QED BY <2>1, <2>2
<1>3. c \in V
  BY DEF Versions
<1> HIDE DEF V, folds, n
<1>4. PICK g \in [SUBSET (1..n) -> V] : FoldsLeft(g, n, c, folds)
  <2>1. StepsTo(folds, 1..n, V)
    <3> HIDE DEF Does
    <3> QED BY <1>2 DEF StepsTo
  <2> QED BY <1>1, <1>3, <2>1, LeftRecursion
<1>5. EditsFold(g, path, p, c, decl)
  <2>1. ASSUME NEW s \in SUBSET (1..n), s # {} PROVE g[s] = Does(Max(s), g[s \ {Max(s)}])
    <3>1. Max(s) \in 1..n /\ g[s \ {Max(s)}] \in V
      BY <1>1, <2>1, MaxInside
    <3>2. g[s] = folds[<<Max(s), g[s \ {Max(s)}]>>]
      BY <1>4, <2>1 DEF FoldsLeft
    <3> HIDE DEF Does
    <3> QED BY <1>2, <3>1, <3>2
  <2>2. g[{}] = c /\ g = [s \in SUBSET (1..n) |-> g[s]]
    BY <1>4 DEF FoldsLeft
  <2> QED BY <1>1, <2>1, <2>2 DEF EditsFold
<1> DEFINE h == CHOOSE iter : EditsFold(iter, path, p, c, decl)
<1>6. EditsFold(h, path, p, c, decl)
  BY <1>5
<1>7. VersionInputs!EditAll(c, path, p) = h[1..n]
  BY <1>1 DEF VersionInputs!EditAll, VersionInputs!FoldLeft, VersionInputs!MapThenFoldSet,
              EditsFold, Max, VersionInputs!Max
<1> HIDE DEF h
<1> DEFINE S == {k \in 0..n : h[1..k] \in V}
<1>8. 0 \in S
  <2>1. h[1..0] = c
    BY <1>1, <1>6 DEF EditsFold
  <2> QED BY <1>1, <1>3, <2>1
<1>9. ASSUME NEW k \in 1..n, k - 1 \in S PROVE k \in S
  <2>1. 1..k \in SUBSET (1..n) /\ 1..k # {} /\ Max(1..k) = k /\ (1..k) \ {k} = 1..(k - 1)
    BY <1>1, Prefix
  <2>2. h[1..k] = Does(k, h[1..(k - 1)])
    BY <1>1, <1>6, <2>1 DEF EditsFold
  <2>3. h[1..(k - 1)] \in V
    BY <1>9
  <2>4. h[1..k] \in V
    <3> HIDE DEF Does
    <3> QED BY <1>2, <2>2, <2>3
  <2> QED BY <1>1, <2>4
<1>10. h[1..n] \in V
  <2>1. 0..n \subseteq S
    <3> HIDE DEF S
    <3> QED BY <1>1, <1>8, <1>9, RangeInduction
  <2> QED BY <1>1, <2>1
<1> QED
  <2>1. VersionInputs!EditAll(c, path, p) \in Versions(c, W)
    BY <1>7, <1>10 DEF V
  <2> HIDE DEF W
  <2> QED BY <2>1, VersionsAre

-------------------------------------------------------------------------------
(***************************************************************************)
(* The paths the declarations name.                                        *)
(***************************************************************************)
Paths == DOMAIN Committed
Concerns(c, d) == c = "check-base" => ~VersionInputs!NativeBuild(d)

\* Those of the first k declarations, and all of them.
NamedTo(c, j, k) == {j.declarations[i].path : i \in {i \in 1..k : Concerns(c, j.declarations[i])}}
Named(c, j) == NamedTo(c, j, Len(j.declarations))

PathsFold(h, c, declarations) ==
    h = [s \in SUBSET DOMAIN declarations |->
            IF s = {} THEN <<>>
            ELSE IF \/ ~Concerns(c, declarations[Max(s)])
                    \/ VersionInputs!Contains(h[s \ {Max(s)}], declarations[Max(s)].path)
            THEN h[s \ {Max(s)}]
            ELSE Append(h[s \ {Max(s)}], declarations[Max(s)].path)]
Listed(c, declarations) == (CHOOSE h : PathsFold(h, c, declarations))[DOMAIN declarations]

LEMMA DeclaredListed ==
    /\ VersionInputs!Declared = Listed(command, job.declarations)
    /\ VersionInputs!Declared' = Listed(command', job'.declarations)
BY DEF VersionInputs!Declared, VersionInputs!FoldLeft, VersionInputs!MapThenFoldSet, Listed,
       PathsFold, Max, VersionInputs!Max, VersionInputs!Concerned, Concerns

LEMMA NamedGrows ==
    ASSUME NEW c, NEW j, Checked(j), NEW k \in 1..Len(j.declarations)
    PROVE  NamedTo(c, j, k) = IF Concerns(c, j.declarations[k])
                              THEN NamedTo(c, j, k - 1) \cup {j.declarations[k].path}
                              ELSE NamedTo(c, j, k - 1)
<1> DEFINE before == {i \in 1..(k - 1) : Concerns(c, j.declarations[i])}
           upto == {i \in 1..k : Concerns(c, j.declarations[i])}
<1>1. upto = IF Concerns(c, j.declarations[k]) THEN before \cup {k} ELSE before
  <2>1. 1..k = (1..(k - 1)) \cup {k} /\ k \notin 1..(k - 1)
    BY DEF Checked
  <2> QED BY <2>1
<1> QED BY <1>1 DEF NamedTo

LEMMA AppendedPath ==
    ASSUME NEW T, NEW seq \in Seq(T), NEW x \in T
    PROVE  Append(seq, x) \in Seq(T) /\ Range(Append(seq, x)) = Range(seq) \cup {x}
<1>1. /\ Append(seq, x) \in Seq(T)
      /\ DOMAIN Append(seq, x) = 1 .. Len(seq) + 1 /\ DOMAIN seq = 1..Len(seq)
      /\ Append(seq, x)[Len(seq) + 1] = x
      /\ \A i \in 1..Len(seq) : Append(seq, x)[i] = seq[i]
  OBVIOUS
<1>2. Len(seq) \in Nat /\ 1 .. Len(seq) + 1 = (1..Len(seq)) \cup {Len(seq) + 1}
  OBVIOUS
<1> QED BY <1>1, <1>2 DEF Range

LEMMA ListedAll ==
    ASSUME NEW c, NEW j, Checked(j)
    PROVE  /\ Listed(c, j.declarations) \in Seq(Paths)
           /\ Range(Listed(c, j.declarations)) = Named(c, j)
<1> DEFINE n == Len(j.declarations)
           decl == j.declarations
           V == Seq(Paths)
           Does(i, v) == IF \/ ~Concerns(c, decl[i])
                            \/ VersionInputs!Contains(v, decl[i].path)
                         THEN v ELSE Append(v, decl[i].path)
           folds == [q \in (1..n) \X V |-> Does(q[1], q[2])]
<1>1. n \in Nat /\ DOMAIN decl = 1..n /\ \A i \in 1..n : decl[i].path \in Paths
  BY DEF Checked, Paths
<1>2. \A i \in 1..n, v \in V : folds[<<i, v>>] = Does(i, v) /\ Does(i, v) \in V
  <2>1. ASSUME NEW i \in 1..n, NEW v \in V PROVE Does(i, v) \in V
    <3>1. Append(v, decl[i].path) \in V
      BY <1>1
    <3> QED BY <3>1
  <2> HIDE DEF Does
  <2>2. ASSUME NEW i \in 1..n, NEW v \in V PROVE folds[<<i, v>>] = Does(i, v)
    OBVIOUS
  <2> HIDE DEF folds
  <2> QED BY <2>1, <2>2
<1>3. <<>> \in V
  OBVIOUS
<1> HIDE DEF V, folds, n
<1>4. PICK g \in [SUBSET (1..n) -> V] : FoldsLeft(g, n, <<>>, folds)
  <2>1. StepsTo(folds, 1..n, V)
    <3> HIDE DEF Does
    <3> QED BY <1>2 DEF StepsTo
  <2> QED BY <1>1, <1>3, <2>1, LeftRecursion
<1>5. PathsFold(g, c, decl)
  <2>1. ASSUME NEW s \in SUBSET (1..n), s # {} PROVE g[s] = Does(Max(s), g[s \ {Max(s)}])
    <3>1. Max(s) \in 1..n /\ g[s \ {Max(s)}] \in V
      BY <1>1, <2>1, MaxInside
    <3>2. g[s] = folds[<<Max(s), g[s \ {Max(s)}]>>]
      BY <1>4, <2>1 DEF FoldsLeft
    <3> HIDE DEF Does
    <3> QED BY <1>2, <3>1, <3>2
  <2>2. g[{}] = <<>> /\ g = [s \in SUBSET (1..n) |-> g[s]]
    BY <1>4 DEF FoldsLeft
  <2> QED BY <1>1, <2>1, <2>2 DEF PathsFold
<1> DEFINE h == CHOOSE iter : PathsFold(iter, c, decl)
<1>6. PathsFold(h, c, decl)
  BY <1>5
<1>7. Listed(c, decl) = h[1..n]
  BY <1>1 DEF Listed
<1> HIDE DEF h
<1> DEFINE S == {k \in 0..n : h[1..k] \in V /\ Range(h[1..k]) = NamedTo(c, j, k)}
<1>8. 0 \in S
  <2>1. h[1..0] = <<>>
    BY <1>1, <1>6 DEF PathsFold
  <2>2. NamedTo(c, j, 0) = {}
    BY DEF NamedTo
  <2>3. Range(<<>>) = {} /\ 0 \in 0..n
    BY <1>1 DEF Range
  <2>4. h[1..0] \in V /\ Range(h[1..0]) = NamedTo(c, j, 0)
    BY <1>3, <2>1, <2>2, <2>3
  <2> QED BY <2>3, <2>4
<1>9. ASSUME NEW k \in 1..n, k - 1 \in S PROVE k \in S
  <2>1. 1..k \in SUBSET (1..n) /\ 1..k # {} /\ Max(1..k) = k /\ (1..k) \ {k} = 1..(k - 1)
    BY <1>1, Prefix
  <2>2. h[1..k] = Does(k, h[1..(k - 1)])
    BY <1>1, <1>6, <2>1 DEF PathsFold
  <2>3. PICK v : v = h[1..(k - 1)] /\ v \in V /\ Range(v) = NamedTo(c, j, k - 1)
    BY <1>9
  <2>4. decl[k].path \in Paths
    BY <1>1
  <2>5. Does(k, v) \in V /\ Range(Does(k, v)) = NamedTo(c, j, k)
    <3>1. Concerns(c, decl[k]) => Range(Append(v, decl[k].path)) = NamedTo(c, j, k)
      <4>1. Range(Append(v, decl[k].path)) = Range(v) \cup {decl[k].path}
        BY <2>3, <2>4, AppendedPath DEF V
      <4> QED BY <2>3, <4>1, NamedGrows DEF n
    <3>2. ASSUME Concerns(c, decl[k]), VersionInputs!Contains(v, decl[k].path)
          PROVE  Range(v) = NamedTo(c, j, k)
      <4>1. decl[k].path \in Range(v)
        BY <2>3, <3>2 DEF VersionInputs!Contains, Range, V
      <4> QED BY <2>3, <3>2, <4>1, NamedGrows DEF n
    <3>3. ~Concerns(c, decl[k]) => Range(v) = NamedTo(c, j, k)
      BY <2>3, NamedGrows DEF n
    <3>4. Does(k, v) \in V
      BY <1>2, <2>3
    <3> QED BY <3>1, <3>2, <3>3, <3>4
  <2> HIDE DEF Does
  <2> QED BY <1>1, <2>2, <2>3, <2>5
<1>10. n \in S
  <2>1. 0..n \subseteq S
    <3> HIDE DEF S
    <3> QED BY <1>1, <1>8, <1>9, RangeInduction
  <2> QED BY <1>1, <2>1
<1> QED BY <1>7, <1>10 DEF Named, n, V

LEMMA SameCardinality == ASSUME NEW S PROVE VersionInputs!Cardinality(S) = Cardinality(S)
BY DEF Cardinality, VersionInputs!Cardinality

\* Paths are visited in their order, each of them once.
LEMMA SortedAll ==
    ASSUME NEW D \in SUBSET Paths
    PROVE  LET sorted == VersionInputs!Sorted(D)
           IN  sorted \in Seq(Paths) /\ Range(sorted) = D /\ IsInjective(sorted)
<1>1. D \in SUBSET Nat /\ IsFiniteSet(D)
  BY FilesAssumption, FS_Subset DEF Paths
<1>2. \E seq \in [1..Cardinality(D) -> D] : Increasing(seq)
  BY <1>1, Enumeration
<1> DEFINE sorted == VersionInputs!Sorted(D)
<1>3. sorted \in [1..Cardinality(D) -> D] /\ Increasing(sorted)
  BY <1>2, SameCardinality DEF VersionInputs!Sorted, Increasing
<1> HIDE DEF sorted
<1>4. Range(sorted) = D
  BY <1>1, <1>3, EnumeratesAll
<1>5. Cardinality(D) \in Nat
  BY <1>1, FS_CardinalityType
<1>6. sorted \in Seq(Paths)
  BY <1>3, <1>5
<1>7. IsInjective(sorted)
  <2> SUFFICES ASSUME NEW i \in DOMAIN sorted, NEW k \in DOMAIN sorted, sorted[i] = sorted[k], i # k
               PROVE  FALSE
    BY DEF IsInjective
  <2>1. i \in Nat /\ k \in Nat /\ sorted[i] \in Nat /\ sorted[k] \in Nat
    <3>1. DOMAIN sorted = 1..Cardinality(D) /\ \A q \in DOMAIN sorted : sorted[q] \in D
      BY <1>3
    <3>2. i \in 1..Cardinality(D) /\ k \in 1..Cardinality(D)
      BY <3>1
    <3>3. sorted[i] \in D /\ sorted[k] \in D
      BY <3>1
    <3>4. i \in Nat /\ k \in Nat
      BY <1>5, <3>2
    <3> QED BY <1>1, <3>3, <3>4
  <2>2. i < k \/ k < i
    BY <2>1
  <2> QED BY <1>3, <2>1, <2>2 DEF Increasing
<1> QED BY <1>4, <1>6, <1>7 DEF sorted

-------------------------------------------------------------------------------
(***************************************************************************)
(* A command and the checkout it works in.                                 *)
(***************************************************************************)
Checkout == /\ job \in Jobs /\ edits \in Nat
            /\ DOMAIN disk = Paths /\ DOMAIN unseen = Paths /\ todo \in Seq(Paths)
            /\ \A path \in Paths : Content(disk[path]) /\ disk[path].edits \subseteq 1..edits

Starting == {"base", "verify"}
Reading == {"read", "edit", "recheck", "stage"}
Writing == {"look", "replace", "evidence", "done"}

StartInv == /\ step \in Starting => DOMAIN original = {}
            /\ step \in Starting \cup {"read", "edit", "recheck"} => DOMAIN temporary = {}
            /\ step = "verify" => command # "check-base"

\* A file that nobody has edited since it was read is as it was read, or as written.
ReadInv == step \in Reading \cup Writing =>
    /\ DOMAIN original \subseteq Paths
    /\ Named(command, job) \subseteq
          (IF step = "read" THEN DOMAIN original \cup Range(todo) ELSE DOMAIN original)
    /\ step = "read" => todo # <<>>
    /\ \A path \in DOMAIN original :
          /\ Content(original[path]) /\ original[path].edits \subseteq 1..edits
          /\ disk[path].edits = original[path].edits =>
                disk[path] = IF step \in Reading \/ path \in Range(todo) THEN original[path]
                             ELSE edited[path]

\* Every declaration of a command holds in the contents it has edited.
Agree(c, j, p, contents) ==
    \A path \in DOMAIN contents :
        /\ contents[path] # None
        /\ \A i \in 1..Len(j.declarations) :
              LET d == j.declarations[i]
              IN  Concerns(c, d) /\ d.path = path =>
                  VersionInputs!Edit(contents[path], d, VersionInputs!ProjectedValue(p, d))
                      = contents[path]

EditInv == step \in {"recheck", "stage"} \cup Writing =>
    /\ DOMAIN edited = DOMAIN original
    /\ \A path \in DOMAIN edited :
          Content(edited[path]) /\ edited[path].edits = original[path].edits
    /\ Agree(command, job, plan, edited)

StageInv == step \in {"stage", "look", "replace"} =>
    /\ todo # <<>> /\ Range(todo) \subseteq DOMAIN original
    /\ \A path \in DOMAIN temporary : temporary[path] = edited[path]
    /\ IF step = "stage"
       THEN /\ VersionInputs!Drift # {}
            /\ VersionInputs!Drift \subseteq DOMAIN temporary \cup Range(todo)
       ELSE IsInjective(todo) /\ Range(todo) \subseteq DOMAIN temporary

\* Between the look at a file and its replacement the only new edits are unseen ones.
ReplaceInv ==
    /\ step = "replace" => disk[Head(todo)].edits \ original[Head(todo)].edits
                              \subseteq unseen[Head(todo)]
    /\ step \in {"evidence", "done"} => Range(todo) = {}
    /\ step = "done" /\ command = "sync" => written = edited

FilesInv == Checkout /\ StartInv /\ ReadInv /\ EditInv /\ StageInv /\ ReplaceInv

LEMMA InitFilesInv == VersionInputs!Init => FilesInv
<1> SUFFICES ASSUME VersionInputs!Init PROVE FilesInv
  OBVIOUS
<1>1. step = "idle"
  BY DEF VersionInputs!Init
<1>2. Checkout
  <2>1. /\ job \in Jobs /\ edits = 0 /\ disk = Committed /\ DOMAIN unseen = Paths
        /\ todo = <<>>
    BY DEF VersionInputs!Init, VersionInputs!Paths, Paths
  <2>2. ASSUME NEW path \in Paths PROVE Content(disk[path]) /\ disk[path].edits = {}
    <3>1. Whole(Committed[path])
      BY FilesAssumption DEF Paths
    <3>2. Committed[path].edits = {}
      BY <3>1 DEF Whole
    <3> QED BY <2>1, <3>1, <3>2 DEF Whole, Content, Fielded
  <2> QED BY <2>1, <2>2 DEF Checkout, Paths
<1> QED BY <1>1, <1>2 DEF FilesInv, StartInv, ReadInv, EditInv, StageInv, ReplaceInv, Starting,
                          Reading, Writing

LEMMA Visited ==
    ASSUME NEW T, NEW seq \in Seq(T), seq # <<>>
    PROVE  /\ Head(seq) \in T /\ Tail(seq) \in Seq(T)
           /\ Range(seq) = {Head(seq)} \cup Range(Tail(seq))
           /\ IsInjective(seq) => IsInjective(Tail(seq)) /\ Head(seq) \notin Range(Tail(seq))
           /\ Len(seq) > 1 => Tail(seq) # <<>>
           /\ ~(Len(seq) > 1) => Range(Tail(seq)) = {}
<1>1. /\ Head(seq) \in T /\ Tail(seq) \in Seq(T) /\ Head(seq) = seq[1]
      /\ DOMAIN seq = 1..Len(seq) /\ Len(seq) \in Nat \ {0}
      /\ DOMAIN Tail(seq) = 1 .. Len(seq) - 1 /\ Len(Tail(seq)) = Len(seq) - 1
      /\ \A i \in 1 .. Len(seq) - 1 : Tail(seq)[i] = seq[i + 1]
  OBVIOUS
<1>2. \A i \in 1..Len(seq) : i = 1 \/ (i - 1 \in 1 .. Len(seq) - 1 /\ (i - 1) + 1 = i)
  BY <1>1
<1>3. \A i \in 1 .. Len(seq) - 1 : i + 1 \in 1..Len(seq) /\ i + 1 # 1
  BY <1>1
<1>4. Range(seq) = {Head(seq)} \cup Range(Tail(seq))
  <2>1. ASSUME NEW x \in Range(seq) PROVE x \in {Head(seq)} \cup Range(Tail(seq))
    <3>1. PICK i \in 1..Len(seq) : x = seq[i]
      BY <1>1 DEF Range
    <3>2. CASE i # 1
      <4>1. i - 1 \in DOMAIN Tail(seq) /\ Tail(seq)[i - 1] = x
        BY <1>1, <1>2, <3>1, <3>2
      <4> QED BY <4>1 DEF Range
    <3> QED BY <1>1, <3>1, <3>2
  <2>2. ASSUME NEW x \in {Head(seq)} \cup Range(Tail(seq)) PROVE x \in Range(seq)
    BY <1>1, <1>3 DEF Range
  <2> QED BY <2>1, <2>2
<1>5. ASSUME IsInjective(seq) PROVE IsInjective(Tail(seq)) /\ Head(seq) \notin Range(Tail(seq))
  <2>1. Head(seq) \notin Range(Tail(seq))
    <3> SUFFICES ASSUME NEW i \in 1 .. Len(seq) - 1, Tail(seq)[i] = Head(seq) PROVE FALSE
      BY <1>1 DEF Range
    <3>1. seq[i + 1] = seq[1] /\ i + 1 \in DOMAIN seq /\ 1 \in DOMAIN seq /\ i + 1 # 1
      BY <1>1, <1>3
    <3> QED BY <1>5, <3>1 DEF IsInjective
  <2>2. IsInjective(Tail(seq))
    <3> SUFFICES ASSUME NEW i \in 1 .. Len(seq) - 1, NEW k \in 1 .. Len(seq) - 1,
                        Tail(seq)[i] = Tail(seq)[k]
                 PROVE  i = k
      BY <1>1 DEF IsInjective
    <3>1. seq[i + 1] = seq[k + 1] /\ i + 1 \in DOMAIN seq /\ k + 1 \in DOMAIN seq
      BY <1>1, <1>3
    <3>2. i + 1 = k + 1
      BY <1>5, <3>1 DEF IsInjective
    <3> QED BY <3>2
  <2> QED BY <2>1, <2>2
<1>6. ASSUME Len(seq) > 1 PROVE Tail(seq) # <<>>
  <2>1. Len(Tail(seq)) # 0
    BY <1>1, <1>6
  <2>2. Len(<<>>) = 0
    OBVIOUS
  <2>3. PICK rest : rest = Tail(seq)
    OBVIOUS
  <2> QED BY <2>1, <2>2, <2>3
<1>7. ~(Len(seq) > 1) => Range(Tail(seq)) = {}
  BY <1>1 DEF Range
<1> QED BY <1>1, <1>4, <1>5, <1>6, <1>7

-------------------------------------------------------------------------------
LEMMA StopsFiles ==
    ASSUME FilesInv, UNCHANGED <<job, disk, edits, command>>, DOMAIN unseen' = DOMAIN unseen,
           step' = "failed", todo' = <<>>
    PROVE  FilesInv'
<1>1. Checkout'
  <2>1. todo' \in Seq(Paths)
    OBVIOUS
  <2> QED BY <2>1 DEF FilesInv, Checkout
<1> QED BY <1>1 DEF FilesInv, StartInv, ReadInv, EditInv, StageInv, ReplaceInv, Starting, Reading,
                    Writing

LEMMA BeginFiles ==
    ASSUME FilesInv, NEW c \in VersionInputs!Commands, VersionInputs!Begin(c)
    PROVE  FilesInv'
<1>1. /\ UNCHANGED <<job, disk, edits, unseen, written>>
      /\ command' = c /\ original' = <<>> /\ temporary' = <<>>
      /\ \/ step' = "base" /\ todo' = <<>>
         \/ step' = "failed" /\ todo' = <<>>
         \/ step' \in {"read", "verify"} /\ c # "check-base" /\ todo' = VersionInputs!Declared'
  BY DEF VersionInputs!Begin, VersionInputs!Rest
<1>2. Checked(job)
  BY JobsChecked DEF FilesInv, Checkout
<1>3. /\ Listed(c, job.declarations) \in Seq(Paths)
      /\ Range(Listed(c, job.declarations)) = Named(c, job)
  BY <1>2, ListedAll
<1>4. VersionInputs!Declared' = Listed(c, job.declarations)
  BY <1>1, DeclaredListed
<1>5. todo' \in Seq(Paths)
  <2>1. <<>> \in Seq(Paths)
    OBVIOUS
  <2> QED BY <1>1, <1>3, <1>4, <2>1
<1>6. Checkout'
  BY <1>1, <1>5 DEF FilesInv, Checkout
<1>7. DOMAIN original' = {} /\ DOMAIN temporary' = {}
  BY <1>1
<1>8. StartInv'
  BY <1>1, <1>7 DEF StartInv, Starting
<1>9. ReadInv'
  <2> SUFFICES ASSUME step' = "read" PROVE ReadInv'
    BY <1>1 DEF ReadInv, Reading, Writing
  <2>1. c # "check-base" /\ todo' = Listed(c, job.declarations)
    BY <1>1, <1>4
  <2>2. Named(c, job) # {}
    <3>1. 1 \in 1..Len(job.declarations) /\ Concerns(c, job.declarations[1])
      BY <1>2, <2>1 DEF Checked, Concerns
    <3> QED BY <3>1 DEF Named, NamedTo
  <2>3. todo' # <<>>
    <3>1. Range(<<>>) = {}
      BY DEF Range
    <3> QED BY <1>3, <2>1, <2>2, <3>1
  <2>4. Named(command, job)' = Named(c, job)
    BY <1>1
  <2>5. Range(todo)' = Named(c, job)
    BY <1>3, <2>1
  <2> QED BY <1>7, <2>3, <2>4, <2>5 DEF ReadInv
<1> QED BY <1>1, <1>6, <1>8, <1>9 DEF FilesInv, EditInv, StageInv, ReplaceInv, Writing

\* A phase that starts with the declared paths has at least one of them to visit.
LEMMA DeclaredTodo ==
    ASSUME Checked(job), command # "check-base" \/ VersionInputs!Declarations # {}
    PROVE  LET declared == VersionInputs!Declared
           IN  /\ declared \in Seq(Paths) /\ declared # <<>>
               /\ Range(declared) = Named(command, job)
<1>1. /\ VersionInputs!Declared \in Seq(Paths)
      /\ Range(VersionInputs!Declared) = Named(command, job)
  BY ListedAll, DeclaredListed
<1>2. Named(command, job) # {}
  <2>1. CASE command # "check-base"
    <3>1. 1 \in 1..Len(job.declarations) /\ Concerns(command, job.declarations[1])
      BY <2>1 DEF Checked, Concerns
    <3> QED BY <3>1 DEF Named, NamedTo
  <2>2. CASE VersionInputs!Declarations # {}
    <3>1. PICK i \in 1..Len(job.declarations) : VersionInputs!Concerned(job.declarations[i])
      BY <2>2 DEF VersionInputs!Declarations, VersionInputs!Range, Checked
    <3>2. Concerns(command, job.declarations[i])
      BY <3>1 DEF VersionInputs!Concerned, Concerns
    <3> QED BY <3>2 DEF Named, NamedTo
  <2> QED BY <2>1, <2>2
<1>3. Range(<<>>) = {}
  BY DEF Range
<1> QED BY <1>1, <1>2, <1>3

\* The first step of reading.
LEMMA StartsReading ==
    ASSUME FilesInv, UNCHANGED <<job, disk, edits, unseen, command, original, temporary>>,
           step \in Starting, step' = "read", todo' = VersionInputs!Declared,
           command # "check-base" \/ VersionInputs!Declarations # {}
    PROVE  FilesInv'
<1>1. Checked(job)
  BY JobsChecked DEF FilesInv, Checkout
<1>2. todo' \in Seq(Paths) /\ todo' # <<>> /\ Range(todo') = Named(command, job)
  BY <1>1, DeclaredTodo
<1>3. Checkout'
  BY <1>2 DEF FilesInv, Checkout
<1>4. DOMAIN original' = {} /\ DOMAIN temporary' = {}
  BY DEF FilesInv, StartInv
<1>5. Range(todo)' = Named(command, job)'
  BY <1>2
<1>6. ReadInv'
  BY <1>2, <1>4, <1>5 DEF ReadInv
<1> QED BY <1>3, <1>4, <1>6 DEF FilesInv, StartInv, EditInv, StageInv, ReplaceInv, Starting, Writing

LEMMA ReadBaseFiles == ASSUME FilesInv, VersionInputs!ReadBase PROVE FilesInv'
<1>1. step \in Starting /\ UNCHANGED <<job, disk, edits, unseen, command, original>>
  BY DEF VersionInputs!ReadBase, VersionInputs!Rest, VersionInputs!Refuse, Starting
<1>2. \/ step' = "failed" /\ todo' = <<>>
      \/ /\ step' = "read" /\ todo' = VersionInputs!Declared /\ VersionInputs!Declarations # {}
         /\ temporary' = temporary
  BY DEF VersionInputs!ReadBase, VersionInputs!Refuse
<1> QED BY <1>1, <1>2, StopsFiles, StartsReading

LEMMA VerifyFiles == ASSUME FilesInv, VersionInputs!Verify PROVE FilesInv'
<1>1. /\ step = "verify" /\ command # "check-base"
      /\ UNCHANGED <<job, disk, edits, unseen, command, original, written>>
  BY DEF VersionInputs!Verify, VersionInputs!Rest, VersionInputs!Refuse, FilesInv, StartInv
<1>2. CASE step' = "failed" /\ todo' = <<>>
  BY <1>1, <1>2, StopsFiles
<1>3. CASE step' = "read" /\ todo' = VersionInputs!Declared /\ temporary' = temporary
  BY <1>1, <1>3, StartsReading DEF Starting
<1>4. CASE step' = "verify" /\ Len(todo) > 1 /\ todo' = Tail(todo) /\ temporary' = temporary
  <2>1. todo' \in Seq(Paths)
    <3>1. todo \in Seq(Paths) /\ todo # <<>>
      BY <1>4 DEF FilesInv, Checkout
    <3> QED BY <1>4, <3>1, Visited
  <2>2. Checkout'
    BY <1>1, <2>1 DEF FilesInv, Checkout
  <2>3. StartInv'
    BY <1>1, <1>4 DEF FilesInv, StartInv, Starting
  <2> QED BY <1>4, <2>2, <2>3 DEF FilesInv, ReadInv, EditInv, StageInv, ReplaceInv, Reading, Writing
<1> QED BY <1>1, <1>2, <1>3, <1>4
        DEF VersionInputs!Verify, VersionInputs!Refuse, VersionInputs!Visit

LEMMA ReadFiles == ASSUME FilesInv, VersionInputs!Read PROVE FilesInv'
<1> DEFINE h == Head(todo)
<1>1. /\ step = "read" /\ todo # <<>> /\ todo \in Seq(Paths)
      /\ UNCHANGED <<job, disk, edits, unseen, command, temporary>>
      /\ original' = [path \in DOMAIN original \cup {h} |-> IF path = h THEN disk[path]
                                                            ELSE original[path]]
  BY DEF VersionInputs!Read, VersionInputs!Visit, VersionInputs!Rest, FilesInv, ReadInv, Checkout,
         Reading
<1>2. /\ h \in Paths /\ Tail(todo) \in Seq(Paths) /\ Range(todo) = {h} \cup Range(Tail(todo))
      /\ Len(todo) > 1 => Tail(todo) # <<>>
      /\ ~(Len(todo) > 1) => Range(Tail(todo)) = {}
  BY <1>1, Visited
<1>3. \/ step' = "read" /\ todo' = Tail(todo) /\ todo' # <<>>
      \/ step' = "edit" /\ todo' = <<>> /\ Range(Tail(todo)) = {}
  BY <1>2 DEF VersionInputs!Read, VersionInputs!Visit
<1> HIDE DEF h
<1>4. Checkout'
  <2>1. todo' \in Seq(Paths)
    <3>1. <<>> \in Seq(Paths)
      OBVIOUS
    <3> QED BY <1>2, <1>3, <3>1
  <2> QED BY <1>1, <2>1 DEF FilesInv, Checkout
<1>5. StartInv'
  BY <1>1, <1>3 DEF FilesInv, StartInv, Starting
<1>6. ReadInv'
  <2>1. /\ DOMAIN original' = DOMAIN original \cup {h} /\ DOMAIN original \subseteq Paths
        /\ Named(command, job) \subseteq DOMAIN original \cup Range(todo)
    BY <1>1 DEF FilesInv, ReadInv, Reading
  <2>2. DOMAIN original' \subseteq Paths
    BY <1>2, <2>1
  <2>3. Named(command, job)' = Named(command, job)
    BY <1>1
  <2>4. Named(command, job)' \subseteq (IF step' = "read" THEN DOMAIN original' \cup Range(todo')
                                        ELSE DOMAIN original')
    BY <1>2, <1>3, <2>1, <2>3
  <2>5. ASSUME NEW path \in DOMAIN original'
        PROVE  /\ Content(original'[path]) /\ original'[path].edits \subseteq 1..edits'
               /\ disk'[path].edits = original'[path].edits => disk'[path] = original'[path]
    <3>1. CASE path = h
      <4>1. original'[path] = disk[path] /\ path \in Paths
        BY <1>1, <1>2, <2>1, <3>1
      <4> QED BY <1>1, <4>1 DEF FilesInv, Checkout
    <3>2. CASE path # h
      <4>1. original'[path] = original[path] /\ path \in DOMAIN original
        BY <1>1, <2>1, <3>2
      <4> QED BY <1>1, <4>1 DEF FilesInv, ReadInv, Reading
    <3> QED BY <3>1, <3>2
  <2> QED BY <1>3, <2>2, <2>4, <2>5 DEF ReadInv, Reading
<1> QED BY <1>3, <1>4, <1>5, <1>6 DEF FilesInv, EditInv, StageInv, ReplaceInv, Writing

\* What sync compares is that every declaration holds.
LEMMA ConsistentAgrees ==
    ASSUME Checked(job), NEW contents, VersionInputs!Consistent(contents)
    PROVE  Agree(command, job, plan, contents)
<1> SUFFICES ASSUME NEW path \in DOMAIN contents, NEW i \in 1..Len(job.declarations),
                    Concerns(command, job.declarations[i]), job.declarations[i].path = path
             PROVE  VersionInputs!Edit(contents[path], job.declarations[i],
                                       VersionInputs!ProjectedValue(plan, job.declarations[i]))
                        = contents[path]
  BY DEF Agree, VersionInputs!Consistent
<1>1. job.declarations[i] \in VersionInputs!Of(path)
  BY DEF VersionInputs!Of, VersionInputs!Declarations, VersionInputs!Range, VersionInputs!Concerned,
         Concerns, Checked
<1> QED BY <1>1 DEF VersionInputs!Consistent

LEMMA EditFilesFiles == ASSUME FilesInv, VersionInputs!EditFiles PROVE FilesInv'
<1>1. /\ step = "edit"
      /\ UNCHANGED <<job, disk, edits, unseen, command, plan, original, temporary, written>>
      /\ edited' = [path \in DOMAIN original |->
                       VersionInputs!EditAll(original[path], path, plan)]
  BY DEF VersionInputs!EditFiles, VersionInputs!Rest
<1>2. Checked(job)
  BY JobsChecked DEF FilesInv, Checkout
<1>3. CASE step' = "failed" /\ todo' = <<>>
  BY <1>1, <1>3, StopsFiles
<1>4. CASE /\ VersionInputs!Consistent(edited')
           /\ \/ step' = "recheck" /\ todo' = VersionInputs!Declared
              \/ step' = "done" /\ todo' = <<>> /\ command # "sync" /\ VersionInputs!Drift' = {}
  <2>1. Agree(command, job, plan, edited')
    BY <1>2, <1>4, ConsistentAgrees
  <2>2. todo' \in Seq(Paths)
    <3>1. <<>> \in Seq(Paths)
      OBVIOUS
    <3>2. VersionInputs!Declared \in Seq(Paths)
      BY <1>2, ListedAll, DeclaredListed
    <3> QED BY <1>4, <3>1, <3>2
  <2>3. Checkout'
    BY <1>1, <2>2 DEF FilesInv, Checkout
  <2>4. StartInv'
    BY <1>1, <1>4 DEF FilesInv, StartInv, Starting
  <2>5. /\ DOMAIN original \subseteq Paths
        /\ Named(command, job) \subseteq DOMAIN original
        /\ \A path \in DOMAIN original :
              /\ Content(original[path]) /\ original[path].edits \subseteq 1..edits
              /\ disk[path].edits = original[path].edits => disk[path] = original[path]
    BY <1>1 DEF FilesInv, ReadInv, Reading
  <2>6. EditInv'
    <3>1. DOMAIN edited' = DOMAIN original'
      BY <1>1
    <3>2. ASSUME NEW path \in DOMAIN original
          PROVE  Content(edited'[path]) /\ edited'[path].edits = original'[path].edits
      <4>1. /\ edited'[path] = VersionInputs!EditAll(original[path], path, plan)
            /\ edited'[path] # None
        BY <1>1, <2>1, <3>1 DEF Agree
      <4> QED BY <1>1, <1>2, <2>5, <4>1, EditAllKeeps
    <3>3. Agree(command, job, plan, edited)'
      BY <1>1, <2>1
    <3> QED BY <1>1, <3>1, <3>2, <3>3 DEF EditInv
  <2>7. ReadInv'
    <3>1. Named(command, job)' = Named(command, job)
      BY <1>1
    <3>2. CASE step' = "recheck"
      BY <1>1, <2>5, <3>1, <3>2 DEF ReadInv, Reading
    <3>3. CASE step' = "done"
      <4>1. \A path \in DOMAIN original : edited'[path] = original[path]
        BY <1>1, <1>4, <3>3 DEF VersionInputs!Drift
      <4> QED BY <1>1, <2>5, <3>1, <3>3, <4>1 DEF ReadInv, Reading
    <3> QED BY <1>4, <3>2, <3>3
  <2>8. StageInv'
    BY <1>4 DEF StageInv
  <2>9. ReplaceInv'
    <3>1. Range(<<>>) = {}
      BY DEF Range
    <3>2. step' = "done" => Range(todo)' = {}
      BY <1>4, <3>1
    <3> QED BY <1>1, <1>4, <3>2 DEF ReplaceInv
  <2> QED BY <2>3, <2>4, <2>6, <2>7, <2>8, <2>9 DEF FilesInv
<1> QED BY <1>1, <1>3, <1>4 DEF VersionInputs!EditFiles

\* The files a sync has to write, in the order it writes them.
LEMMA DriftSorted ==
    ASSUME DOMAIN original \subseteq Paths
    PROVE  LET drift == VersionInputs!Drift
               sorted == VersionInputs!Sorted(drift)
           IN  /\ drift \subseteq DOMAIN original
               /\ sorted \in Seq(Paths) /\ Range(sorted) = drift /\ IsInjective(sorted)
               /\ drift # {} => sorted # <<>>
               /\ \A path \in DOMAIN original \ drift : edited[path] = original[path]
<1>1. /\ VersionInputs!Drift \subseteq DOMAIN original
      /\ \A path \in DOMAIN original \ VersionInputs!Drift : edited[path] = original[path]
  BY DEF VersionInputs!Drift
<1>2. Range(<<>>) = {}
  BY DEF Range
<1> QED BY <1>1, <1>2, SortedAll

LEMMA RecheckFiles == ASSUME FilesInv, VersionInputs!Recheck PROVE FilesInv'
<1> DEFINE sorted == VersionInputs!Sorted(VersionInputs!Drift)
           drift == VersionInputs!Drift
<1>1. /\ step = "recheck"
      /\ UNCHANGED <<job, disk, edits, unseen, command, plan, original, edited, written>>
  BY DEF VersionInputs!Recheck, VersionInputs!Rest, VersionInputs!Refuse
<1>2. CASE step' = "failed" /\ todo' = <<>>
  BY <1>1, <1>2, StopsFiles
<1>3. CASE /\ temporary' = temporary
           /\ \/ step' = "recheck" /\ Len(todo) > 1 /\ todo' = Tail(todo)
              \/ step' = "stage" /\ drift # {} /\ todo' = sorted
              \/ step' = "evidence" /\ drift = {} /\ todo' = sorted
  <2>1. /\ DOMAIN original \subseteq Paths
        /\ Named(command, job) \subseteq DOMAIN original
        /\ \A path \in DOMAIN original :
              /\ Content(original[path]) /\ original[path].edits \subseteq 1..edits
              /\ disk[path].edits = original[path].edits => disk[path] = original[path]
    BY <1>1 DEF FilesInv, ReadInv, Reading
  <2>2. /\ drift \subseteq DOMAIN original
        /\ sorted \in Seq(Paths) /\ Range(sorted) = drift
        /\ drift # {} => sorted # <<>>
        /\ \A path \in DOMAIN original \ drift : edited[path] = original[path]
    BY <2>1, DriftSorted
  <2> HIDE DEF drift, sorted
  <2>3. todo' \in Seq(Paths)
    <3>1. Len(todo) > 1 => Tail(todo) \in Seq(Paths)
      <4>1. todo \in Seq(Paths)
        BY DEF FilesInv, Checkout
      <4> QED BY <4>1
    <3> QED BY <1>3, <2>2, <3>1
  <2>4. Checkout'
    BY <1>1, <2>3 DEF FilesInv, Checkout
  <2>5. StartInv'
    BY <1>1, <1>3 DEF FilesInv, StartInv, Starting
  <2>6. Named(command, job)' = Named(command, job)
    BY <1>1
  <2>7. ReadInv'
    <3>1. CASE step' \in Reading
      BY <1>1, <1>3, <2>1, <2>6, <3>1 DEF ReadInv, Reading
    <3>2. CASE step' = "evidence" /\ drift = {}
      BY <1>1, <2>1, <2>2, <2>6, <3>2 DEF ReadInv, Reading
    <3> QED BY <1>3, <3>1, <3>2 DEF Reading
  <2>8. EditInv'
    <3>1. Agree(command, job, plan, edited)' = Agree(command, job, plan, edited)
      BY <1>1
    <3> QED BY <1>1, <3>1 DEF FilesInv, EditInv
  <2>9. StageInv'
    <3> SUFFICES ASSUME step' = "stage" PROVE StageInv'
      BY <1>3 DEF StageInv
    <3>1. todo' = sorted /\ drift # {} /\ DOMAIN temporary' = {}
      BY <1>1, <1>3 DEF FilesInv, StartInv, Starting
    <3>2. VersionInputs!Drift' = drift
      BY <1>1 DEF VersionInputs!Drift, drift
    <3>3. Range(todo') = drift
      BY <2>2, <3>1
    <3> QED BY <1>1, <2>2, <3>1, <3>2, <3>3 DEF StageInv
  <2>10. ReplaceInv'
    <3>1. step' = "evidence" => Range(todo') = {}
      BY <1>3, <2>2
    <3> QED BY <1>3, <3>1 DEF ReplaceInv
  <2> QED BY <2>4, <2>5, <2>7, <2>8, <2>9, <2>10 DEF FilesInv
<1> QED BY <1>1, <1>2, <1>3 DEF VersionInputs!Recheck, VersionInputs!Refuse, VersionInputs!Visit

LEMMA StageFiles == ASSUME FilesInv, VersionInputs!Stage PROVE FilesInv'
<1> DEFINE sorted == VersionInputs!Sorted(VersionInputs!Drift)
           drift == VersionInputs!Drift
           h == Head(todo)
<1>1. /\ step = "stage" /\ todo # <<>> /\ todo \in Seq(Paths)
      /\ UNCHANGED <<job, disk, edits, unseen, command, plan, original, edited, written>>
      /\ temporary' = [path \in DOMAIN temporary \cup {h} |-> edited[path]]
  BY DEF VersionInputs!Stage, VersionInputs!Visit, VersionInputs!Rest, FilesInv, StageInv, Checkout
<1>2. /\ h \in Paths /\ Tail(todo) \in Seq(Paths) /\ Range(todo) = {h} \cup Range(Tail(todo))
      /\ Len(todo) > 1 => Tail(todo) # <<>>
      /\ ~(Len(todo) > 1) => Range(Tail(todo)) = {}
  BY <1>1, Visited
<1>3. \/ step' = "stage" /\ todo' = Tail(todo) /\ todo' # <<>>
      \/ step' = "look" /\ todo' = sorted /\ Range(Tail(todo)) = {}
  BY <1>2 DEF VersionInputs!Stage, VersionInputs!Visit
<1>4. /\ DOMAIN original \subseteq Paths
      /\ Named(command, job) \subseteq DOMAIN original
      /\ \A path \in DOMAIN original :
            /\ Content(original[path]) /\ original[path].edits \subseteq 1..edits
            /\ disk[path].edits = original[path].edits => disk[path] = original[path]
  BY <1>1 DEF FilesInv, ReadInv, Reading
<1>5. /\ drift \subseteq DOMAIN original
      /\ sorted \in Seq(Paths) /\ Range(sorted) = drift /\ IsInjective(sorted)
      /\ drift # {} => sorted # <<>>
      /\ \A path \in DOMAIN original \ drift : edited[path] = original[path]
  BY <1>4, DriftSorted
<1>6. /\ Range(todo) \subseteq DOMAIN original
      /\ \A path \in DOMAIN temporary : temporary[path] = edited[path]
      /\ drift # {} /\ drift \subseteq DOMAIN temporary \cup Range(todo)
  BY <1>1 DEF FilesInv, StageInv
<1>7. VersionInputs!Drift' = drift
  BY <1>1 DEF VersionInputs!Drift
<1> HIDE DEF drift, sorted, h
<1>8. Checkout'
  <2>1. todo' \in Seq(Paths)
    BY <1>2, <1>3, <1>5
  <2> QED BY <1>1, <2>1 DEF FilesInv, Checkout
<1>9. StartInv'
  BY <1>1, <1>3 DEF StartInv, Starting
<1>10. ReadInv'
  <2>1. Named(command, job)' = Named(command, job)
    BY <1>1
  <2>2. CASE step' = "stage"
    BY <1>1, <1>4, <2>1, <2>2 DEF ReadInv, Reading
  <2>3. CASE step' = "look" /\ todo' = sorted
    <3>1. \A path \in DOMAIN original : path \in Range(todo') \/ edited[path] = original[path]
      BY <1>5, <2>3
    <3> QED BY <1>1, <1>4, <2>1, <2>3, <3>1 DEF ReadInv
  <2> QED BY <1>3, <2>2, <2>3
<1>11. EditInv'
  <2>1. Agree(command, job, plan, edited)' = Agree(command, job, plan, edited)
    BY <1>1
  <2> QED BY <1>1, <2>1 DEF FilesInv, EditInv
<1>12. StageInv'
  <2>1. /\ DOMAIN temporary' = DOMAIN temporary \cup {h}
        /\ \A path \in DOMAIN temporary' : temporary'[path] = edited'[path]
    BY <1>1
  <2>2. CASE step' = "stage" /\ todo' = Tail(todo) /\ todo' # <<>>
    BY <1>1, <1>2, <1>6, <1>7, <2>1, <2>2 DEF StageInv
  <2>3. CASE step' = "look" /\ todo' = sorted /\ Range(Tail(todo)) = {}
    <3>1. drift \subseteq DOMAIN temporary'
      BY <1>2, <1>6, <2>1, <2>3
    <3>2. Range(todo') \subseteq DOMAIN temporary' /\ Range(todo') \subseteq DOMAIN original
      BY <1>5, <2>3, <3>1
    <3>3. IsInjective(todo')
      BY <1>5, <2>3
    <3>4. todo' # <<>>
      BY <1>5, <1>6, <2>3
    <3> QED BY <1>1, <2>1, <2>3, <3>2, <3>3, <3>4 DEF StageInv
  <2> QED BY <1>3, <2>2, <2>3
<1>13. ReplaceInv'
  BY <1>3 DEF ReplaceInv
<1> QED BY <1>8, <1>9, <1>10, <1>11, <1>12, <1>13 DEF FilesInv

LEMMA LookFiles == ASSUME FilesInv, VersionInputs!Look PROVE FilesInv'
<1> DEFINE h == Head(todo)
<1>1. /\ step = "look" /\ UNCHANGED <<job, disk, edits, command, written>>
      /\ unseen' = [unseen EXCEPT ![h] = {}]
  BY DEF VersionInputs!Look, VersionInputs!Refuse
<1>2. DOMAIN unseen' = DOMAIN unseen
  BY <1>1
<1>3. CASE step' = "failed" /\ todo' = <<>>
  BY <1>1, <1>2, <1>3, StopsFiles
<1>4. CASE /\ step' = "replace" /\ UNCHANGED <<todo, plan, original, edited, temporary>>
           /\ disk[h] = original[h]
  <2>1. Checkout'
    BY <1>1, <1>2, <1>4 DEF FilesInv, Checkout
  <2>2. StartInv'
    BY <1>4 DEF StartInv, Starting
  <2>3. ReadInv'
    <3>1. Named(command, job)' = Named(command, job)
      BY <1>1
    <3> QED BY <1>1, <1>4, <3>1 DEF FilesInv, ReadInv, Reading, Writing
  <2>4. EditInv'
    <3>1. Agree(command, job, plan, edited)' = Agree(command, job, plan, edited)
      BY <1>1, <1>4
    <3> QED BY <1>1, <1>4, <3>1 DEF FilesInv, EditInv, Writing
  <2>5. StageInv'
    BY <1>1, <1>4 DEF FilesInv, StageInv
  <2>6. ReplaceInv'
    BY <1>1, <1>4 DEF ReplaceInv
  <2> QED BY <2>1, <2>2, <2>3, <2>4, <2>5, <2>6 DEF FilesInv
<1> QED BY <1>3, <1>4 DEF VersionInputs!Look, VersionInputs!Refuse, VersionInputs!Unchanged

\* What a replacement does to the file.
LEMMA Replaces ==
    ASSUME FilesInv, VersionInputs!Replace
    PROVE  LET h == Head(todo)
           IN  /\ step = "replace" /\ todo \in Seq(Paths) /\ todo # <<>>
               /\ h \in Paths /\ h \in DOMAIN original
               /\ DOMAIN disk' = Paths /\ disk'[h] = edited[h]
               /\ \A path \in Paths \ {h} : disk'[path] = disk[path]
               /\ Content(edited[h]) /\ edited[h].edits = original[h].edits
               /\ original[h].edits \subseteq 1..edits
               /\ disk[h].edits \ original[h].edits \subseteq unseen[h]
<1> DEFINE h == Head(todo)
<1>1. /\ step = "replace" /\ todo \in Seq(Paths) /\ todo # <<>> /\ DOMAIN disk = Paths
      /\ disk' = [disk EXCEPT ![h] = temporary[h]]
      /\ Range(todo) \subseteq DOMAIN temporary /\ Range(todo) \subseteq DOMAIN original
      /\ \A path \in DOMAIN temporary : temporary[path] = edited[path]
      /\ DOMAIN edited = DOMAIN original
      /\ \A path \in DOMAIN edited :
            Content(edited[path]) /\ edited[path].edits = original[path].edits
      /\ \A path \in DOMAIN original : original[path].edits \subseteq 1..edits
      /\ disk[h].edits \ original[h].edits \subseteq unseen[h]
  BY DEF VersionInputs!Replace, FilesInv, Checkout, StageInv, ReadInv, EditInv, ReplaceInv, Writing
<1>2. h \in Paths /\ h \in Range(todo)
  BY <1>1, Visited
<1> HIDE DEF h
<1> QED BY <1>1, <1>2 DEF h

LEMMA ReplaceFiles == ASSUME FilesInv, VersionInputs!Replace PROVE FilesInv'
<1> DEFINE h == Head(todo)
<1>1. /\ step = "replace" /\ todo \in Seq(Paths) /\ todo # <<>>
      /\ h \in Paths /\ h \in DOMAIN original
      /\ DOMAIN disk' = Paths /\ disk'[h] = edited[h]
      /\ \A path \in Paths \ {h} : disk'[path] = disk[path]
      /\ Content(edited[h]) /\ edited[h].edits = original[h].edits
      /\ original[h].edits \subseteq 1..edits
  BY Replaces
<1>2. /\ UNCHANGED <<job, edits, unseen, command, plan, original, edited>>
      /\ temporary' = [path \in DOMAIN temporary \ {h} |-> temporary[path]]
      /\ todo' = Tail(todo)
      /\ step' = IF Len(todo) > 1 THEN "look" ELSE "evidence"
  BY DEF VersionInputs!Replace
<1>3. IsInjective(todo)
  BY <1>1 DEF FilesInv, StageInv
<1>4. /\ Tail(todo) \in Seq(Paths) /\ Range(todo) = {h} \cup Range(todo')
      /\ IsInjective(todo') /\ h \notin Range(todo')
      /\ (step' = "look" /\ todo' # <<>>) \/ (step' = "evidence" /\ Range(todo') = {})
  BY <1>1, <1>2, <1>3, Visited
<1> HIDE DEF h
<1>5. Checkout'
  <2>1. ASSUME NEW path \in Paths PROVE Content(disk'[path]) /\ disk'[path].edits \subseteq 1..edits
    BY <1>1, <2>1 DEF FilesInv, Checkout
  <2> QED BY <1>1, <1>2, <1>4, <2>1 DEF FilesInv, Checkout
<1>6. StartInv'
  BY <1>4 DEF StartInv, Starting
<1>7. ReadInv'
  <2>1. Named(command, job)' = Named(command, job)
    BY <1>2
  <2>2. /\ DOMAIN original \subseteq Paths
        /\ Named(command, job) \subseteq DOMAIN original
        /\ \A path \in DOMAIN original :
              /\ Content(original[path]) /\ original[path].edits \subseteq 1..edits
              /\ disk[path].edits = original[path].edits =>
                    disk[path] = IF path \in Range(todo) THEN original[path] ELSE edited[path]
    BY <1>1 DEF FilesInv, ReadInv, Reading, Writing
  <2>3. ASSUME NEW path \in DOMAIN original, disk'[path].edits = original[path].edits
        PROVE  disk'[path] = IF path \in Range(todo') THEN original[path] ELSE edited[path]
    <3>1. CASE path = h
      BY <1>1, <1>4, <3>1
    <3>2. CASE path # h
      <4>1. disk'[path] = disk[path] /\ (path \in Range(todo') <=> path \in Range(todo))
        BY <1>1, <1>4, <2>2, <3>2
      <4> QED BY <2>2, <2>3, <4>1
    <3> QED BY <3>1, <3>2
  <2> QED BY <1>2, <1>4, <2>1, <2>2, <2>3 DEF ReadInv, Reading
<1>8. EditInv'
  <2>1. Agree(command, job, plan, edited)' = Agree(command, job, plan, edited)
    BY <1>2
  <2> QED BY <1>1, <1>2, <2>1 DEF FilesInv, EditInv, Writing
<1>9. StageInv'
  <2> SUFFICES ASSUME step' = "look" PROVE StageInv'
    BY <1>4 DEF StageInv
  <2>1. /\ Range(todo) \subseteq DOMAIN original /\ Range(todo) \subseteq DOMAIN temporary
        /\ \A path \in DOMAIN temporary : temporary[path] = edited[path]
    BY <1>1 DEF FilesInv, StageInv
  <2>2. /\ DOMAIN temporary' = DOMAIN temporary \ {h}
        /\ \A path \in DOMAIN temporary' : temporary'[path] = edited'[path]
    BY <1>2, <2>1
  <2>3. Range(todo)' \subseteq DOMAIN temporary' /\ Range(todo)' \subseteq DOMAIN original'
    BY <1>2, <1>4, <2>1, <2>2
  <2> QED BY <1>4, <2>2, <2>3 DEF StageInv
<1>10. ReplaceInv'
  BY <1>4 DEF ReplaceInv
<1> QED BY <1>5, <1>6, <1>7, <1>8, <1>9, <1>10 DEF FilesInv

LEMMA WriteEvidenceFiles == ASSUME FilesInv, VersionInputs!WriteEvidence PROVE FilesInv'
<1>1. /\ step = "evidence" /\ step' = "done" /\ written' = edited
      /\ UNCHANGED <<job, disk, edits, unseen, command, todo, plan, original, edited, temporary>>
  BY DEF VersionInputs!WriteEvidence
<1>2. Checkout'
  BY <1>1 DEF FilesInv, Checkout
<1>3. ReadInv'
  <2>1. Named(command, job)' = Named(command, job)
    BY <1>1
  <2> QED BY <1>1, <2>1 DEF FilesInv, ReadInv, Reading, Writing
<1>4. EditInv'
  <2>1. Agree(command, job, plan, edited)' = Agree(command, job, plan, edited)
    BY <1>1
  <2> QED BY <1>1, <2>1 DEF FilesInv, EditInv, Writing
<1>5. StartInv' /\ StageInv'
  BY <1>1 DEF StartInv, StageInv, Starting
<1>6. ReplaceInv'
  BY <1>1 DEF FilesInv, ReplaceInv
<1> QED BY <1>2, <1>3, <1>4, <1>5, <1>6 DEF FilesInv

\* An edit by hand leaves a file with its fields, and its number is in no content read.
LEMMA HandEdits ==
    ASSUME FilesInv, VersionInputs!ByHand
    PROVE  \E path \in Paths :
              /\ DOMAIN disk' = Paths
              /\ \A p \in Paths \ {path} : /\ disk'[p] = disk[p]
                                                /\ unseen'[p] = unseen[p]
              /\ Content(disk'[path])
              /\ disk'[path].edits = disk[path].edits \cup {edits'}
              /\ DOMAIN unseen' = Paths /\ unseen'[path] = unseen[path] \cup {edits'}
<1>1. PICK path \in Paths :
          /\ \/ disk' = [disk EXCEPT ![path].edits = @ \cup {edits'}]
             \/ \E i \in DOMAIN disk[path].fields :
                   disk' = [disk EXCEPT ![path].edits = @ \cup {edits'},
                                        ![path].fields[i].value = <<"by hand">>]
          /\ unseen' = [unseen EXCEPT ![path] = @ \cup {edits'}]
  BY DEF VersionInputs!ByHand, VersionInputs!Paths, Paths
<1>2. DOMAIN disk = Paths /\ DOMAIN unseen = Paths /\ Content(disk[path])
  BY DEF FilesInv, Checkout
<1>3. DOMAIN unseen' = Paths /\ unseen'[path] = unseen[path] \cup {edits'}
  BY <1>1, <1>2
<1>4. ASSUME NEW p \in Paths \ {path} PROVE unseen'[p] = unseen[p]
  BY <1>1, <1>2
<1> DEFINE c == disk[path]
           grown == [edits |-> c.edits \cup {edits'}, fields |-> c.fields]
<1>5. [c EXCEPT !.edits = @ \cup {edits'}] = grown
  <2>1. c = [edits |-> c.edits, fields |-> c.fields]
    BY <1>2 DEF Content
  <2> QED BY <2>1
<1>6. CASE disk' = [disk EXCEPT ![path].edits = @ \cup {edits'}]
  <2>1. disk'[path] = grown /\ DOMAIN disk' = Paths
    BY <1>2, <1>5, <1>6
  <2>2. ASSUME NEW p \in Paths \ {path} PROVE disk'[p] = disk[p]
    BY <1>2, <1>6
  <2>3. Content(grown) /\ grown.edits = disk[path].edits \cup {edits'}
    BY <1>2 DEF Content
  <2> QED BY <1>3, <1>4, <2>1, <2>2, <2>3
<1>7. ASSUME NEW i \in DOMAIN c.fields,
             disk' = [disk EXCEPT ![path].edits = @ \cup {edits'},
                                  ![path].fields[i].value = <<"by hand">>]
      PROVE  /\ Content(disk'[path]) /\ disk'[path].edits = disk[path].edits \cup {edits'}
             /\ DOMAIN disk' = Paths
             /\ \A p \in Paths \ {path} : disk'[p] = disk[p]
  <2> DEFINE value == <<"by hand">>
             fields == [c.fields EXCEPT ![i] = [@ EXCEPT !.value = value]]
  <2>1. disk'[path] = [grown EXCEPT !.fields = fields] /\ DOMAIN disk' = Paths
    BY <1>2, <1>5, <1>7
  <2>2. ASSUME NEW p \in Paths \ {path} PROVE disk'[p] = disk[p]
    BY <1>2, <1>7
  <2>3. ASSUME NEW k \in DOMAIN c.fields PROVE Fielded(fields[k])
    <3>1. Fielded(c.fields[k])
      BY <1>2 DEF Content
    <3>2. CASE k # i
      BY <3>1, <3>2
    <3>3. CASE k = i
      <4>1. PICK field : field = c.fields[i]
        OBVIOUS
      <4>2. fields[k] = [field EXCEPT !.value = value]
        BY <3>3, <4>1
      <4>3. PICK a, b, l, n, w : field = Entry(a, b, l, n, w)
        BY <3>1, <3>3, <4>1 DEF Fielded
      <4>4. [field EXCEPT !.value = value] = Entry(a, b, l, n, value)
        <5> HIDE DEF value
        <5> QED BY <4>3, Revalued
      <4> QED BY <4>2, <4>4 DEF Fielded, Entry
    <3> QED BY <3>2, <3>3
  <2>4. DOMAIN fields = DOMAIN c.fields
    OBVIOUS
  <2> HIDE DEF fields, c
  <2>5. [grown EXCEPT !.fields = fields] = [edits |-> c.edits \cup {edits'}, fields |-> fields]
    OBVIOUS
  <2>6. Content(disk'[path])
    BY <2>1, <2>3, <2>4, <2>5 DEF Content
  <2> QED BY <2>1, <2>2, <2>5, <2>6 DEF c
<1> QED BY <1>1, <1>3, <1>4, <1>6, <1>7

LEMMA ByHandFiles == ASSUME FilesInv, VersionInputs!ByHand PROVE FilesInv'
<1>1. /\ UNCHANGED <<job, command, step, todo, plan, original, edited, temporary, written>>
      /\ edits' = edits + 1 /\ edits \in Nat
  BY DEF VersionInputs!ByHand, VersionInputs!work, FilesInv, Checkout
<1>2. PICK path \in Paths :
          /\ DOMAIN disk' = Paths
          /\ \A p \in Paths \ {path} : /\ disk'[p] = disk[p]
                                            /\ unseen'[p] = unseen[p]
          /\ Content(disk'[path])
          /\ disk'[path].edits = disk[path].edits \cup {edits'}
          /\ DOMAIN unseen' = Paths /\ unseen'[path] = unseen[path] \cup {edits'}
  BY HandEdits
<1>3. 1..edits \subseteq 1..edits' /\ edits' \in 1..edits' /\ edits' \notin 1..edits
  BY <1>1
<1>4. Checkout'
  <2>1. ASSUME NEW p \in Paths PROVE Content(disk'[p]) /\ disk'[p].edits \subseteq 1..edits'
    BY <1>2, <1>3 DEF FilesInv, Checkout
  <2> QED BY <1>1, <1>2, <2>1 DEF FilesInv, Checkout
<1>5. StartInv' /\ StageInv'
  <2>1. VersionInputs!Drift' = VersionInputs!Drift
    BY <1>1 DEF VersionInputs!Drift
  <2> QED BY <1>1, <2>1 DEF FilesInv, StartInv, StageInv
<1>6. EditInv'
  <2>1. Agree(command, job, plan, edited)' = Agree(command, job, plan, edited)
    BY <1>1
  <2> QED BY <1>1, <2>1 DEF FilesInv, EditInv
<1>7. ReadInv'
  <2> SUFFICES ASSUME step \in Reading \cup Writing PROVE ReadInv'
    BY <1>1 DEF ReadInv
  <2>1. Named(command, job)' = Named(command, job)
    BY <1>1
  <2>2. DOMAIN original \subseteq Paths
    BY DEF FilesInv, ReadInv
  <2>3. ASSUME NEW p \in DOMAIN original
        PROVE  /\ Content(original[p]) /\ original[p].edits \subseteq 1..edits'
               /\ disk'[p].edits = original[p].edits => disk'[p] = disk[p]
    <3>1. Content(original[p]) /\ original[p].edits \subseteq 1..edits
      BY DEF FilesInv, ReadInv
    <3>2. CASE p = path
      BY <1>2, <1>3, <3>1, <3>2
    <3>3. CASE p # path
      BY <1>2, <1>3, <2>2, <3>1, <3>3
    <3> QED BY <3>2, <3>3
  <2> QED BY <1>1, <2>1, <2>3 DEF FilesInv, ReadInv
<1>8. ReplaceInv'
  <2> SUFFICES ASSUME step = "replace"
               PROVE  disk'[Head(todo)].edits \ original[Head(todo)].edits
                          \subseteq unseen'[Head(todo)]
    BY <1>1 DEF FilesInv, ReplaceInv
  <2>1. Head(todo) \in Paths
    <3>1. todo \in Seq(Paths) /\ todo # <<>>
      BY DEF FilesInv, Checkout, StageInv
    <3> QED BY <3>1, Visited
  <2>2. disk[Head(todo)].edits \ original[Head(todo)].edits \subseteq unseen[Head(todo)]
    BY DEF FilesInv, ReplaceInv
  <2> QED BY <1>2, <2>1, <2>2
<1> QED BY <1>4, <1>5, <1>6, <1>7, <1>8 DEF FilesInv

-------------------------------------------------------------------------------
LEMMA StepFiles == ASSUME FilesInv, VersionInputs!Step PROVE FilesInv'
BY ReadBaseFiles, VerifyFiles, ReadFiles, EditFilesFiles, RecheckFiles, StageFiles, LookFiles,
   ReplaceFiles, WriteEvidenceFiles DEF VersionInputs!Step

LEMMA FilesInductive == FilesInv /\ (VersionInputs!Next \/ UNCHANGED inputs) => FilesInv'
<1> SUFFICES ASSUME FilesInv, VersionInputs!Next \/ UNCHANGED inputs PROVE FilesInv'
  OBVIOUS
<1>1. CASE UNCHANGED inputs
  <2>1. Checkout' /\ StartInv' /\ ReplaceInv'
    BY <1>1 DEF inputs, FilesInv, Checkout, StartInv, ReplaceInv
  <2>2. ReadInv'
    <3>1. Named(command, job)' = Named(command, job)
      BY <1>1 DEF inputs
    <3> QED BY <1>1, <3>1 DEF inputs, FilesInv, ReadInv
  <2>3. EditInv'
    <3>1. Agree(command, job, plan, edited)' = Agree(command, job, plan, edited)
      BY <1>1 DEF inputs
    <3> QED BY <1>1, <3>1 DEF inputs, FilesInv, EditInv
  <2>4. StageInv'
    <3>1. VersionInputs!Drift' = VersionInputs!Drift
      BY <1>1 DEF inputs, VersionInputs!Drift
    <3> QED BY <1>1, <3>1 DEF inputs, FilesInv, StageInv
  <2> QED BY <2>1, <2>2, <2>3, <2>4 DEF FilesInv
<1>2. ASSUME NEW c \in VersionInputs!Commands, VersionInputs!Begin(c) PROVE FilesInv'
  BY <1>2, BeginFiles
<1>3. CASE VersionInputs!Step
  BY <1>3, StepFiles
<1>4. CASE VersionInputs!ByHand
  BY <1>4, ByHandFiles
<1>5. CASE VersionInputs!Interrupt
  BY <1>5, StopsFiles DEF VersionInputs!Interrupt, VersionInputs!Refuse
<1> QED BY <1>1, <1>2, <1>3, <1>4, <1>5 DEF VersionInputs!Next

LEMMA FilesInvariant == MCSpec => []FilesInv
<1>1. MCInit => FilesInv
  BY InitFilesInv DEF MCInit
<1>2. FilesInv /\ [MCNext]_all => FilesInv'
  BY FilesInductive DEF MCNext, Part, all
<1> QED BY <1>1, <1>2, PTL DEF MCSpec

(***************************************************************************)
(* When a sync, a check or a check of the base succeeds, every declaration *)
(* of the policy holds in its file, and after a sync the evidence is of    *)
(* the same contents, unless a person has edited the file since it was     *)
(* read: whatever the declarations, the edits and the kills before.        *)
(***************************************************************************)
THEOREM DeclarationsHold == MCSpec => []EveryDeclarationHolds
<1>1. FilesInv => EveryDeclarationHolds
  <2> SUFFICES ASSUME FilesInv, step = "done", NEW d \in VersionInputs!Declarations,
                      disk[d.path].edits = original[d.path].edits
               PROVE  /\ VersionInputs!Holds(disk[d.path], d)
                      /\ command = "sync" => written[d.path] = disk[d.path]
    BY DEF EveryDeclarationHolds, VersionInputs!EveryDeclarationHolds
  <2>1. Checked(job)
    BY JobsChecked DEF FilesInv, Checkout
  <2>2. PICK i \in 1..Len(job.declarations) : d = job.declarations[i] /\ Concerns(command, d)
    BY <2>1 DEF VersionInputs!Declarations, VersionInputs!Range, VersionInputs!Concerned, Concerns,
                Checked
  <2>3. d.path \in DOMAIN original
    BY <2>2 DEF FilesInv, ReadInv, Reading, Writing, Named, NamedTo
  <2>4. disk[d.path] = edited[d.path]
    BY <2>3 DEF FilesInv, ReadInv, ReplaceInv, Reading, Writing
  <2> DEFINE c == edited[d.path]
             v == VersionInputs!ProjectedValue(plan, d)
  <2>5. Content(c) /\ c # None /\ VersionInputs!Edit(c, d, v) = c
    BY <2>2, <2>3 DEF FilesInv, EditInv, Agree, Writing
  <2>6. command = "sync" => written = edited
    BY DEF FilesInv, ReplaceInv
  <2> HIDE DEF c, v
  <2>7. /\ VersionInputs!Editable(c, d, v)
        /\ c.fields = [k \in DOMAIN c.fields |->
                          IF k \in VersionInputs!Owned(c, d)
                          THEN [c.fields[k] EXCEPT !.value = v] ELSE c.fields[k]]
    <3>1. /\ VersionInputs!Editable(c, d, v)
          /\ VersionInputs!Edit(c, d, v) =
                [c EXCEPT !.fields =
                    [k \in DOMAIN c.fields |->
                        IF k \in VersionInputs!Owned(c, d)
                        THEN [c.fields[k] EXCEPT !.value = v] ELSE c.fields[k]]]
      BY <2>5 DEF VersionInputs!Edit
    <3>2. "fields" \in DOMAIN c
      BY <2>5 DEF Content
    <3> QED BY <2>5, <3>1, <3>2
  <2>8. VersionInputs!Owned(c, d) # {}
    <3>1. Cardinality(VersionInputs!Owned(c, d)) # 0
      BY <2>7, SameCardinality DEF VersionInputs!Editable
    <3> QED BY <3>1, FS_EmptySet
  <2>9. ASSUME NEW k \in VersionInputs!Owned(c, d) PROVE c.fields[k].value = v
    <3>1. k \in DOMAIN c.fields
      BY DEF VersionInputs!Owned
    <3>2. c.fields[k] = [c.fields[k] EXCEPT !.value = v]
      BY <2>7, <3>1
    <3>3. "value" \in DOMAIN c.fields[k]
      BY <2>5, <3>1 DEF Content, Fielded, Entry
    <3> QED BY <3>2, <3>3
  <2> QED BY <2>4, <2>6, <2>8, <2>9 DEF VersionInputs!Holds, c, v
<1> QED BY <1>1, FilesInvariant, PTL

(***************************************************************************)
(* The only edits a sync can lose are those made between its last look at  *)
(* a file and the replacement of it, whatever happens in between.          *)
(***************************************************************************)
THEOREM KeepsEdits == MCSpec => NoEditOverwritten
<1> DEFINE Kept == \A path \in VersionInputs!Paths :
                      disk[path].edits \ disk'[path].edits \subseteq unseen[path]
<1>1. FilesInv /\ [VersionInputs!Next]_(VersionInputs!vars) => Kept
  <2> SUFFICES ASSUME FilesInv, [VersionInputs!Next]_(VersionInputs!vars), NEW path \in Paths
               PROVE  disk[path].edits \ disk'[path].edits \subseteq unseen[path]
    BY DEF VersionInputs!Paths, Paths
  <2>1. CASE disk' = disk
    BY <2>1
  <2>2. CASE VersionInputs!Replace
    <3>1. CASE path = Head(todo)
      BY <2>2, <3>1, Replaces
    <3>2. CASE path # Head(todo)
      BY <2>2, <3>2, Replaces
    <3> QED BY <3>1, <3>2
  <2>3. CASE VersionInputs!ByHand
    BY <2>3, HandEdits
  <2> QED BY <2>1, <2>2, <2>3
          DEF VersionInputs!Next, VersionInputs!Begin, VersionInputs!Step, VersionInputs!ReadBase,
              VersionInputs!Verify, VersionInputs!Read, VersionInputs!EditFiles,
              VersionInputs!Recheck, VersionInputs!Stage, VersionInputs!Look,
              VersionInputs!WriteEvidence, VersionInputs!Interrupt, VersionInputs!Rest,
              VersionInputs!vars
<1>2. [MCNext]_all => [VersionInputs!Next]_(VersionInputs!vars)
  BY DEF MCNext, Part, all, inputs, VersionInputs!vars, VersionInputs!work
<1>3. MCSpec => [][Kept]_(VersionInputs!vars)
  <2> HIDE DEF Kept
  <2> QED BY <1>1, <1>2, FilesInvariant, PTL DEF MCSpec
<1> QED BY <1>3 DEF NoEditOverwritten, VersionInputs!NoEditOverwritten
===============================================================================
