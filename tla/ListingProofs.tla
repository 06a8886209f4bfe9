---------------------------- MODULE ListingProofs ----------------------------
(***************************************************************************)
(* What Listing guarantees for all collections, page sizes and page        *)
(* limits, and for any number of changes and failures.                     *)
(***************************************************************************)
EXTENDS Listing, SequenceTheorems, TLAPS

Source == content[asked.collection]

(* The token counts what has been listed, and the upstream token what has  *)
(* been read; without a token a call lists what is being walked.           *)
Control ==
  /\ Len(read) = position
  /\ phase = "idle" => position = 0
  /\ phase = "fetching" => walk = "open" /\ (asked.collection # scope => offset > 0)
  /\ walk = "open" => Len(listing) = offset

(* Nothing has changed: everything is a beginning of the collection.       *)
Stable ==
  changes = 0 =>
    /\ content[scope] = atStart
    /\ phase = "fetching" => position <= Len(Source) /\ \A j \in 1..position : read[j] = Source[j]
    /\ Len(listing) <= Len(atStart)
    /\ \A i \in 1..Len(listing) : listing[i] = atStart[i]
    /\ walk = "complete" => Len(listing) = Len(atStart)

(* No item is in two places, and none that is gone is in any.              *)
Distinct ==
  /\ \A c, d \in Collections : \A i \in 1..Len(content[c]) : \A j \in 1..Len(content[d]) :
       content[c][i] = content[d][j] => c = d /\ i = j
  /\ \A c \in Collections : \A i \in 1..Len(content[c]) : content[c][i] \notin gone

(* The item x is gone or not beyond position n.                            *)
Passed(x, n) == x \in gone \/ \E p \in 1..Len(content[scope]) : p <= n /\ content[scope][p] = x

(* Nothing was put in before another item: what has been listed stays      *)
(* behind the offset, and what has been read behind its index.             *)
Behind ==
  ~inserted =>
    /\ \A i, j \in 1..Len(listing) : listing[i] = listing[j] => i = j
    /\ walk = "open" => \A i \in 1..Len(listing) : Passed(listing[i], offset)
    /\ phase = "fetching" /\ asked.collection = scope =>
         /\ \A i, j \in 1..Len(read) : read[i] = read[j] => i = j
         /\ \A j \in 1..Len(read) : Passed(read[j], j)
         /\ \A i \in 1..Len(listing) : \A j \in 1..Len(read) : listing[i] = read[j] => j <= offset

(* The item x is beyond position n.                                        *)
Ahead(x, n) == \E p \in 1..Len(content[scope]) : p > n /\ content[scope][p] = x
Given(x) == \E i \in 1..Len(listing) : listing[i] = x
InHand(x) == \E j \in 1..Len(read) : j > offset /\ read[j] = x /\ Ahead(x, j - 1)

(* Nothing was removed: what has not been listed is beyond the offset, and *)
(* comes with the call under way.                                          *)
Coming ==
  gone = {} =>
    /\ walk = "complete" => \A k \in 1..Len(atStart) : Given(atStart[k])
    /\ walk = "open" => \A k \in 1..Len(atStart) : Given(atStart[k]) \/ Ahead(atStart[k], offset)
    /\ phase = "fetching" /\ asked.collection = scope =>
         \A k \in 1..Len(atStart) :
           \/ Given(atStart[k])
           \/ InHand(atStart[k])
           \/ Ahead(atStart[k], offset) /\ Ahead(atStart[k], position)

Inv == TypeOK /\ Control /\ Stable /\ Distinct /\ Behind /\ Coming

-----------------------------------------------------------------------------
(* A page put after what has been read.                                    *)
LEMMA PageAppended ==
  ASSUME NEW r \in Seq(Items), NEW s \in Seq(Items), NEW n \in Nat, NEW to \in Nat,
         n = Len(r), n <= to, to = n \/ to <= Len(s)
  PROVE  /\ r \o SubSeq(s, n + 1, to) \in Seq(Items)
         /\ Len(r \o SubSeq(s, n + 1, to)) = to
         /\ \A j \in 1..n : (r \o SubSeq(s, n + 1, to))[j] = r[j]
         /\ \A j \in (n + 1)..to : (r \o SubSeq(s, n + 1, to))[j] = s[j]
<1> DEFINE page == SubSeq(s, n + 1, to)
<1>1. \A j \in (n + 1)..to : j \in 1..Len(s) /\ s[j] \in Items
  BY ElementOfSeq
<1>2. /\ page \in Seq(Items)
      /\ Len(page) = IF n + 1 <= to THEN to - (n + 1) + 1 ELSE 0
      /\ \A j \in 1..(to - (n + 1) + 1) : page[j] = s[(n + 1) + j - 1]
  BY <1>1, SubSeqProperties
<1>3. Len(page) = to - n
  BY <1>2
<1> HIDE DEF page
<1>4. /\ r \o page \in Seq(Items)
      /\ Len(r \o page) = Len(r) + Len(page)
      /\ \A j \in 1..(Len(r) + Len(page)) :
           (r \o page)[j] = IF j <= Len(r) THEN r[j] ELSE page[j - Len(r)]
  BY <1>2, ConcatProperties
<1>5. \A j \in (n + 1)..to : j - n \in 1..(to - (n + 1) + 1) /\ (n + 1) + (j - n) - 1 = j
  OBVIOUS
<1>6. \A j \in (n + 1)..to : page[j - n] = s[j]
  BY <1>2, <1>5
<1>7. \A j \in (n + 1)..to : (r \o page)[j] = s[j]
  BY <1>3, <1>4, <1>6
<1>8. \A j \in 1..n : (r \o page)[j] = r[j]
  BY <1>3, <1>4
<1> QED
  BY <1>3, <1>4, <1>7, <1>8 DEF page

(* The part of a sequence from position m on.                              *)
LEMMA PartOfSeq ==
  ASSUME NEW s \in Seq(Items), NEW m \in Nat \ {0}, NEW n \in Nat, n <= Len(s), m <= n + 1
  PROVE  /\ SubSeq(s, m, n) \in Seq(Items)
         /\ Len(SubSeq(s, m, n)) = n + 1 - m
         /\ \A j \in 1..(n + 1 - m) : SubSeq(s, m, n)[j] = s[m + j - 1]
<1>1. \A j \in m..n : s[j] \in Items
  BY ElementOfSeq
<1>2. /\ SubSeq(s, m, n) \in Seq(Items)
      /\ Len(SubSeq(s, m, n)) = IF m <= n THEN n - m + 1 ELSE 0
      /\ \A j \in 1..(n - m + 1) : SubSeq(s, m, n)[j] = s[m + j - 1]
  BY <1>1, SubSeqProperties
<1>3. n - m + 1 = n + 1 - m
  OBVIOUS
<1> QED
  BY <1>2, <1>3

LEMMA Joined ==
  ASSUME NEW a \in Seq(Items), NEW b \in Seq(Items)
  PROVE  /\ a \o b \in Seq(Items)
         /\ Len(a \o b) = Len(a) + Len(b)
         /\ \A j \in 1..Len(a) : (a \o b)[j] = a[j]
         /\ \A j \in 1..Len(b) : (a \o b)[Len(a) + j] = b[j]
<1>1. /\ a \o b \in Seq(Items)
      /\ Len(a \o b) = Len(a) + Len(b)
      /\ \A j \in 1..(Len(a) + Len(b)) : (a \o b)[j] = IF j <= Len(a) THEN a[j] ELSE b[j - Len(a)]
  BY ConcatProperties
<1>2. ASSUME NEW j \in 1..Len(b)
      PROVE  (a \o b)[Len(a) + j] = b[j]
  <2>1. (a \o b)[Len(a) + j] = b[(Len(a) + j) - Len(a)]
    BY <1>1
  <2>2. (Len(a) + j) - Len(a) = j
    OBVIOUS
  <2> QED
    BY <2>1, <2>2
<1> QED
  BY <1>1, <1>2

(* An item put in after position i.                                        *)
With(s, i, x) == SubSeq(s, 1, i) \o <<x>> \o SubSeq(s, i + 1, Len(s))

LEMMA ItemAdded ==
  ASSUME NEW s \in Seq(Items), NEW x \in Items, NEW i \in 0..Len(s)
  PROVE  /\ With(s, i, x) \in Seq(Items)
         /\ Len(With(s, i, x)) = Len(s) + 1
         /\ \A j \in 1..i : With(s, i, x)[j] = s[j]
         /\ With(s, i, x)[i + 1] = x
         /\ \A j \in (i + 1)..Len(s) : With(s, i, x)[j + 1] = s[j]
<1> DEFINE a == SubSeq(s, 1, i)
           b == SubSeq(s, i + 1, Len(s))
           c == a \o <<x>>
           t == c \o b
<1>1. /\ a \in Seq(Items) /\ Len(a) = i
      /\ \A j \in 1..i : a[j] = s[j]
  BY PartOfSeq
<1>2. /\ b \in Seq(Items) /\ Len(b) = Len(s) - i
      /\ \A j \in 1..(Len(s) + 1 - (i + 1)) : b[j] = s[(i + 1) + j - 1]
  BY PartOfSeq
<1>3. <<x>> \in Seq(Items) /\ Len(<<x>>) = 1 /\ <<x>>[1] = x
  OBVIOUS
<1> HIDE DEF a, b
<1>4. /\ c \in Seq(Items) /\ Len(c) = i + 1
      /\ \A j \in 1..i : c[j] = a[j]
      /\ c[i + 1] = x
  BY <1>1, <1>3, Joined
<1> HIDE DEF c
<1>5. /\ t \in Seq(Items) /\ Len(t) = Len(s) + 1
      /\ \A j \in 1..(i + 1) : t[j] = c[j]
      /\ \A j \in 1..(Len(s) - i) : t[(i + 1) + j] = b[j]
  <2>1. /\ t \in Seq(Items) /\ Len(t) = Len(c) + Len(b)
        /\ \A j \in 1..Len(c) : t[j] = c[j]
        /\ \A j \in 1..Len(b) : t[Len(c) + j] = b[j]
    BY <1>2, <1>4, Joined
  <2> HIDE DEF t
  <2> QED
    BY <1>2, <1>4, <2>1
<1> HIDE DEF t
<1>6. ASSUME NEW j \in (i + 1)..Len(s)
      PROVE  t[j + 1] = s[j]
  <2> DEFINE k == j - i
  <2>1. k \in 1..(Len(s) - i) /\ (i + 1) + k = j + 1 /\ (i + 1) + k - 1 = j
    OBVIOUS
  <2>2. k \in 1..(Len(s) + 1 - (i + 1))
    BY <2>1
  <2> HIDE DEF k
  <2>3. t[(i + 1) + k] = b[k]
    BY <1>5, <2>1
  <2>4. b[k] = s[(i + 1) + k - 1]
    BY <1>2, <2>2
  <2> QED
    BY <2>1, <2>3, <2>4
<1>7. \A j \in 1..i : t[j] = s[j]
  BY <1>1, <1>4, <1>5
<1>8. t[i + 1] = x
  BY <1>4, <1>5
<1>9. t = With(s, i, x)
  BY DEF t, a, b, c, With
<1> QED
  BY <1>5, <1>6, <1>7, <1>8, <1>9

(* The item at position i taken out.                                       *)
Without(s, i) == SubSeq(s, 1, i - 1) \o SubSeq(s, i + 1, Len(s))

LEMMA ItemRemoved ==
  ASSUME NEW s \in Seq(Items), NEW i \in 1..Len(s)
  PROVE  /\ Without(s, i) \in Seq(Items)
         /\ Len(Without(s, i)) = Len(s) - 1
         /\ \A j \in 1..(i - 1) : Without(s, i)[j] = s[j]
         /\ \A j \in (i + 1)..Len(s) : Without(s, i)[j - 1] = s[j]
<1> DEFINE a == SubSeq(s, 1, i - 1)
           b == SubSeq(s, i + 1, Len(s))
           t == a \o b
<1>1. /\ a \in Seq(Items) /\ Len(a) = i - 1
      /\ \A j \in 1..(i - 1) : a[j] = s[j]
  BY PartOfSeq
<1>2. /\ b \in Seq(Items) /\ Len(b) = Len(s) - i
      /\ \A j \in 1..(Len(s) + 1 - (i + 1)) : b[j] = s[(i + 1) + j - 1]
  BY PartOfSeq
<1> HIDE DEF a, b
<1>3. /\ t \in Seq(Items) /\ Len(t) = Len(s) - 1
      /\ \A j \in 1..(i - 1) : t[j] = a[j]
      /\ \A j \in 1..(Len(s) - i) : t[(i - 1) + j] = b[j]
  <2>1. /\ t \in Seq(Items) /\ Len(t) = Len(a) + Len(b)
        /\ \A j \in 1..Len(a) : t[j] = a[j]
        /\ \A j \in 1..Len(b) : t[Len(a) + j] = b[j]
    BY <1>1, <1>2, Joined
  <2> HIDE DEF t
  <2> QED
    BY <1>1, <1>2, <2>1
<1> HIDE DEF t
<1>4. ASSUME NEW j \in (i + 1)..Len(s)
      PROVE  t[j - 1] = s[j]
  <2> DEFINE k == j - i
  <2>1. k \in 1..(Len(s) - i) /\ (i - 1) + k = j - 1 /\ (i + 1) + k - 1 = j
    OBVIOUS
  <2>2. k \in 1..(Len(s) + 1 - (i + 1))
    BY <2>1
  <2> HIDE DEF k
  <2>3. t[(i - 1) + k] = b[k]
    BY <1>3, <2>1
  <2>4. b[k] = s[(i + 1) + k - 1]
    BY <1>2, <2>2
  <2> QED
    BY <2>1, <2>3, <2>4
<1>5. \A j \in 1..(i - 1) : t[j] = s[j]
  BY <1>1, <1>3
<1>6. t = Without(s, i)
  BY DEF t, a, b, Without
<1> QED
  BY <1>3, <1>4, <1>5, <1>6

-----------------------------------------------------------------------------
(* What an answered request does, in one place.                            *)
Read(values) ==
  /\ values \in Seq(Items)
  /\ Len(values) >= position
  /\ \A j \in 1..position : values[j] = read[j]
  /\ \A j \in (position + 1)..Len(values) : j <= Len(Source) /\ values[j] = Source[j]

Idle == phase' = "idle" /\ read' = <<>> /\ position' = 0 /\ pages' = 0

NothingServed ==
  /\ Idle
  /\ walk' = walk \/ walk' \in {"beyond", "pageLimit"}
  /\ failures' \in 0..MaxFailures
  /\ UNCHANGED <<scope, offset, listing>>

Served(values) ==
  /\ Idle
  /\ asked.collection = scope
  /\ Len(values) >= Len(Source)
  /\ \E e \in offset..Len(values) :
       /\ listing' \in Seq(Items)
       /\ Len(listing') = e
       /\ \A i \in 1..offset : listing'[i] = listing[i]
       /\ \A i \in (offset + 1)..e : listing'[i] = values[i]
       /\ \/ walk' = walk /\ offset' = e
          \/ walk' = "complete" /\ offset' = offset /\ e = Len(values)
  /\ UNCHANGED <<scope, failures>>

ReadOn(values) ==
  /\ read' = values
  /\ position' = Len(values)
  /\ pages' \in 0..(MaxPages - 1)
  /\ UNCHANGED <<caller, phase, failures>>

LEMMA Typed ==
  ASSUME TypeOK
  PROVE  /\ asked.collection \in Collections /\ asked.limit \in Nat \ {0}
         /\ Source \in Seq(Items)
         /\ \A c \in Collections : content[c] \in Seq(Items) /\ Len(content[c]) \in Nat
         /\ Len(Source) \in Nat /\ Len(read) \in Nat /\ Len(listing) \in Nat /\ Len(atStart) \in Nat
<1>1. asked.collection \in Collections /\ asked.limit \in Limits
  BY DEF TypeOK
<1>2. \A c \in Collections : content[c] \in Seq(Items) /\ Len(content[c]) \in Nat
  BY LenProperties DEF TypeOK
<1>3. Len(read) \in Nat /\ Len(listing) \in Nat /\ Len(atStart) \in Nat
  BY LenProperties DEF TypeOK
<1> QED
  BY <1>1, <1>2, <1>3, LimitAssumption DEF Source

LEMMA ValuesRead ==
  ASSUME TypeOK, Control, NEW to \in position..UpstreamEnd(Source)
  PROVE  /\ Read(read \o SubSeq(Source, position + 1, to))
         /\ Len(read \o SubSeq(Source, position + 1, to)) = to
<1> DEFINE values == read \o SubSeq(Source, position + 1, to)
<1>1. /\ read \in Seq(Items) /\ Source \in Seq(Items) /\ position \in Nat
      /\ Len(read) = position /\ Len(Source) \in Nat
  BY Typed DEF TypeOK, Control
<1>2. to \in Nat /\ position <= to /\ (to = position \/ to <= Len(Source))
  BY <1>1 DEF UpstreamEnd
<1>3. /\ values \in Seq(Items) /\ Len(values) = to
      /\ \A j \in 1..position : values[j] = read[j]
      /\ \A j \in (position + 1)..to : values[j] = Source[j]
  <2> DEFINE s == Source
             r == read
             n == position
  <2>1. r \in Seq(Items) /\ s \in Seq(Items) /\ n \in Nat /\ to \in Nat
        /\ n = Len(r) /\ n <= to /\ (to = n \/ to <= Len(s))
    BY <1>1, <1>2
  <2> HIDE DEF s, r, n
  <2>2. /\ r \o SubSeq(s, n + 1, to) \in Seq(Items)
        /\ Len(r \o SubSeq(s, n + 1, to)) = to
        /\ \A j \in 1..n : (r \o SubSeq(s, n + 1, to))[j] = r[j]
        /\ \A j \in (n + 1)..to : (r \o SubSeq(s, n + 1, to))[j] = s[j]
    BY <2>1, PageAppended, SMTT(60)
  <2> QED
    BY <2>2 DEF s, r, n
<1> HIDE DEF values
<1>4. \A j \in (position + 1)..to : j <= Len(Source)
  BY <1>1, <1>2
<1>5. Read(values)
  BY <1>1, <1>2, <1>3, <1>4 DEF Read
<1> QED
  BY <1>3, <1>5 DEF values

LEMMA PageServed ==
  ASSUME TypeOK, Control, phase = "fetching", NEW values \in Seq(Items), ScopeMatches,
         offset <= Len(values), Page(values), Len(values) >= Len(Source)
  PROVE  Served(values)
<1> DEFINE e == SliceEnd(values)
           part == SubSeq(values, offset + 1, e)
<1>1. /\ offset \in Nat /\ listing \in Seq(Items) /\ Len(listing) = offset /\ Len(values) \in Nat
      /\ asked.limit \in Nat \ {0}
  <2>1. offset \in Nat /\ listing \in Seq(Items)
    BY DEF TypeOK
  <2>2. Len(listing) = offset
    BY DEF Control
  <2>3. Len(values) \in Nat
    BY LenProperties
  <2> QED
    BY <2>1, <2>2, <2>3, Typed
<1>2. e \in offset..Len(values)
  BY <1>1 DEF SliceEnd
<1> HIDE DEF e
<1>3. /\ part \in Seq(Items) /\ Len(part) = e - offset
      /\ \A j \in 1..(e - offset) : part[j] = values[offset + j]
  <2>1. /\ offset + 1 \in Nat \ {0} /\ e \in Nat /\ e <= Len(values) /\ offset + 1 <= e + 1
        /\ e + 1 - (offset + 1) = e - offset
    BY <1>1, <1>2
  <2>2. /\ part \in Seq(Items) /\ Len(part) = e + 1 - (offset + 1)
        /\ \A j \in 1..(e + 1 - (offset + 1)) : part[j] = values[(offset + 1) + j - 1]
    BY <2>1, PartOfSeq
  <2>3. \A j \in 1..(e - offset) : (offset + 1) + j - 1 = offset + j
    BY <1>1
  <2> HIDE DEF part
  <2> QED
    BY <2>1, <2>2, <2>3
<1>4. listing' = listing \o part
  BY DEF Page, e
<1> HIDE DEF part
<1>5. /\ listing' \in Seq(Items) /\ Len(listing') = e
      /\ \A i \in 1..offset : listing'[i] = listing[i]
      /\ \A j \in 1..(e - offset) : listing'[offset + j] = part[j]
  <2>1. /\ listing' \in Seq(Items) /\ Len(listing') = Len(listing) + Len(part)
        /\ \A i \in 1..Len(listing) : listing'[i] = listing[i]
        /\ \A j \in 1..Len(part) : listing'[Len(listing) + j] = part[j]
    BY <1>1, <1>3, <1>4, Joined
  <2>2. Len(listing) + Len(part) = e
    BY <1>1, <1>2, <1>3
  <2> QED
    BY <1>1, <1>3, <2>1, <2>2
<1>6. ASSUME NEW i \in (offset + 1)..e
      PROVE  listing'[i] = values[i]
  <2> DEFINE k == i - offset
  <2>1. k \in 1..(e - offset) /\ offset + k = i
    BY <1>1, <1>2
  <2> HIDE DEF k
  <2> QED
    BY <1>3, <1>5, <2>1
<1>7. \/ walk' = walk /\ offset' = e
      \/ walk' = "complete" /\ offset' = offset /\ e = Len(values)
  BY <1>1, <1>2 DEF Page, NextOffset, e
<1>8. asked.collection = scope
  BY <1>1 DEF Control, ScopeMatches
<1>9. Idle /\ UNCHANGED <<scope, failures>>
  BY DEF Page, Forget, Idle
<1> QED
  BY <1>2, <1>5, <1>6, <1>7, <1>8, <1>9 DEF Served

(* A request is answered.                                                  *)
LEMMA AnswerStep ==
  ASSUME TypeOK, Control, PageAnswered
  PROVE  /\ phase = "fetching"
         /\ UNCHANGED <<asked, outside, atStart>>
         /\ \E values \in Seq(Items) :
              Read(values) /\ (NothingServed \/ Served(values) \/ ReadOn(values))
<1>1. PICK to \in position..UpstreamEnd(Source) :
        LET values == read \o SubSeq(Source, position + 1, to) IN
        \/ to >= Len(Source) /\ PaginateValues(values)
        \/ LastPage /\ PageLimit(values)
        \/ ~LastPage /\ FetchOn(values, to)
  BY DEF PageAnswered, Source
<1> DEFINE values == read \o SubSeq(Source, position + 1, to)
<1>2. Read(values) /\ Len(values) = to
  BY ValuesRead
<1>3. \/ to >= Len(Source) /\ PaginateValues(values)
      \/ LastPage /\ PageLimit(values)
      \/ ~LastPage /\ FetchOn(values, to)
  BY <1>1
<1> HIDE DEF values
<1>4. phase = "fetching" /\ UNCHANGED <<asked, outside, atStart>>
  BY DEF PageAnswered
<1>5. values \in Seq(Items) /\ failures \in Nat /\ MaxFailures \in Nat
  BY <1>2, BoundAssumption DEF Read, TypeOK
<1>6. CASE to >= Len(Source) /\ PaginateValues(values)
  <2>1. CASE ~ScopeMatches /\ Failed
    <3>1. NothingServed
      BY <1>5, <2>1 DEF Failed, Forget, NothingServed, Idle, caller
    <3> QED
      BY <1>2, <1>4, <1>5, <3>1
  <2>2. CASE ScopeMatches /\ offset > Len(values) /\ Ended("beyond")
    <3>1. NothingServed
      BY <2>2 DEF Ended, Forget, NothingServed, Idle, TypeOK
    <3> QED
      BY <1>2, <1>4, <1>5, <3>1
  <2>3. CASE ScopeMatches /\ offset <= Len(values) /\ Page(values)
    <3>1. Served(values)
      BY <1>2, <1>4, <1>5, <1>6, <2>3, PageServed
    <3> QED
      BY <1>2, <1>4, <1>5, <3>1
  <2> QED
    BY <1>6, <2>1, <2>2, <2>3 DEF PaginateValues
<1>7. CASE LastPage /\ PageLimit(values)
  <2>1. NothingServed
    BY <1>7 DEF PageLimit, Ended, Forget, NothingServed, Idle, TypeOK
  <2> QED
    BY <1>2, <1>4, <1>5, <2>1
<1>8. CASE ~LastPage /\ FetchOn(values, to)
  <2>1. pages + 1 \in 0..(MaxPages - 1)
    BY <1>8, BoundAssumption DEF LastPage, TypeOK
  <2>2. ReadOn(values)
    BY <1>2, <1>8, <2>1 DEF FetchOn, ReadOn
  <2> QED
    BY <1>2, <1>4, <1>5, <2>2
<1> QED
  BY <1>3, <1>6, <1>7, <1>8

-----------------------------------------------------------------------------
(* What has been read and the page just answered, before any of it is      *)
(* listed.                                                                 *)
LEMMA ReadStable ==
  ASSUME TypeOK, Stable, phase = "fetching", changes = 0, NEW values \in Seq(Items), Read(values)
  PROVE  /\ Len(values) <= Len(Source)
         /\ \A j \in 1..Len(values) : values[j] = Source[j]
<1>1. position \in Nat /\ Len(values) \in Nat /\ Len(Source) \in Nat /\ position <= Len(Source)
  BY Typed, LenProperties DEF TypeOK, Stable
<1>2. Len(values) <= Len(Source)
  <2>1. CASE Len(values) = position
    BY <1>1, <2>1
  <2>2. CASE Len(values) # position
    BY <1>1, <2>2 DEF Read
  <2> QED
    BY <2>1, <2>2
<1>3. ASSUME NEW j \in 1..Len(values)
      PROVE  values[j] = Source[j]
  BY <1>1 DEF Read, Stable
<1> QED
  BY <1>2, <1>3

LEMMA ReadBehind ==
  ASSUME TypeOK, Control, Distinct, Behind, ~inserted, phase = "fetching", asked.collection = scope,
         NEW values \in Seq(Items), Read(values)
  PROVE  /\ \A i, j \in 1..Len(values) : values[i] = values[j] => i = j
         /\ \A j \in 1..Len(values) : Passed(values[j], j)
         /\ \A i \in 1..Len(listing) : \A j \in 1..Len(values) :
              listing[i] = values[j] => j <= offset
<1>1. /\ position \in Nat /\ Len(values) \in Nat /\ Len(read) = position /\ scope \in Collections
      /\ Len(content[scope]) \in Nat /\ Len(listing) \in Nat /\ offset \in Nat
  BY Typed, LenProperties DEF TypeOK, Control
<1>2. \A j \in 1..position : values[j] = read[j]
  BY DEF Read
<1>3. \A j \in (position + 1)..Len(values) : j \in 1..Len(content[scope]) /\ values[j] = content[scope][j]
  BY <1>1 DEF Read, Source
<1>4. ASSUME NEW i \in 1..Len(content[scope]), NEW j \in 1..Len(content[scope]),
             content[scope][i] = content[scope][j]
      PROVE  i = j
  BY <1>1, <1>4 DEF Distinct
<1>5. \A i \in 1..Len(content[scope]) : content[scope][i] \notin gone
  BY <1>1 DEF Distinct
<1>6. /\ \A i, j \in 1..position : read[i] = read[j] => i = j
      /\ \A j \in 1..position : Passed(read[j], j)
      /\ \A i \in 1..Len(listing) : \A j \in 1..position : listing[i] = read[j] => j <= offset
      /\ \A i \in 1..Len(listing) : Passed(listing[i], offset)
  <2>1. walk = "open"
    BY DEF Control
  <2>2. /\ \A i, j \in 1..Len(read) : read[i] = read[j] => i = j
        /\ \A j \in 1..Len(read) : Passed(read[j], j)
        /\ \A i \in 1..Len(listing) : \A j \in 1..Len(read) : listing[i] = read[j] => j <= offset
    BY DEF Behind
  <2>3. \A i \in 1..Len(listing) : Passed(listing[i], offset)
    BY <2>1 DEF Behind
  <2> QED
    BY <1>1, <2>2, <2>3
<1>7. ASSUME NEW x, NEW n \in Nat, Passed(x, n), NEW j \in (position + 1)..Len(values), values[j] = x
      PROVE  j <= n
  <2>1. j \in 1..Len(content[scope]) /\ content[scope][j] = x /\ x \notin gone
    BY <1>3, <1>5, <1>7
  <2>2. PICK p \in 1..Len(content[scope]) : p <= n /\ content[scope][p] = x
    BY <1>7, <2>1 DEF Passed
  <2> QED
    BY <1>4, <2>1, <2>2
<1>8. ASSUME NEW i \in 1..Len(values), NEW j \in 1..Len(values), i < j, values[i] = values[j]
      PROVE  FALSE
  <2>1. CASE j <= position
    BY <1>1, <1>2, <1>6, <1>8, <2>1
  <2>2. CASE i <= position /\ j > position
    <3>1. i \in 1..position /\ j \in (position + 1)..Len(values)
      BY <1>1, <2>2
    <3>2. Passed(values[i], i)
      BY <1>2, <1>6, <3>1
    <3> QED
      BY <1>1, <1>7, <1>8, <3>1, <3>2
  <2>3. CASE i > position
    <3>1. i \in (position + 1)..Len(values) /\ j \in (position + 1)..Len(values)
      BY <1>1, <1>8, <2>3
    <3> QED
      BY <1>3, <1>4, <1>8, <3>1
  <2> QED
    BY <1>1, <2>1, <2>2, <2>3
<1>9. ASSUME NEW j \in 1..Len(values)
      PROVE  Passed(values[j], j)
  <2>1. CASE j <= position
    BY <1>1, <1>2, <1>6, <2>1
  <2>2. CASE j > position
    BY <1>1, <1>3, <2>2 DEF Passed
  <2> QED
    BY <1>1, <2>1, <2>2
<1>10. ASSUME NEW i \in 1..Len(listing), NEW j \in 1..Len(values), listing[i] = values[j]
       PROVE  j <= offset
  <2>1. CASE j <= position
    BY <1>1, <1>2, <1>6, <1>10, <2>1
  <2>2. CASE j > position
    <3>1. j \in (position + 1)..Len(values)
      BY <1>1, <2>2
    <3> QED
      BY <1>1, <1>6, <1>7, <1>10, <3>1
  <2> QED
    BY <1>1, <2>1, <2>2
<1>11. ASSUME NEW i \in 1..Len(values), NEW j \in 1..Len(values), values[i] = values[j]
       PROVE  i = j
  BY <1>1, <1>8, <1>11
<1> QED
  BY <1>9, <1>10, <1>11

(* Everything that is not listed yet is in hand or still to be read.       *)
LEMMA ReadComing ==
  ASSUME TypeOK, Control, Distinct, Coming, gone = {}, phase = "fetching", asked.collection = scope,
         NEW values \in Seq(Items), Read(values), NEW k \in 1..Len(atStart)
  PROVE  \/ Given(atStart[k])
         \/ \E j \in 1..Len(values) : j > offset /\ values[j] = atStart[k] /\ Ahead(atStart[k], j - 1)
         \/ \E p \in 1..Len(content[scope]) :
              p > offset /\ p > Len(values) /\ content[scope][p] = atStart[k]
<1> DEFINE x == atStart[k]
<1>1. /\ position \in Nat /\ Len(values) \in Nat /\ Len(read) = position /\ scope \in Collections
      /\ Len(content[scope]) \in Nat /\ offset \in Nat /\ Len(values) >= position
  BY Typed, LenProperties DEF TypeOK, Control, Read
<1>2. Given(x) \/ InHand(x) \/ (Ahead(x, offset) /\ Ahead(x, position))
  BY DEF Coming
<1> HIDE DEF x
<1>3. CASE InHand(x)
  <2>1. PICK j \in 1..position : j > offset /\ read[j] = x /\ Ahead(x, j - 1)
    BY <1>1, <1>3 DEF InHand
  <2>2. j \in 1..Len(values) /\ values[j] = x
    BY <1>1, <2>1 DEF Read
  <2> QED
    BY <2>1, <2>2 DEF x
<1>4. CASE Ahead(x, offset) /\ Ahead(x, position)
  <2>1. PICK p \in 1..Len(content[scope]) : p > offset /\ content[scope][p] = x
    BY <1>4 DEF Ahead
  <2>2. PICK q \in 1..Len(content[scope]) : q > position /\ content[scope][q] = x
    BY <1>4 DEF Ahead
  <2>3. p = q
    BY <1>1, <2>1, <2>2 DEF Distinct
  <2>4. CASE p <= Len(values)
    <3>1. p \in (position + 1)..Len(values) /\ p \in 1..Len(values)
      BY <1>1, <2>2, <2>3, <2>4
    <3>2. values[p] = x
      BY <2>1, <3>1 DEF Read, Source
    <3>3. Ahead(x, p - 1)
      BY <1>1, <2>1 DEF Ahead
    <3> QED
      BY <2>1, <3>1, <3>2, <3>3 DEF x
  <2>5. CASE p > Len(values)
    BY <2>1, <2>5 DEF x
  <2> QED
    BY <1>1, <2>4, <2>5
<1> QED
  BY <1>2, <1>3, <1>4 DEF x

-----------------------------------------------------------------------------
(* One lemma per action: it keeps the invariant.                           *)
LEMMA BeginKeeps ==
  ASSUME Inv, Begin
  PROVE  Inv'
<1> USE DEF Inv
<1>1. /\ walk = "open" /\ phase = "idle" /\ phase' = "fetching" /\ position = 0
      /\ asked'.collection # scope => offset > 0
      /\ asked' \in [collection : Collections, limit : Limits]
      /\ UNCHANGED <<walk, scope, offset, listing, read, position, pages, content, changes,
                     inserted, gone, failures, atStart>>
  BY DEF Begin, caller, fetch, outside, Control
<1>2. Len(read) = 0
  BY <1>1 DEF Control
<1>3. TypeOK'
  BY <1>1 DEF TypeOK
<1>4. Control'
  BY <1>1 DEF Control
<1>5. Stable'
  <2>1. asked'.collection \in Collections
    BY <1>1
  <2>2. Len(content[asked'.collection]) \in Nat
    BY <2>1, Typed
  <2> QED
    BY <1>1, <2>2 DEF Stable, Source
<1>6. Distinct'
  BY <1>1 DEF Distinct
<1>7. Behind'
  BY <1>1, <1>2 DEF Behind, Passed
<1>8. Coming'
  <2> HIDE DEF Inv
  <2> SUFFICES ASSUME gone = {}
               PROVE  \A k \in 1..Len(atStart) :
                        /\ Given(atStart[k]) \/ Ahead(atStart[k], offset)
                        /\ \/ Given(atStart[k])
                           \/ Ahead(atStart[k], offset) /\ Ahead(atStart[k], position)
    BY <1>1 DEF Coming, Given, Ahead
  <2> TAKE k \in 1..Len(atStart)
  <2> USE DEF Inv
  <2>1. Given(atStart[k]) \/ Ahead(atStart[k], offset)
    BY <1>1 DEF Coming
  <2>2. Ahead(atStart[k], offset) => Ahead(atStart[k], 0)
    BY <1>1 DEF Ahead
  <2> QED
    BY <1>1, <2>1, <2>2
<1> QED
  BY <1>3, <1>4, <1>5, <1>6, <1>7, <1>8

(* A call that ends without a page leaves its caller where it was.         *)
LEMMA NothingKeeps ==
  ASSUME Inv, phase = "fetching", NothingServed, UNCHANGED <<asked, outside, atStart>>
  PROVE  Inv'
<1> USE DEF Inv
<1>1. /\ walk = "open" /\ phase' = "idle" /\ read' = <<>> /\ position' = 0 /\ pages' = 0
      /\ walk' = "open" \/ walk' \in {"beyond", "pageLimit"}
      /\ failures' \in 0..MaxFailures
      /\ UNCHANGED <<scope, offset, listing, asked, content, changes, inserted, gone, atStart>>
  BY DEF NothingServed, Idle, outside, Control
<1>2. Len(read') = 0 /\ read' \in Seq(Items)
  BY <1>1
<1>3. TypeOK'
  BY <1>1, <1>2, BoundAssumption DEF TypeOK
<1>4. Control'
  BY <1>1, <1>2 DEF Control
<1>5. Stable'
  BY <1>1 DEF Stable
<1>6. Distinct'
  BY <1>1 DEF Distinct
<1>7. Behind'
  BY <1>1 DEF Behind, Passed
<1>8. Coming'
  BY <1>1 DEF Coming, Given, Ahead
<1> QED
  BY <1>3, <1>4, <1>5, <1>6, <1>7, <1>8

LEMMA FailureKeeps ==
  ASSUME Inv, RequestFails
  PROVE  Inv'
<1>1. failures \in Nat /\ MaxFailures \in Nat
  BY BoundAssumption DEF Inv, TypeOK
<1>2. NothingServed /\ phase = "fetching" /\ UNCHANGED <<asked, outside, atStart>>
  BY <1>1 DEF RequestFails, Failed, Forget, NothingServed, Idle, caller
<1> QED
  BY <1>2, NothingKeeps

LEMMA ReadOnKeeps ==
  ASSUME Inv, phase = "fetching", NEW values \in Seq(Items), Read(values), ReadOn(values),
         UNCHANGED <<asked, outside, atStart>>
  PROVE  Inv'
<1> USE DEF Inv
<1>1. /\ walk = "open" /\ phase' = "fetching" /\ read' = values /\ position' = Len(values)
      /\ pages' \in 0..(MaxPages - 1)
      /\ UNCHANGED <<walk, scope, offset, listing, failures, asked, content, changes, inserted, gone, atStart>>
  BY DEF ReadOn, caller, outside, Control
<1>2. Len(values) \in Nat
  BY LenProperties
<1>3. TypeOK'
  BY <1>1, <1>2 DEF TypeOK
<1>4. Control'
  BY <1>1, <1>2 DEF Control
<1>5. Stable'
  BY <1>1, ReadStable DEF Stable, Source
<1>6. Distinct'
  BY <1>1 DEF Distinct
<1>7. Behind'
  <2> SUFFICES ASSUME ~inserted
               PROVE  Behind'
    BY <1>1 DEF Behind
  <2>1. ASSUME asked.collection = scope
        PROVE  /\ \A i, j \in 1..Len(values) : values[i] = values[j] => i = j
               /\ \A j \in 1..Len(values) : Passed(values[j], j)
               /\ \A i \in 1..Len(listing) : \A j \in 1..Len(values) :
                    listing[i] = values[j] => j <= offset
    BY <2>1, ReadBehind
  <2> QED
    BY <1>1, <2>1 DEF Behind, Passed
<1>8. Coming'
  <2> SUFFICES ASSUME gone = {}
               PROVE  Coming'
    BY <1>1 DEF Coming
  <2>1. ASSUME asked.collection = scope, NEW k \in 1..Len(atStart)
        PROVE  \/ Given(atStart[k])
               \/ \E j \in 1..Len(values) :
                    j > offset /\ values[j] = atStart[k] /\ Ahead(atStart[k], j - 1)
               \/ Ahead(atStart[k], offset) /\ Ahead(atStart[k], Len(values))
    BY <2>1, ReadComing DEF Ahead
  <2>2. \A k \in 1..Len(atStart) : Given(atStart[k]) \/ Ahead(atStart[k], offset)
    BY <1>1 DEF Coming
  <2> QED
    BY <1>1, <2>1, <2>2 DEF Coming, Given, Ahead, InHand
<1> QED
  BY <1>3, <1>4, <1>5, <1>6, <1>7, <1>8

LEMMA ServedKeeps ==
  ASSUME Inv, phase = "fetching", NEW values \in Seq(Items), Read(values), Served(values),
         UNCHANGED <<asked, outside, atStart>>
  PROVE  Inv'
<1> USE DEF Inv
<1>1. /\ walk = "open" /\ phase' = "idle" /\ read' = <<>> /\ position' = 0 /\ pages' = 0
      /\ asked.collection = scope /\ Source = content[scope] /\ Len(values) >= Len(content[scope])
      /\ UNCHANGED <<scope, failures, asked, content, changes, inserted, gone, atStart>>
  BY DEF Served, Idle, outside, Control, Source
<1>2. PICK e \in offset..Len(values) :
        /\ listing' \in Seq(Items)
        /\ Len(listing') = e
        /\ \A i \in 1..offset : listing'[i] = listing[i]
        /\ \A i \in (offset + 1)..e : listing'[i] = values[i]
        /\ \/ walk' = walk /\ offset' = e
           \/ walk' = "complete" /\ offset' = offset /\ e = Len(values)
  BY DEF Served
<1>3. /\ offset \in Nat /\ Len(listing) = offset /\ Len(values) \in Nat /\ e \in Nat
      /\ Len(content[scope]) \in Nat /\ scope \in Collections /\ Len(atStart) \in Nat
  BY <1>1, <1>2, Typed, LenProperties DEF TypeOK, Control
<1>4. Len(read') = 0 /\ read' \in Seq(Items)
  BY <1>1
<1>5. TypeOK'
  BY <1>1, <1>2, <1>3, <1>4, BoundAssumption DEF TypeOK
<1>6. Control'
  BY <1>1, <1>2, <1>4 DEF Control
<1>7. Stable'
  <2> SUFFICES ASSUME changes = 0
               PROVE  Stable'
    BY <1>1 DEF Stable
  <2>1. /\ content[scope] = atStart
        /\ \A i \in 1..Len(listing) : listing[i] = atStart[i]
    BY DEF Stable
  <2>2. /\ Len(values) = Len(atStart)
        /\ \A i \in 1..Len(values) : values[i] = atStart[i]
    BY <1>1, <1>3, <2>1, ReadStable
  <2>3. \A i \in 1..e : listing'[i] = atStart[i]
    BY <1>2, <1>3, <2>1, <2>2
  <2>4. e <= Len(atStart) /\ (walk' = "complete" => e = Len(atStart))
    BY <1>1, <1>2, <1>3, <2>2
  <2> QED
    BY <1>1, <1>2, <2>1, <2>3, <2>4 DEF Stable
<1>8. Distinct'
  BY <1>1 DEF Distinct
<1>9. Behind'
  <2> SUFFICES ASSUME ~inserted
               PROVE  /\ \A i, j \in 1..e : listing'[i] = listing'[j] => i = j
                      /\ walk' = "open" => \A i \in 1..e : Passed(listing'[i], e)
    BY <1>1, <1>2 DEF Behind, Passed
  <2>1. /\ \A i, j \in 1..Len(listing) : listing[i] = listing[j] => i = j
        /\ \A i \in 1..Len(listing) : Passed(listing[i], offset)
    BY <1>1 DEF Behind
  <2>2. /\ \A i, j \in 1..Len(values) : values[i] = values[j] => i = j
        /\ \A j \in 1..Len(values) : Passed(values[j], j)
        /\ \A i \in 1..Len(listing) : \A j \in 1..Len(values) :
             listing[i] = values[j] => j <= offset
    BY <1>1, ReadBehind
  <2>3. ASSUME NEW i \in 1..e, NEW j \in 1..e, listing'[i] = listing'[j]
        PROVE  i = j
    <3>1. CASE i <= offset /\ j <= offset
      BY <1>2, <1>3, <2>1, <2>3, <3>1
    <3>2. CASE i <= offset /\ j > offset
      BY <1>2, <1>3, <2>2, <2>3, <3>2
    <3>3. CASE i > offset /\ j <= offset
      BY <1>2, <1>3, <2>2, <2>3, <3>3
    <3>4. CASE i > offset /\ j > offset
      BY <1>2, <1>3, <2>2, <2>3, <3>4
    <3> QED
      BY <1>3, <3>1, <3>2, <3>3, <3>4
  <2>4. ASSUME NEW i \in 1..e
        PROVE  Passed(listing'[i], e)
    <3>1. CASE i <= offset
      <4>1. Passed(listing'[i], offset)
        BY <1>2, <1>3, <2>1, <3>1
      <4> QED
        BY <1>2, <1>3, <4>1 DEF Passed
    <3>2. CASE i > offset
      <4>1. Passed(listing'[i], i)
        BY <1>2, <1>3, <2>2, <3>2
      <4> QED
        BY <1>2, <1>3, <4>1 DEF Passed
    <3> QED
      BY <1>3, <3>1, <3>2
  <2> QED
    BY <2>3, <2>4
<1>10. Coming'
  <2> HIDE DEF Inv
  <2> SUFFICES ASSUME gone = {}
               PROVE  \A k \in 1..Len(atStart) :
                        \/ \E i \in 1..e : listing'[i] = atStart[k]
                        \/ walk' = "open" /\ Ahead(atStart[k], e)
    BY <1>1, <1>2 DEF Coming, Given, Ahead
  <2> TAKE k \in 1..Len(atStart)
  <2> USE DEF Inv
  <2>1. \/ Given(atStart[k])
        \/ \E j \in 1..Len(values) : j > offset /\ values[j] = atStart[k] /\ Ahead(atStart[k], j - 1)
        \/ \E p \in 1..Len(content[scope]) :
             p > offset /\ p > Len(values) /\ content[scope][p] = atStart[k]
    BY <1>1, ReadComing
  <2>2. CASE Given(atStart[k])
    BY <1>2, <1>3, <2>2 DEF Given
  <2>3. CASE \E j \in 1..Len(values) : j > offset /\ values[j] = atStart[k] /\ Ahead(atStart[k], j - 1)
    <3>1. PICK j \in 1..Len(values) : j > offset /\ values[j] = atStart[k] /\ Ahead(atStart[k], j - 1)
      BY <2>3
    <3>2. CASE j <= e
      BY <1>2, <1>3, <3>1, <3>2
    <3>3. CASE j > e
      <4>1. Ahead(atStart[k], e)
        BY <1>3, <3>1, <3>3 DEF Ahead
      <4>2. walk' = "open"
        BY <1>1, <1>2, <1>3, <3>3
      <4> QED
        BY <4>1, <4>2
    <3> QED
      BY <1>3, <3>2, <3>3
  <2>4. CASE \E p \in 1..Len(content[scope]) : p > Len(values)
    BY <1>1, <1>3, <2>4
  <2> QED
    BY <2>1, <2>2, <2>3, <2>4
<1> QED
  BY <1>5, <1>6, <1>7, <1>8, <1>9, <1>10

LEMMA AddKeeps ==
  ASSUME Inv, Add
  PROVE  Inv'
<1> USE DEF Inv
<1>1. /\ changes < MaxChanges /\ changes' = changes + 1
      /\ UNCHANGED <<walk, scope, offset, listing, phase, asked, read, position, pages, failures,
                     atStart, gone>>
  BY DEF Add, caller, call, fetch
<1>2. PICK c \in Collections, x \in Items \ Known : \E i \in 0..Len(content[c]) :
        /\ content' = [content EXCEPT ![c] = With(content[c], i, x)]
        /\ inserted' = (inserted \/ i < Len(content[c]))
  BY DEF Add, With
<1>3. PICK i \in 0..Len(content[c]) :
        /\ content' = [content EXCEPT ![c] = With(content[c], i, x)]
        /\ inserted' = (inserted \/ i < Len(content[c]))
  BY <1>2
<1> DEFINE s == content[c]
           t == With(s, i, x)
<1>4. /\ s \in Seq(Items) /\ Len(s) \in Nat /\ i \in Nat /\ i <= Len(s)
  BY Typed
<1>5. /\ t \in Seq(Items) /\ Len(t) = Len(s) + 1
      /\ \A j \in 1..i : t[j] = s[j]
      /\ t[i + 1] = x
      /\ \A j \in (i + 1)..Len(s) : t[j + 1] = s[j]
  <2> HIDE DEF s
  <2>1. s \in Seq(Items) /\ x \in Items /\ i \in 0..Len(s)
    BY <1>4
  <2> QED
    BY <2>1, ItemAdded, SMTT(60)
<1>6. content'[c] = t /\ \A d \in Collections : d # c => content'[d] = content[d]
  BY <1>3 DEF TypeOK
<1>7. content' \in [Collections -> Seq(Items)]
  BY <1>3, <1>5 DEF TypeOK
<1>8. x \notin gone /\ \A d \in Collections : \A j \in 1..Len(content[d]) : content[d][j] # x
  <2>1. \A d \in Collections : DOMAIN content[d] = 1..Len(content[d])
    BY Typed, LenProperties
  <2> QED
    BY <1>2, <2>1 DEF Known
<1> HIDE DEF t
(* Where each item of the new content comes from, and where each item went *)
<1>9. ASSUME NEW d \in Collections, NEW j \in 1..Len(content'[d])
      PROVE  \/ d = c /\ j = i + 1 /\ content'[d][j] = x
             \/ \E k \in 1..Len(content[d]) :
                  /\ content'[d][j] = content[d][k]
                  /\ j = IF d = c /\ k > i THEN k + 1 ELSE k
  <2>1. CASE d # c
    BY <1>6, <2>1
  <2>2. CASE d = c /\ j <= i
    BY <1>4, <1>5, <1>6, <2>2
  <2>3. CASE d = c /\ j = i + 1
    BY <1>5, <1>6, <2>3
  <2>4. CASE d = c /\ j > i + 1
    <3> DEFINE k == j - 1
    <3>1. k \in (i + 1)..Len(s) /\ k + 1 = j /\ k \in 1..Len(s) /\ k > i
      BY <1>4, <1>5, <1>6, <2>4
    <3> HIDE DEF k
    <3>2. t[k + 1] = s[k]
      BY <1>5, <3>1
    <3> QED
      BY <1>6, <2>4, <3>1, <3>2
  <2> QED
    BY <1>4, <1>5, <1>6, <2>1, <2>2, <2>3, <2>4
<1>10. ASSUME NEW k \in 1..Len(content[scope])
       PROVE  \E q \in 1..Len(content'[scope]) : q >= k /\ content'[scope][q] = content[scope][k]
  <2>1. scope \in Collections
    BY DEF TypeOK
  <2>2. CASE scope # c
    BY <1>6, <2>1, <2>2
  <2>3. CASE scope = c /\ k <= i
    BY <1>4, <1>5, <1>6, <2>3
  <2>4. CASE scope = c /\ k > i
    <3>1. k \in (i + 1)..Len(s) /\ k + 1 \in 1..Len(t) /\ k + 1 >= k
      BY <1>4, <1>5, <2>4
    <3>2. t[k + 1] = s[k]
      BY <1>5, <3>1
    <3> QED
      BY <1>6, <2>4, <3>1, <3>2
  <2> QED
    BY <1>4, <2>2, <2>3, <2>4
<1>11. TypeOK'
  BY <1>1, <1>3, <1>7, BoundAssumption DEF TypeOK
<1>12. Control'
  BY <1>1 DEF Control
<1>13. Stable'
  BY <1>1, BoundAssumption DEF Stable, TypeOK
<1>14. Distinct'
  <2>0. ASSUME NEW d \in Collections, NEW j \in 1..Len(content'[d]), content'[d][j] = x
        PROVE  d = c /\ j = i + 1
    <3>1. \A k \in 1..Len(content[d]) : content[d][k] # x
      BY <1>8
    <3>2. ~ \E k \in 1..Len(content[d]) :
              /\ content'[d][j] = content[d][k]
              /\ j = IF d = c /\ k > i THEN k + 1 ELSE k
      BY <2>0, <3>1
    <3> QED
      BY <1>9, <3>2
  <2>1. ASSUME NEW d \in Collections, NEW e \in Collections,
               NEW j \in 1..Len(content'[d]), NEW k \in 1..Len(content'[e]),
               content'[d][j] = content'[e][k]
        PROVE  d = e /\ j = k
    <3>1. \A m \in 1..Len(content[d]) : \A n \in 1..Len(content[e]) :
            content[d][m] = content[e][n] => d = e /\ m = n
      BY DEF Distinct
    <3>2. CASE content'[d][j] = x
      <4>1. d = c /\ j = i + 1
        BY <2>0, <3>2
      <4>2. e = c /\ k = i + 1
        BY <2>0, <2>1, <3>2
      <4> QED
        BY <4>1, <4>2
    <3>3. CASE content'[d][j] # x
      <4>1. PICK m \in 1..Len(content[d]) :
              content'[d][j] = content[d][m] /\ j = IF d = c /\ m > i THEN m + 1 ELSE m
        BY <1>9, <3>3
      <4>2. PICK n \in 1..Len(content[e]) :
              content'[e][k] = content[e][n] /\ k = IF e = c /\ n > i THEN n + 1 ELSE n
        BY <1>9, <2>1, <3>3
      <4> QED
        BY <2>1, <3>1, <4>1, <4>2
    <3> QED
      BY <3>2, <3>3
  <2>2. ASSUME NEW d \in Collections, NEW j \in 1..Len(content'[d])
        PROVE  content'[d][j] \notin gone
    <3>1. CASE content'[d][j] = x
      BY <1>8, <3>1
    <3>2. CASE content'[d][j] # x
      <4>1. PICK m \in 1..Len(content[d]) : content'[d][j] = content[d][m]
        BY <1>9, <3>2
      <4> QED
        BY <4>1 DEF Distinct
    <3> QED
      BY <3>1, <3>2
  <2> QED
    BY <1>1, <2>1, <2>2 DEF Distinct
<1>15. Behind'
  <2> SUFFICES ASSUME ~inserted'
               PROVE  Behind'
    BY DEF Behind
  <2>0. ~inserted /\ i = Len(s)
    <3>1. i < Len(s) \/ i = Len(s)
      BY <1>4
    <3> QED
      BY <1>3, <3>1
  <2>1. ASSUME NEW y, NEW n \in Nat, Passed(y, n)
        PROVE  y \in gone \/ \E p \in 1..Len(content'[scope]) : p <= n /\ content'[scope][p] = y
    <3>1. scope \in Collections
      BY DEF TypeOK
    <3>2. \A p \in 1..Len(content[scope]) :
            p \in 1..Len(content'[scope]) /\ content'[scope][p] = content[scope][p]
      <4> USE <2>0
      <4>1. CASE scope # c
        BY <1>6, <3>1, <4>1
      <4>2. CASE scope = c
        BY <1>4, <1>5, <1>6, <4>2
      <4> QED
        BY <4>1, <4>2
    <3> QED
      BY <2>1, <3>2 DEF Passed
  <2>3. offset \in Nat
    BY DEF TypeOK
  <2>4. /\ \A i1, j1 \in 1..Len(listing) : listing[i1] = listing[j1] => i1 = j1
        /\ walk = "open" => \A i1 \in 1..Len(listing) : Passed(listing[i1], offset)
        /\ phase = "fetching" /\ asked.collection = scope =>
             /\ \A i1, j1 \in 1..Len(read) : read[i1] = read[j1] => i1 = j1
             /\ \A j1 \in 1..Len(read) : Passed(read[j1], j1)
             /\ \A i1 \in 1..Len(listing) : \A j1 \in 1..Len(read) :
                  listing[i1] = read[j1] => j1 <= offset
    BY <2>0 DEF Behind
  <2>5. ASSUME walk = "open", NEW i1 \in 1..Len(listing)
        PROVE  Passed(listing[i1], offset)'
    <3>1. Passed(listing[i1], offset)
      BY <2>4, <2>5
    <3>2. \/ listing[i1] \in gone
          \/ \E p \in 1..Len(content'[scope]) : p <= offset /\ content'[scope][p] = listing[i1]
      BY <2>1, <2>3, <3>1
    <3> HIDE DEF Inv
    <3> QED
      BY <1>1, <3>2 DEF Passed
  <2>6. ASSUME phase = "fetching", asked.collection = scope, NEW j1 \in 1..Len(read)
        PROVE  Passed(read[j1], j1)'
    <3>1. Passed(read[j1], j1) /\ j1 \in Nat
      BY <2>4, <2>6
    <3>2. \/ read[j1] \in gone
          \/ \E p \in 1..Len(content'[scope]) : p <= j1 /\ content'[scope][p] = read[j1]
      BY <2>1, <3>1
    <3> HIDE DEF Inv
    <3> QED
      BY <1>1, <3>2 DEF Passed
  <2> HIDE DEF Inv
  <2> QED
    BY <1>1, <2>4, <2>5, <2>6 DEF Behind
<1>16. Coming'
  <2>1. ASSUME NEW y, NEW n \in Int, Ahead(y, n)
        PROVE  \E q \in 1..Len(content'[scope]) : q > n /\ content'[scope][q] = y
    <3>1. PICK p \in 1..Len(content[scope]) : p > n /\ content[scope][p] = y
      BY <2>1 DEF Ahead
    <3>2. PICK q \in 1..Len(content'[scope]) : q >= p /\ content'[scope][q] = content[scope][p]
      BY <1>10
    <3>3. Len(content'[scope]) \in Nat
      BY <1>7, LenProperties DEF TypeOK
    <3>4. q > n
      BY <3>1, <3>2
    <3> QED
      BY <3>1, <3>2, <3>4
  <2>2. offset \in Int /\ position \in Int /\ Len(read) \in Nat
    BY Typed DEF TypeOK
  <2>3. ASSUME NEW y, InHand(y)
        PROVE  InHand(y)'
    <3>1. PICK j \in 1..Len(read) : j > offset /\ read[j] = y /\ Ahead(y, j - 1)
      BY <2>3 DEF InHand
    <3>2. \E q \in 1..Len(content'[scope]) : q > j - 1 /\ content'[scope][q] = y
      BY <2>1, <3>1
    <3> QED
      BY <1>1, <3>1, <3>2 DEF InHand, Ahead
  <2>4. \A y : Given(y) => Given(y)'
    BY <1>1 DEF Given
  <2>5. \A y : (Ahead(y, offset) => Ahead(y, offset)') /\ (Ahead(y, position) => Ahead(y, position)')
    BY <1>1, <2>1, <2>2 DEF Ahead
  <2> HIDE DEF Inv
  <2>6. Coming
    BY DEF Inv
  <2> QED
    BY <1>1, <2>3, <2>4, <2>5, <2>6 DEF Coming
<1> QED
  BY <1>11, <1>12, <1>13, <1>14, <1>15, <1>16

LEMMA RemoveKeeps ==
  ASSUME Inv, Remove
  PROVE  Inv'
<1> USE DEF Inv
<1>1. /\ changes < MaxChanges /\ changes' = changes + 1
      /\ UNCHANGED <<walk, scope, offset, listing, phase, asked, read, position, pages, failures,
                     atStart, inserted>>
  BY DEF Remove, caller, call, fetch
<1>2. PICK c \in Collections : \E i \in DOMAIN content[c] :
        /\ content' = [content EXCEPT ![c] = Without(content[c], i)]
        /\ gone' = gone \cup {content[c][i]}
  BY DEF Remove, Without
<1>3. PICK i \in DOMAIN content[c] :
        /\ content' = [content EXCEPT ![c] = Without(content[c], i)]
        /\ gone' = gone \cup {content[c][i]}
  BY <1>2
<1> DEFINE s == content[c]
           t == Without(s, i)
<1>4. s \in Seq(Items) /\ Len(s) \in Nat /\ i \in 1..Len(s) /\ s[i] \in Items
  BY Typed, LenProperties, ElementOfSeq
<1>5. /\ t \in Seq(Items) /\ Len(t) = Len(s) - 1
      /\ \A j \in 1..(i - 1) : t[j] = s[j]
      /\ \A j \in (i + 1)..Len(s) : t[j - 1] = s[j]
  <2> HIDE DEF s
  <2> QED
    BY <1>4, ItemRemoved
<1>6. content'[c] = t /\ \A d \in Collections : d # c => content'[d] = content[d]
  BY <1>3 DEF TypeOK
<1>7. content' \in [Collections -> Seq(Items)]
  BY <1>3, <1>5 DEF TypeOK
<1> HIDE DEF t
(* Where each item of the new content comes from, and where each item went *)
<1>8. ASSUME NEW d \in Collections, NEW j \in 1..Len(content'[d])
      PROVE  \E k \in 1..Len(content[d]) :
               /\ content'[d][j] = content[d][k]
               /\ k = IF d = c /\ j >= i THEN j + 1 ELSE j
  <2>1. CASE d # c
    BY <1>6, <2>1
  <2>2. CASE d = c /\ j < i
    <3>1. j \in 1..(i - 1) /\ j \in 1..Len(s)
      BY <1>4, <1>6, <2>2
    <3> QED
      BY <1>5, <1>6, <2>2, <3>1
  <2>3. CASE d = c /\ j >= i
    <3> DEFINE k == j + 1
    <3>1. k \in (i + 1)..Len(s) /\ k - 1 = j /\ k \in 1..Len(s)
      BY <1>4, <1>5, <1>6, <2>3
    <3> HIDE DEF k
    <3>2. t[k - 1] = s[k]
      BY <1>5, <3>1
    <3>3. content'[d][j] = content[d][k]
      BY <1>6, <2>3, <3>1, <3>2
    <3>4. k = IF d = c /\ j >= i THEN j + 1 ELSE j
      BY <2>3 DEF k
    <3> QED
      BY <2>3, <3>1, <3>3, <3>4
  <2> QED
    BY <1>4, <2>1, <2>2, <2>3
<1>9. ASSUME NEW k \in 1..Len(content[scope])
      PROVE  \/ content[scope][k] \in gone'
             \/ \E q \in 1..Len(content'[scope]) : q <= k /\ content'[scope][q] = content[scope][k]
  <2>1. scope \in Collections
    BY DEF TypeOK
  <2>2. CASE scope # c
    BY <1>6, <2>1, <2>2
  <2>3. CASE scope = c /\ k < i
    <3>1. k \in 1..(i - 1) /\ k \in 1..Len(t)
      BY <1>4, <1>5, <2>3
    <3> QED
      BY <1>5, <1>6, <2>3, <3>1
  <2>4. CASE scope = c /\ k = i
    BY <1>3, <2>4
  <2>5. CASE scope = c /\ k > i
    <3>1. k \in (i + 1)..Len(s) /\ k - 1 \in 1..Len(t) /\ k - 1 <= k
      BY <1>4, <1>5, <2>5
    <3>2. t[k - 1] = s[k]
      BY <1>5, <3>1
    <3> QED
      BY <1>6, <2>5, <3>1, <3>2
  <2> QED
    BY <1>4, <2>2, <2>3, <2>4, <2>5
<1>10. TypeOK'
  BY <1>1, <1>3, <1>4, <1>7, BoundAssumption DEF TypeOK
<1>11. Control'
  BY <1>1 DEF Control
<1>12. Stable'
  BY <1>1, BoundAssumption DEF Stable, TypeOK
<1>13. Distinct'
  <2>1. ASSUME NEW d \in Collections, NEW e \in Collections,
               NEW j \in 1..Len(content'[d]), NEW k \in 1..Len(content'[e]),
               content'[d][j] = content'[e][k]
        PROVE  d = e /\ j = k
    <3>1. PICK m \in 1..Len(content[d]) :
            content'[d][j] = content[d][m] /\ m = IF d = c /\ j >= i THEN j + 1 ELSE j
      BY <1>8
    <3>2. PICK n \in 1..Len(content[e]) :
            content'[e][k] = content[e][n] /\ n = IF e = c /\ k >= i THEN k + 1 ELSE k
      BY <1>8
    <3>3. d = e /\ m = n
      <4>1. content[d][m] = content[e][n]
        BY <2>1, <3>1, <3>2
      <4> QED
        BY <4>1 DEF Distinct
    <3> QED
      BY <1>4, <3>1, <3>2, <3>3
  <2>2. ASSUME NEW d \in Collections, NEW j \in 1..Len(content'[d])
        PROVE  content'[d][j] \notin gone'
    <3>1. PICK m \in 1..Len(content[d]) :
            content'[d][j] = content[d][m] /\ m = IF d = c /\ j >= i THEN j + 1 ELSE j
      BY <1>8
    <3>2. content[d][m] \notin gone
      BY DEF Distinct
    <3>3. content[d][m] # content[c][i]
      <4>1. d # c \/ m # i
        BY <1>4, <3>1
      <4> QED
        BY <1>4, <4>1 DEF Distinct
    <3> QED
      BY <1>3, <3>1, <3>2, <3>3
  <2> QED
    BY <2>1, <2>2 DEF Distinct
<1>14. Behind'
  <2> SUFFICES ASSUME ~inserted'
               PROVE  Behind'
    BY DEF Behind
  <2>1. ASSUME NEW y, NEW n \in Nat, Passed(y, n)
        PROVE  y \in gone' \/ \E p \in 1..Len(content'[scope]) : p <= n /\ content'[scope][p] = y
    <3>1. CASE y \in gone
      BY <1>3, <3>1
    <3>2. CASE y \notin gone
      <4>1. PICK p \in 1..Len(content[scope]) : p <= n /\ content[scope][p] = y
        BY <2>1, <3>2 DEF Passed
      <4>2. y \in gone' \/ \E q \in 1..Len(content'[scope]) : q <= p /\ content'[scope][q] = y
        BY <1>9, <4>1
      <4> QED
        BY <4>1, <4>2
    <3> QED
      BY <3>1, <3>2
  <2>3. offset \in Nat
    BY DEF TypeOK
  <2>4. /\ \A i1, j1 \in 1..Len(listing) : listing[i1] = listing[j1] => i1 = j1
        /\ walk = "open" => \A i1 \in 1..Len(listing) : Passed(listing[i1], offset)
        /\ phase = "fetching" /\ asked.collection = scope =>
             /\ \A i1, j1 \in 1..Len(read) : read[i1] = read[j1] => i1 = j1
             /\ \A j1 \in 1..Len(read) : Passed(read[j1], j1)
             /\ \A i1 \in 1..Len(listing) : \A j1 \in 1..Len(read) :
                  listing[i1] = read[j1] => j1 <= offset
    BY <1>1 DEF Behind
  <2>5. ASSUME walk = "open", NEW i1 \in 1..Len(listing)
        PROVE  Passed(listing[i1], offset)'
    <3>1. Passed(listing[i1], offset)
      BY <2>4, <2>5
    <3>2. \/ listing[i1] \in gone'
          \/ \E p \in 1..Len(content'[scope]) : p <= offset /\ content'[scope][p] = listing[i1]
      BY <2>1, <2>3, <3>1
    <3> HIDE DEF Inv
    <3> QED
      BY <1>1, <3>2 DEF Passed
  <2>6. ASSUME phase = "fetching", asked.collection = scope, NEW j1 \in 1..Len(read)
        PROVE  Passed(read[j1], j1)'
    <3>1. Passed(read[j1], j1) /\ j1 \in Nat
      BY <2>4, <2>6
    <3>2. \/ read[j1] \in gone'
          \/ \E p \in 1..Len(content'[scope]) : p <= j1 /\ content'[scope][p] = read[j1]
      BY <2>1, <3>1
    <3> HIDE DEF Inv
    <3> QED
      BY <1>1, <3>2 DEF Passed
  <2> HIDE DEF Inv
  <2> QED
    BY <1>1, <2>4, <2>5, <2>6 DEF Behind
<1>15. Coming'
  BY <1>3 DEF Coming
<1> QED
  BY <1>10, <1>11, <1>12, <1>13, <1>14, <1>15

-----------------------------------------------------------------------------
LEMMA InitInv ==
  Init => Inv
<1> SUFFICES ASSUME Init
             PROVE  Inv
  OBVIOUS
<1>1. /\ content \in Contents /\ changes = 0 /\ walk = "open" /\ scope \in Collections /\ offset = 0
      /\ listing = <<>> /\ phase = "idle" /\ read = <<>> /\ position = 0 /\ pages = 0
      /\ failures = 0 /\ atStart = content[scope] /\ inserted = FALSE /\ gone = {}
  BY DEF Init
<1>2. asked \in [collection : Collections, limit : Limits]
  BY <1>1 DEF Init
<1>3. content \in [Collections -> Seq(Items)] /\ atStart \in Seq(Items)
  BY <1>1, ContentsAssumption
<1>4. Len(listing) = 0 /\ Len(read) = 0 /\ listing \in Seq(Items) /\ read \in Seq(Items)
  BY <1>1
<1>5. TypeOK
  <2>1. 0 \in 0..MaxChanges /\ 0 \in 0..(MaxPages - 1) /\ 0 \in 0..MaxFailures
    BY BoundAssumption
  <2>2. gone \in SUBSET Items
    BY <1>1
  <2> QED
    BY <1>1, <1>2, <1>3, <1>4, <2>1, <2>2 DEF TypeOK
<1>6. Control
  BY <1>1, <1>4 DEF Control
<1>7. Stable
  BY <1>1, <1>3, <1>4, LenProperties DEF Stable
<1>8. Distinct
  <2>1. \A c \in Collections : DOMAIN content[c] = 1..Len(content[c])
    BY <1>3, LenProperties
  <2>2. \A c, d \in Collections : \A i \in DOMAIN content[c] : \A j \in DOMAIN content[d] :
          content[c][i] = content[d][j] => c = d /\ i = j
    BY <1>1, DistinctAssumption
  <2> QED
    BY <1>1, <2>1, <2>2 DEF Distinct
<1>9. Behind
  BY <1>1, <1>4 DEF Behind
<1>10. Coming
  BY <1>1, <1>3, LenProperties DEF Coming, Ahead
<1> QED
  BY <1>5, <1>6, <1>7, <1>8, <1>9, <1>10 DEF Inv

(* The invariant holds in every state.                                     *)
THEOREM Invariance ==
  Spec => []Inv
<1>1. ASSUME Inv, [Next]_vars
      PROVE  Inv'
  <2>1. CASE Begin
    BY <1>1, <2>1, BeginKeeps
  <2>2. CASE RequestFails
    BY <1>1, <2>2, FailureKeeps
  <2>3. CASE PageAnswered
    <3>1. TypeOK /\ Control
      BY <1>1 DEF Inv
    <3>2. /\ phase = "fetching" /\ UNCHANGED <<asked, outside, atStart>>
          /\ \E values \in Seq(Items) :
               Read(values) /\ (NothingServed \/ Served(values) \/ ReadOn(values))
      BY <2>3, <3>1, AnswerStep
    <3>3. PICK values \in Seq(Items) :
            Read(values) /\ (NothingServed \/ Served(values) \/ ReadOn(values))
      BY <3>2
    <3>4. CASE NothingServed
      BY <1>1, <3>2, <3>4, NothingKeeps
    <3>5. CASE Served(values)
      BY <1>1, <3>2, <3>3, <3>5, ServedKeeps
    <3>6. CASE ReadOn(values)
      BY <1>1, <3>2, <3>3, <3>6, ReadOnKeeps
    <3> QED
      BY <3>3, <3>4, <3>5, <3>6
  <2>4. CASE Add
    BY <1>1, <2>4, AddKeeps
  <2>5. CASE Remove
    BY <1>1, <2>5, RemoveKeeps
  <2>6. CASE UNCHANGED vars
    <3>1. /\ UNCHANGED <<walk, scope, offset, listing, phase, asked, read, position, pages>>
          /\ UNCHANGED <<content, changes, inserted, gone, failures, atStart>>
      BY <2>6 DEF vars, caller, call, fetch, outside
    <3>2. TypeOK' /\ Control'
      BY <1>1, <3>1 DEF Inv, TypeOK, Control
    <3>3. Stable' /\ Distinct'
      BY <1>1, <3>1 DEF Inv, Stable, Distinct, Source
    <3>4. Behind'
      BY <1>1, <3>1 DEF Inv, Behind, Passed
    <3>5. Coming'
      BY <1>1, <3>1 DEF Inv, Coming, Given, Ahead, InHand
    <3> QED
      BY <3>2, <3>3, <3>4, <3>5 DEF Inv
  <2> QED
    BY <1>1, <2>1, <2>2, <2>3, <2>4, <2>5, <2>6 DEF Next
<1> QED
  BY <1>1, InitInv, PTL DEF Spec

-----------------------------------------------------------------------------
(* Every variable keeps its type; no call makes as many requests as the    *)
(* page limit and goes on.                                                 *)
THEOREM TypeCorrect ==
  Spec => []TypeOK
<1>1. Inv => TypeOK
  BY DEF Inv
<1> QED
  BY <1>1, Invariance, PTL

(* A walk through a collection that does not change lists it from its      *)
(* beginning, in order, and to its end if it completes.                    *)
THEOREM WalkListsCollection ==
  Spec => []ListsTheCollection
<1>1. ASSUME Inv
      PROVE  ListsTheCollection
  <2> SUFFICES ASSUME changes = 0
               PROVE  /\ listing = SubSeq(atStart, 1, Len(listing))
                      /\ walk = "complete" => listing = atStart
    BY DEF ListsTheCollection
  <2>1. /\ listing \in Seq(Items) /\ atStart \in Seq(Items)
        /\ Len(listing) \in Nat /\ Len(atStart) \in Nat
    BY <1>1, Typed DEF Inv, TypeOK
  <2>2. /\ Len(listing) <= Len(atStart)
        /\ \A i \in 1..Len(listing) : listing[i] = atStart[i]
        /\ walk = "complete" => Len(listing) = Len(atStart)
    BY <1>1 DEF Inv, Stable
  <2> DEFINE part == SubSeq(atStart, 1, Len(listing))
  <2>3. /\ part \in Seq(Items) /\ Len(part) = Len(listing)
        /\ \A i \in 1..Len(listing) : part[i] = atStart[i]
    <3>1. /\ part \in Seq(Items) /\ Len(part) = Len(listing) + 1 - 1
          /\ \A i \in 1..(Len(listing) + 1 - 1) : part[i] = atStart[1 + i - 1]
      BY <2>1, <2>2, PartOfSeq
    <3> HIDE DEF part
    <3> QED
      BY <2>1, <3>1
  <2> HIDE DEF part
  <2>4. listing = part
    BY <2>1, <2>2, <2>3, SeqEqual
  <2>5. walk = "complete" => listing = atStart
    BY <2>1, <2>2, SeqEqual
  <2> QED
    BY <2>4, <2>5 DEF part
<1> QED
  BY <1>1, Invariance, PTL

(* Removing items and adding them at the end makes none come twice.        *)
THEOREM NothingComesTwice ==
  Spec => []NoRepeats
<1>1. ASSUME Inv
      PROVE  NoRepeats
  <2>1. DOMAIN listing = 1..Len(listing)
    BY <1>1, LenProperties DEF Inv, TypeOK
  <2> QED
    BY <1>1, <2>1 DEF Inv, Behind, NoRepeats
<1> QED
  BY <1>1, Invariance, PTL

(* Adding items hides none that was there all the time.                    *)
THEOREM NothingIsMissed ==
  Spec => []NoGaps
<1>1. ASSUME Inv
      PROVE  NoGaps
  <2>1. DOMAIN listing = 1..Len(listing) /\ DOMAIN atStart = 1..Len(atStart)
    BY <1>1, LenProperties DEF Inv, TypeOK
  <2> QED
    BY <1>1, <2>1 DEF Inv, Coming, NoGaps, Given, Listed
<1> QED
  BY <1>1, Invariance, PTL
==============================================================================
