------------------------- MODULE CommandLineProofs -------------------------
(***************************************************************************)
(* Theorems about CommandLine, for any bus, any list of serial numbers,    *)
(* any size of the table, any command, text and file: which units main()   *)
(* opens for the command, what everything the threads compute is, what an  *)
(* upload leaves in a unit, and the colour a unit shows.                   *)
(*                                                                         *)
(* Four invariants, each on top of those before it.  SelectInv: the two    *)
(* passes over the bus drop units that are not there, that do not open or  *)
(* that are named twice; at each place of main what is found so far is, in *)
(* order, what was looked for so far.  TypeInv: the numbers and texts of   *)
(* each thread stay in range, whichever way the threads mix argv[3].       *)
(* RoundInv: a thread in the middle of a file has loaded what it has read. *)
(* ColorInv: of a thread that strips the spaces of a colour, which         *)
(* characters are in place and which are still as they were typed.         *)
(***************************************************************************)
EXTENDS CommandLine, SequenceTheorems, FiniteSetTheorems, WellFoundedInduction, TLAPS

-----------------------------------------------------------------------------
(* The invariant.                                                          *)

\* Sequence c is what is left of sequence s, of which so many elements were taken.
Taken(c, s)  == Len(s) - Len(c)
IsRest(c, s) == Len(c) <= Len(s) /\ \A i \in 1 .. Len(c) : c[i] = s[Taken(c, s) + i]

\* The places of S up to n, and the elements of sequence t at the places of S.
UpTo(n, S)    == {k \in S : k <= n}
UnitsAt(t, S) == {t[k] : k \in S}

\* Sequence s has, in order, units among the first n asked for, and all of them unless one
\* did not open.
Gathered(s, n) ==
    /\ PickedFrom(s, Asked, UpTo(n, Found))
    /\ Never("open_fail") => Range(s) = UnitsAt(Asked, UpTo(n, Found))

\* The unit looked for is not among those of the bus looked at.
NotYet(u) == Never("open_fail") => \A k \in 1 .. Taken(cur, Listed) : Listed[k] # u

SearchAll == path_list = <<>> /\ Gathered(handle, Taken(cur, Listed))
SearchOne ==
    /\ path_list = <<>> /\ todo = ident.serials
    /\ \/ handle = <<>> /\ NotYet(Head(todo))
       \/ handle = <<Head(todo)>> /\ OnBus(Head(todo))
SearchList ==
    /\ handle = <<>> /\ IsRest(todo, ident.serials)
    /\ todo # <<>> => NotYet(Head(todo))
    /\ Gathered(path_list, Taken(todo, ident.serials))

Searched ==
    /\ IsRest(cur, Listed)
    /\ \/ ident.kind \in {"none", "all"} /\ SearchAll
       \/ ident.kind = "one" /\ SearchOne
       \/ ident.kind = "list" /\ SearchList

\* The units open and those whose path is still to be opened again.
Reopening ==
    /\ PickedFrom(handle \o path_list, Asked, Found)
    /\ Never("open_fail") /\ Cardinality(Found) <= MAX_DEVICES =>
          Range(handle) \cup Range(path_list) = UnitsAt(Asked, Found)

SelectTypes ==
    /\ ident \in Identifiers
    /\ cur \in Seq(Range(Listed)) /\ todo \in Seq(Units)
    /\ handle \in Seq(Range(Listed)) /\ path_list \in Seq(Range(Listed))
    /\ Len(handle) + Len(path_list) <= MAX_DEVICES

Selecting == main \in {"start", "search", "reopen", "serial", "launch"}

SelectInv ==
    /\ SelectTypes
    /\ IsInjective(handle)
    /\ Selecting => \A t \in Threads : pc[t] = "none"
    /\ main \in {"start", "search", "reopen", "serial"} => opened = Range(handle)
    /\ main = "start" => handle = <<>> /\ path_list = <<>>
    /\ main = "search" => Searched
    /\ main \in {"reopen", "serial"} => Reopening
    /\ RightUnits

-----------------------------------------------------------------------------
(* What is picked, found and left.                                         *)

\* What hid_enumerate() returns is a list.
LEMMA ListedList == Listed \in Seq(Range(Listed))
<1>1. PICK n \in Nat : n = Len(SelectSeq(Bus, LAMBDA d : d.perInterface /\ d.hid /\ d.plasma))
  <2>1. Len(SelectSeq(Bus, LAMBDA d : d.perInterface /\ d.hid /\ d.plasma)) \in Nat
    OBVIOUS
  <2> QED
    BY <2>1
<1>2. DOMAIN Listed = 1 .. n /\ Listed = [k \in 1 .. n |-> Listed[k]]
  BY <1>1 DEF Listed, hid_enumerate
<1>3. \A k \in 1 .. n : Listed[k] \in Range(Listed)
  BY <1>2 DEF Range
<1> QED
  BY <1>2, <1>3

\* What the user asked for is a list, whose places are finitely many.
LEMMA AskedList ==
    ASSUME ident \in Identifiers
    PROVE  /\ Len(Asked) \in Nat /\ DOMAIN Asked = 1 .. Len(Asked)
           /\ Found \subseteq 1 .. Len(Asked) /\ IsFiniteSet(Found)
<1>1. ident.serials \in Seq(Units)
  BY IdentAssumption
<1>2. Len(Asked) \in Nat /\ DOMAIN Asked = 1 .. Len(Asked)
  BY <1>1, ListedList DEF Asked
<1>3. IsFiniteSet(1 .. Len(Asked))
  BY <1>2, FS_Interval
<1> QED
  BY <1>2, <1>3, FS_Subset DEF Found

\* One more place found.
LEMMA PickOne ==
    ASSUME NEW T, NEW s \in Seq(T), NEW x \in T, NEW t, NEW n \in Nat, NEW S \in SUBSET (1 .. n),
           PickedFrom(s, t, S), t[n + 1] = x
    PROVE  PickedFrom(Append(s, x), t, S \cup {n + 1})
<1>1. PICK place \in [DOMAIN s -> S] :
        /\ \A i, j \in DOMAIN s : i < j => place[i] < place[j]
        /\ \A i \in DOMAIN s : s[i] = t[place[i]]
  BY DEF PickedFrom
<1>2. PICK m \in Nat : m = Len(s)
  BY LenProperties
<1>3. DOMAIN s = 1 .. m /\ DOMAIN Append(s, x) = 1 .. m + 1
      /\ (\A i \in 1 .. m : Append(s, x)[i] = s[i]) /\ Append(s, x)[m + 1] = x
  BY <1>2, AppendProperties
<1>4. PICK next : next = [i \in 1 .. m + 1 |-> IF i <= m THEN place[i] ELSE n + 1]
  OBVIOUS
<1>5. next \in [DOMAIN Append(s, x) -> S \cup {n + 1}]
  BY <1>1, <1>3, <1>4
<1>6. ASSUME NEW i \in 1 .. m + 1, NEW j \in 1 .. m + 1, i < j PROVE next[i] < next[j]
  <2>1. i \in 1 .. m /\ next[i] = place[i] /\ place[i] \in 1 .. n
    <3>1. i \in 1 .. m
      BY <1>6
    <3>2. next[i] = place[i]
      BY <1>4, <3>1
    <3>3. place[i] \in S
      BY <1>1, <1>3, <3>1
    <3> QED
      BY <3>1, <3>2, <3>3
  <2>2. CASE j = m + 1
    <3>1. next[j] = n + 1
      BY <1>4, <2>2
    <3> QED
      BY <2>1, <3>1
  <2>3. CASE j # m + 1
    <3>1. j \in 1 .. m
      BY <1>2, <2>3
    <3>2. next[j] = place[j]
      BY <1>4, <3>1
    <3>3. place[i] < place[j]
      BY <1>1, <1>3, <1>6, <2>1, <3>1
    <3> QED
      BY <2>1, <3>2, <3>3
  <2> QED
    BY <2>2, <2>3
<1>7. ASSUME NEW i \in 1 .. m + 1 PROVE Append(s, x)[i] = t[next[i]]
  BY <1>1, <1>3, <1>4, <1>7
<1> QED
  BY <1>3, <1>5, <1>6, <1>7 DEF PickedFrom

\* More places to pick from.
LEMMA PickWider ==
    ASSUME NEW s, NEW t, NEW S, NEW W, S \subseteq W, PickedFrom(s, t, S)
    PROVE  PickedFrom(s, t, W)
  BY DEF PickedFrom

\* Nothing is picked.
LEMMA PickNone == ASSUME NEW t, NEW S PROVE PickedFrom(<<>>, t, S)
<1>1. PICK place : place = [i \in {} |-> 0]
  OBVIOUS
<1>2. place \in [{} -> S] /\ DOMAIN <<>> = {}
  BY <1>1
<1> QED
  BY <1>2 DEF PickedFrom

\* One element less.
LEMMA PickLess ==
    ASSUME NEW T, NEW s \in Seq(T), NEW r \in Seq(T), r # <<>>, NEW t, NEW S \in SUBSET Nat,
           PickedFrom(s \o r, t, S)
    PROVE  PickedFrom(s \o Tail(r), t, S)
<1>1. PICK m \in Nat, n \in Nat : m = Len(s) /\ n + 1 = Len(r)
  <2>1. Len(s) \in Nat /\ Len(r) \in Nat /\ Len(r) # 0
    BY LenProperties, EmptySeq
  <2> QED
    BY <2>1
<1>2. /\ DOMAIN (s \o r) = 1 .. m + n + 1 /\ DOMAIN (s \o Tail(r)) = 1 .. m + n
      /\ \A i \in 1 .. m : (s \o r)[i] = s[i] /\ (s \o Tail(r))[i] = s[i]
      /\ \A i \in m + 1 .. m + n : (s \o Tail(r))[i] = (s \o r)[i + 1]
  <2>1. PICK q \in Seq(T) : q = Tail(r) /\ Len(q) = n /\ \A k \in 1 .. n : q[k] = r[k + 1]
    <3>1. Tail(r) \in Seq(T) /\ Len(Tail(r)) = Len(r) - 1
          /\ \A k \in 1 .. Len(Tail(r)) : Tail(r)[k] = r[k + 1]
      BY HeadTailProperties
    <3>2. Len(Tail(r)) = n
      BY <1>1, <3>1
    <3> QED
      BY <3>1, <3>2
  <2>2. /\ DOMAIN (s \o r) = 1 .. m + n + 1
        /\ \A i \in 1 .. m + n + 1 : (s \o r)[i] = IF i <= m THEN s[i] ELSE r[i - m]
    <3>1. Len(s) + Len(r) = m + n + 1
      BY <1>1
    <3>2. /\ s \o r \in Seq(T) /\ Len(s \o r) = Len(s) + Len(r)
          /\ \A i \in 1 .. Len(s) + Len(r) : (s \o r)[i] = IF i <= Len(s) THEN s[i] ELSE r[i - Len(s)]
      BY ConcatProperties
    <3> QED
      BY <1>1, <3>1, <3>2
  <2>3. /\ DOMAIN (s \o q) = 1 .. m + n
        /\ \A i \in 1 .. m + n : (s \o q)[i] = IF i <= m THEN s[i] ELSE q[i - m]
    BY <1>1, <2>1, ConcatProperties
  <2>4. ASSUME NEW i \in m + 1 .. m + n PROVE (s \o q)[i] = (s \o r)[i + 1]
    <3>1. i - m \in 1 .. n /\ (i - m) + 1 = (i + 1) - m /\ i + 1 \in 1 .. m + n + 1 /\ ~(i <= m)
          /\ ~(i + 1 <= m) /\ i \in 1 .. m + n
      BY <1>1, <2>4
    <3>2. (s \o q)[i] = q[i - m] /\ (s \o r)[i + 1] = r[(i + 1) - m]
      BY <2>2, <2>3, <3>1
    <3>3. q[i - m] = r[(i - m) + 1]
      BY <2>1, <3>1
    <3> QED
      BY <3>1, <3>2, <3>3
  <2>5. ASSUME NEW i \in 1 .. m PROVE (s \o r)[i] = s[i] /\ (s \o q)[i] = s[i]
    <3>1. i \in 1 .. m + n + 1 /\ i \in 1 .. m + n /\ i <= m
      OBVIOUS
    <3> QED
      BY <2>2, <2>3, <3>1
  <2>6. q = Tail(r) /\ DOMAIN (s \o r) = 1 .. m + n + 1 /\ DOMAIN (s \o q) = 1 .. m + n
    BY <2>1, <2>2, <2>3
  <2> QED
    BY <2>4, <2>5, <2>6
<1>3. PICK place \in [1 .. m + n + 1 -> S] :
        /\ \A i, j \in 1 .. m + n + 1 : i < j => place[i] < place[j]
        /\ \A i \in 1 .. m + n + 1 : (s \o r)[i] = t[place[i]]
  BY <1>2 DEF PickedFrom
<1>4. PICK next : next = [i \in 1 .. m + n |-> IF i <= m THEN place[i] ELSE place[i + 1]]
  OBVIOUS
<1>5. next \in [1 .. m + n -> S]
  BY <1>3, <1>4
<1>6. ASSUME NEW i \in 1 .. m + n, NEW j \in 1 .. m + n, i < j PROVE next[i] < next[j]
  BY <1>3, <1>4, <1>6
<1>7. ASSUME NEW i \in 1 .. m + n PROVE (s \o Tail(r))[i] = t[next[i]]
  BY <1>2, <1>3, <1>4, <1>7
<1> QED
  BY <1>2, <1>5, <1>6, <1>7 DEF PickedFrom

\* Where as many are picked as may be there, there are no more.
LEMMA PickAll ==
    ASSUME NEW T, NEW s \in Seq(T), NEW t, NEW F, F \subseteq Nat, IsFiniteSet(F), NEW S \in SUBSET F,
           PickedFrom(s, t, S), Cardinality(F) <= Len(s)
    PROVE  S = F
<1>1. PICK place \in [DOMAIN s -> S] : \A i, j \in DOMAIN s : i < j => place[i] < place[j]
  BY DEF PickedFrom
<1>2. PICK n \in Nat : n = Len(s) /\ DOMAIN s = 1 .. n
  BY LenProperties
<1>3. IsFiniteSet(S) /\ Cardinality(S) \in Nat /\ Cardinality(F) \in Nat
  BY FS_Subset, FS_CardinalityType
<1>4. place \in Injection(1 .. n, S)
  <2>1. ASSUME NEW i \in 1 .. n, NEW j \in 1 .. n, place[i] = place[j] PROVE i = j
    <3>1. place[i] \in Nat /\ place[j] \in Nat
      BY <1>1, <1>2
    <3>2. ~(i < j) /\ ~(j < i)
      BY <1>1, <1>2, <2>1, <3>1
    <3> QED
      BY <3>2
  <2> QED
    BY <1>1, <1>2, <2>1 DEF Injection, IsInjective
<1>5. Cardinality(1 .. n) <= Cardinality(S) /\ Cardinality(1 .. n) = n
  <2>1. IsFiniteSet(1 .. n) /\ Cardinality(1 .. n) = n
    BY FS_Interval
  <2> QED
    BY <1>3, <1>4, <2>1, FS_Injection
<1>6. Cardinality(S) <= Cardinality(F) /\ (Cardinality(S) = Cardinality(F) => S = F)
  BY FS_Subset
<1> QED
  BY <1>2, <1>3, <1>5, <1>6

-----------------------------------------------------------------------------
(* Sequences: what is left, and their elements.                            *)

\* Of a whole sequence nothing is taken yet; when nothing is left all is.
LEMMA RestAll ==
    ASSUME NEW T, NEW s \in Seq(T)
    PROVE  IsRest(s, s) /\ Taken(s, s) = 0 /\ Taken(<<>>, s) = Len(s) /\ IsRest(<<>>, s)
<1>1. Len(s) \in Nat /\ Len(<<>>) = 0
  BY LenProperties
<1> QED
  BY <1>1 DEF IsRest, Taken

\* The next element is taken.
LEMMA RestTail ==
    ASSUME NEW T, NEW s \in Seq(T), NEW c \in Seq(T), c # <<>>, IsRest(c, s)
    PROVE  /\ Taken(c, s) \in Nat /\ Taken(c, s) + 1 <= Len(s)
           /\ Head(c) = s[Taken(c, s) + 1] /\ Head(c) \in T
           /\ Tail(c) \in Seq(T) /\ IsRest(Tail(c), s) /\ Taken(Tail(c), s) = Taken(c, s) + 1
<1>1. PICK m \in Nat, n \in Nat : m = Len(s) /\ n = Len(c) /\ n # 0
  BY LenProperties, EmptySeq
<1>2. n <= m /\ (\A i \in 1 .. n : c[i] = s[m - n + i]) /\ Taken(c, s) = m - n
  BY <1>1 DEF IsRest, Taken
<1>3. Head(c) = c[1] /\ Head(c) \in T
  <2>1. 1 \in 1 .. Len(c)
    BY <1>1
  <2> QED
    BY <2>1, HeadTailProperties, ElementOfSeq
<1>4. PICK q \in Seq(T) : q = Tail(c) /\ Len(q) = n - 1 /\ \A i \in 1 .. n - 1 : q[i] = c[i + 1]
  <2>1. Tail(c) \in Seq(T) /\ Len(Tail(c)) = Len(c) - 1
        /\ \A i \in 1 .. Len(Tail(c)) : Tail(c)[i] = c[i + 1]
    BY HeadTailProperties
  <2>2. Len(Tail(c)) = n - 1
    BY <1>1, <2>1
  <2> QED
    BY <2>1, <2>2
<1>5. Taken(q, s) = m - n + 1
  BY <1>1, <1>4 DEF Taken
<1>6. ASSUME NEW i \in 1 .. n - 1 PROVE q[i] = s[m - n + 1 + i]
  <2>1. i + 1 \in 1 .. n /\ m - n + (i + 1) = m - n + 1 + i
    BY <1>1
  <2>2. q[i] = c[i + 1] /\ c[i + 1] = s[m - n + (i + 1)]
    BY <1>2, <1>4, <2>1
  <2> QED
    BY <2>1, <2>2
<1>7. IsRest(q, s)
  <2>1. Len(q) <= Len(s)
    BY <1>1, <1>2, <1>4
  <2> QED
    BY <1>4, <1>5, <1>6, <2>1 DEF IsRest
<1>8. c[1] = s[m - n + 1]
  <2>1. 1 \in 1 .. n
    BY <1>1
  <2> QED
    BY <1>2, <2>1
<1>9. m - n \in Nat /\ m - n + 1 <= m
  BY <1>1, <1>2
<1> QED
  BY <1>1, <1>2, <1>3, <1>4, <1>5, <1>7, <1>8, <1>9

\* The elements of a sequence, with one more at its end.
LEMMA RangeAppend ==
    ASSUME NEW T, NEW s \in Seq(T), NEW x \in T
    PROVE  /\ Append(s, x) \in Seq(T) /\ Len(Append(s, x)) = Len(s) + 1
           /\ Range(Append(s, x)) = Range(s) \cup {x}
           /\ IsInjective(s) /\ x \notin Range(s) => IsInjective(Append(s, x))
<1>1. PICK m \in Nat : m = Len(s)
  BY LenProperties
<1>2. PICK a \in Seq(T) : a = Append(s, x)
  BY AppendProperties
<1>3. DOMAIN s = 1 .. m /\ DOMAIN a = 1 .. m + 1
      /\ (\A i \in 1 .. m : a[i] = s[i]) /\ a[m + 1] = x /\ Len(a) = Len(s) + 1
  BY <1>1, <1>2, AppendProperties
<1>4. Range(a) = Range(s) \cup {x}
  <2>1. ASSUME NEW y \in Range(a) PROVE y \in Range(s) \cup {x}
    <3>1. PICK i \in 1 .. m + 1 : y = a[i]
      BY <1>3 DEF Range
    <3>2. CASE i = m + 1
      BY <1>3, <3>1, <3>2
    <3>3. CASE i \in 1 .. m
      BY <1>3, <3>1, <3>3 DEF Range
    <3> QED
      BY <3>2, <3>3
  <2>2. ASSUME NEW y \in Range(s) PROVE y \in Range(a)
    <3>1. PICK i \in 1 .. m : y = s[i]
      BY <1>3 DEF Range
    <3>2. i \in 1 .. m + 1 /\ y = a[i]
      BY <1>3, <3>1
    <3> QED
      BY <1>3, <3>2 DEF Range
  <2>3. x \in Range(a)
    <3>1. m + 1 \in 1 .. m + 1
      OBVIOUS
    <3> QED
      BY <1>3, <3>1 DEF Range
  <2> QED
    BY <2>1, <2>2, <2>3
<1>5. ASSUME IsInjective(s), x \notin Range(s) PROVE IsInjective(a)
  <2>1. ASSUME NEW i \in 1 .. m + 1, NEW j \in 1 .. m + 1, a[i] = a[j] PROVE i = j
    <3>1. CASE i = m + 1 /\ j = m + 1
      BY <3>1
    <3>2. CASE i = m + 1 /\ j \in 1 .. m
      BY <1>3, <1>5, <2>1, <3>2 DEF Range
    <3>3. CASE i \in 1 .. m /\ j = m + 1
      BY <1>3, <1>5, <2>1, <3>3 DEF Range
    <3>4. CASE i \in 1 .. m /\ j \in 1 .. m
      BY <1>3, <1>5, <2>1, <3>4 DEF IsInjective
    <3> QED
      BY <3>1, <3>2, <3>3, <3>4
  <2> QED
    BY <1>3, <2>1 DEF IsInjective
<1> QED
  BY <1>2, <1>3, <1>4, <1>5

\* The elements of a sequence, and those of the rest.
LEMMA RangeTail ==
    ASSUME NEW T, NEW r \in Seq(T), r # <<>>
    PROVE  Range(r) = {Head(r)} \cup Range(Tail(r)) /\ Len(r) = Len(Tail(r)) + 1
           /\ Head(r) \in T /\ Tail(r) \in Seq(T)
<1>1. PICK n \in Nat : n + 1 = Len(r)
  <2>1. Len(r) \in Nat /\ Len(r) # 0
    BY LenProperties, EmptySeq
  <2> QED
    BY <2>1
<1>2. PICK q \in Seq(T) : q = Tail(r) /\ Len(q) = n /\ \A k \in 1 .. n : q[k] = r[k + 1]
  <2>1. Tail(r) \in Seq(T) /\ Len(Tail(r)) = Len(r) - 1
        /\ \A k \in 1 .. Len(Tail(r)) : Tail(r)[k] = r[k + 1]
    BY HeadTailProperties
  <2>2. Len(Tail(r)) = n
    BY <1>1, <2>1
  <2> QED
    BY <2>1, <2>2
<1>3. DOMAIN r = 1 .. n + 1 /\ DOMAIN q = 1 .. n /\ Head(r) = r[1] /\ r[1] \in T
  <2>1. DOMAIN r = 1 .. Len(r) /\ DOMAIN q = 1 .. Len(q)
    BY LenProperties
  <2>2. 1 \in 1 .. Len(r)
    BY <1>1
  <2> QED
    BY <1>1, <1>2, <2>1, <2>2, HeadTailProperties, ElementOfSeq
<1>4. ASSUME NEW y \in Range(r) PROVE y \in {r[1]} \cup Range(q)
  <2>1. PICK i \in 1 .. n + 1 : y = r[i]
    BY <1>3 DEF Range
  <2>2. CASE i = 1
    BY <2>1, <2>2
  <2>3. CASE i # 1
    <3>1. PICK k \in 1 .. n : k + 1 = i
      <4>1. i - 1 \in 1 .. n /\ (i - 1) + 1 = i
        BY <2>3
      <4> QED
        BY <4>1
    <3> QED
      BY <1>2, <1>3, <2>1, <3>1 DEF Range
  <2> QED
    BY <2>2, <2>3
<1>5. ASSUME NEW y \in Range(q) PROVE y \in Range(r)
  <2>1. PICK k \in 1 .. n : y = q[k]
    BY <1>3 DEF Range
  <2>2. k + 1 \in 1 .. n + 1 /\ y = r[k + 1]
    BY <1>2, <2>1
  <2> QED
    BY <1>3, <2>2 DEF Range
<1>6. r[1] \in Range(r)
  <2>1. 1 \in 1 .. n + 1
    OBVIOUS
  <2> QED
    BY <1>3, <2>1 DEF Range
<1>7. Len(r) = Len(q) + 1
  BY <1>1, <1>2
<1> QED
  BY <1>2, <1>3, <1>4, <1>5, <1>6, <1>7

\* The first of the rest is put at the end of what is there.
LEMMA MoveOne ==
    ASSUME NEW T, NEW s \in Seq(T), NEW r \in Seq(T), r # <<>>
    PROVE  Append(s, Head(r)) \o Tail(r) = s \o r
<1>1. PICK m \in Nat, n \in Nat : m = Len(s) /\ n + 1 = Len(r)
  <2>1. Len(s) \in Nat /\ Len(r) \in Nat /\ Len(r) # 0
    BY LenProperties, EmptySeq
  <2> QED
    BY <2>1
<1>2. PICK q \in Seq(T) : q = Tail(r) /\ Len(q) = n /\ \A k \in 1 .. n : q[k] = r[k + 1]
  <2>1. Tail(r) \in Seq(T) /\ Len(Tail(r)) = Len(r) - 1
        /\ \A k \in 1 .. Len(Tail(r)) : Tail(r)[k] = r[k + 1]
    BY HeadTailProperties
  <2>2. Len(Tail(r)) = n
    BY <1>1, <2>1
  <2> QED
    BY <2>1, <2>2
<1>3. Head(r) = r[1] /\ r[1] \in T
  <2>1. 1 \in 1 .. Len(r)
    BY <1>1
  <2> QED
    BY <2>1, HeadTailProperties, ElementOfSeq
<1>4. PICK a \in Seq(T) : a = Append(s, r[1]) /\ Len(a) = m + 1 /\ a[m + 1] = r[1]
                          /\ \A i \in 1 .. m : a[i] = s[i]
  <2>1. /\ Append(s, r[1]) \in Seq(T) /\ Len(Append(s, r[1])) = Len(s) + 1
        /\ (\A i \in 1 .. Len(s) : Append(s, r[1])[i] = s[i])
        /\ Append(s, r[1])[Len(s) + 1] = r[1]
    BY <1>3, AppendProperties
  <2> QED
    BY <1>1, <2>1
<1>5. /\ s \o r \in Seq(T) /\ Len(s \o r) = m + (n + 1)
      /\ \A i \in 1 .. m + (n + 1) : (s \o r)[i] = IF i <= m THEN s[i] ELSE r[i - m]
  <2>1. /\ s \o r \in Seq(T) /\ Len(s \o r) = Len(s) + Len(r)
        /\ \A i \in 1 .. Len(s) + Len(r) : (s \o r)[i] = IF i <= Len(s) THEN s[i] ELSE r[i - Len(s)]
    BY ConcatProperties
  <2> QED
    BY <1>1, <2>1
<1>6. /\ a \o q \in Seq(T) /\ Len(a \o q) = m + 1 + n
      /\ \A i \in 1 .. m + 1 + n : (a \o q)[i] = IF i <= m + 1 THEN a[i] ELSE q[i - (m + 1)]
  <2>1. /\ a \o q \in Seq(T) /\ Len(a \o q) = Len(a) + Len(q)
        /\ \A i \in 1 .. Len(a) + Len(q) : (a \o q)[i] = IF i <= Len(a) THEN a[i] ELSE q[i - Len(a)]
    BY ConcatProperties
  <2> QED
    BY <1>2, <1>4, <2>1
<1>7. ASSUME NEW i \in 1 .. m + 1 + n PROVE (a \o q)[i] = (s \o r)[i]
  <2>1. (s \o r)[i] = (IF i <= m THEN s[i] ELSE r[i - m])
        /\ (a \o q)[i] = (IF i <= m + 1 THEN a[i] ELSE q[i - (m + 1)])
    BY <1>5, <1>6
  <2>2. CASE i \in 1 .. m
    BY <1>4, <2>1, <2>2
  <2>3. CASE i = m + 1
    <3>1. ~(i <= m) /\ i <= m + 1 /\ i - m = 1
      BY <2>3
    <3> QED
      BY <1>4, <2>1, <2>3, <3>1
  <2>4. CASE i \in m + 2 .. m + 1 + n
    <3>1. ~(i <= m) /\ ~(i <= m + 1) /\ i - (m + 1) \in 1 .. n /\ (i - (m + 1)) + 1 = i - m
      BY <2>4
    <3>2. q[i - (m + 1)] = r[(i - (m + 1)) + 1]
      BY <1>2, <3>1
    <3> QED
      BY <2>1, <3>1, <3>2
  <2>5. i \in 1 .. m \/ i = m + 1 \/ i \in m + 2 .. m + 1 + n
    <3>1. i \in Int /\ 1 <= i /\ i <= m + 1 + n
      OBVIOUS
    <3>2. i <= m \/ i = m + 1 \/ m + 2 <= i
      BY <3>1
    <3> QED
      BY <3>1, <3>2
  <2> QED
    BY <2>2, <2>3, <2>4, <2>5
<1>8. a \o q = s \o r
  <2>1. Len(a \o q) = Len(s \o r) /\ Len(a \o q) = m + 1 + n
    BY <1>5, <1>6
  <2> QED
    BY <1>5, <1>6, <1>7, <2>1, SeqEqual
<1> QED
  BY <1>2, <1>3, <1>4, <1>8

-----------------------------------------------------------------------------
(* What was found among the first asked for.                               *)

LEMMA UpToLimits ==
    ASSUME NEW m \in Nat, NEW S \in SUBSET (1 .. m)
    PROVE  UpTo(0, S) = {} /\ UpTo(m, S) = S
<1>1. ASSUME NEW k \in S PROVE ~(k <= 0) /\ k <= m
  <2>1. k \in 1 .. m
    OBVIOUS
  <2> QED
    BY <2>1
<1> QED
  BY <1>1 DEF UpTo

LEMMA UpToNext ==
    ASSUME NEW S \in SUBSET Nat, 0 \notin S, NEW n \in Nat
    PROVE  /\ UpTo(n, S) \in SUBSET (1 .. n) /\ UpTo(n, S) \subseteq S
           /\ n + 1 \in S => UpTo(n + 1, S) = UpTo(n, S) \cup {n + 1}
           /\ n + 1 \notin S => UpTo(n + 1, S) = UpTo(n, S)
<1>1. ASSUME NEW k \in S PROVE k \in Int /\ k >= 1 /\ (k <= n + 1 <=> (k <= n \/ k = n + 1))
  <2>1. k \in Nat /\ k # 0
    OBVIOUS
  <2> QED
    BY <2>1
<1>2. UpTo(n, S) \in SUBSET (1 .. n) /\ UpTo(n, S) \subseteq S
  <2>1. ASSUME NEW k \in S, k <= n PROVE k \in 1 .. n
    BY <1>1, <2>1
  <2> QED
    BY <2>1 DEF UpTo
<1>3. n + 1 <= n + 1
  OBVIOUS
<1> QED
  BY <1>1, <1>2, <1>3 DEF UpTo

LEMMA UnitsNext ==
    ASSUME NEW t, NEW S, NEW k
    PROVE  UnitsAt(t, S \cup {k}) = UnitsAt(t, S) \cup {t[k]} /\ UnitsAt(t, {}) = {}
  BY DEF UnitsAt

\* The next unit asked for was found: it is one more.
LEMMA GatherOne ==
    ASSUME NEW t, NEW F \in SUBSET Nat, 0 \notin F, NEW n \in Nat, NEW k \in F, k = n + 1,
           NEW s \in Seq(Range(Listed)), NEW x \in Range(Listed), t[k] = x,
           PickedFrom(s, t, UpTo(n, F))
    PROVE  PickedFrom(Append(s, x), t, UpTo(k, F))
<1>1. UpTo(n, F) \in SUBSET (1 .. n) /\ UpTo(n + 1, F) = UpTo(n, F) \cup {n + 1}
  BY UpToNext
<1>2. PickedFrom(Append(s, x), t, UpTo(n, F) \cup {n + 1})
  BY <1>1, PickOne
<1> QED
  BY <1>1, <1>2

\* It was not: the sequence is the same, and has all that is there if the unit is not, or is
\* in the sequence already.
LEMMA GatherNone ==
    ASSUME NEW t, NEW F \in SUBSET Nat, 0 \notin F, NEW n \in Nat,
           NEW s, PickedFrom(s, t, UpTo(n, F))
    PROVE  /\ PickedFrom(s, t, UpTo(n + 1, F))
           /\ (n + 1 \in F => t[n + 1] \in Range(s)) /\ Range(s) = UnitsAt(t, UpTo(n, F))
                => Range(s) = UnitsAt(t, UpTo(n + 1, F))
<1>1. /\ n + 1 \in F => UpTo(n + 1, F) = UpTo(n, F) \cup {n + 1}
      /\ n + 1 \notin F => UpTo(n + 1, F) = UpTo(n, F)
  BY UpToNext
<1>2. PickedFrom(s, t, UpTo(n + 1, F))
  <2>1. UpTo(n, F) \subseteq UpTo(n + 1, F)
    BY <1>1
  <2> QED
    BY <2>1, PickWider
<1>3. UnitsAt(t, UpTo(n, F) \cup {n + 1}) = UnitsAt(t, UpTo(n, F)) \cup {t[n + 1]}
  BY UnitsNext
<1> QED
  BY <1>1, <1>2, <1>3

\* The search ends, because all asked for was looked for, or because the table is full: then
\* there are no more than it holds only if all of them are in it.
LEMMA GatherAll ==
    ASSUME NEW t, NEW m \in Nat, NEW F \in SUBSET (1 .. m), NEW n \in Nat,
           NEW s \in Seq(Range(Listed)), PickedFrom(s, t, UpTo(n, F)), n = m \/ Len(s) >= MAX_DEVICES
    PROVE  /\ PickedFrom(s, t, F)
           /\ Range(s) = UnitsAt(t, UpTo(n, F)) /\ Cardinality(F) <= MAX_DEVICES
                => Range(s) = UnitsAt(t, F)
<1>1. UpTo(n, F) \subseteq F /\ UpTo(m, F) = F
  BY UpToLimits DEF UpTo
<1>2. PickedFrom(s, t, F)
  BY <1>1, PickWider
<1>3. ASSUME Cardinality(F) <= MAX_DEVICES PROVE UpTo(n, F) = F
  <2>1. CASE n = m
    BY <1>1, <2>1
  <2>2. CASE Len(s) >= MAX_DEVICES
    <3>1. IsFiniteSet(F) /\ Cardinality(F) \in Nat /\ F \subseteq Nat
      <4>1. IsFiniteSet(1 .. m) /\ F \subseteq 1 .. m
        BY FS_Interval
      <4>2. IsFiniteSet(F)
        BY <4>1, FS_Subset
      <4>3. Cardinality(F) \in Nat
        BY <4>2, FS_CardinalityType
      <4> QED
        BY <4>1, <4>2, <4>3
    <3>2. Cardinality(F) <= Len(s)
      <4>1. Len(s) \in Nat
        BY LenProperties
      <4> QED
        BY <1>3, <2>2, <3>1, <4>1, MaxAssumption
    <3> QED
      BY <1>1, <3>1, <3>2, PickAll
  <2> QED
    BY <2>1, <2>2
<1> QED
  BY <1>2, <1>3

\* What is asked for is a list of so many places, of which those found are some.
LEMMA AskedPlaces ==
    ASSUME ident \in Identifiers
    PROVE  \E m \in Nat : m = Len(Asked) /\ Found \in SUBSET (1 .. m)
                          /\ Found \in SUBSET Nat /\ 0 \notin Found
                          /\ \A k \in 1 .. m : k \in Found <=> OnBus(Asked[k])
<1>1. PICK m \in Nat : m = Len(Asked) /\ DOMAIN Asked = 1 .. m /\ Found \subseteq 1 .. m
  BY AskedList
<1>2. Found \in SUBSET Nat /\ 0 \notin Found
  BY <1>1
<1> QED
  BY <1>1, <1>2 DEF Found

-----------------------------------------------------------------------------
(* main() before the command.                                              *)

LEMMA SelectInit == ASSUME Init PROVE SelectInv
<1>1. cur \in Seq(Range(Listed)) /\ todo \in Seq(Units) /\ handle \in Seq(Range(Listed))
      /\ path_list \in Seq(Range(Listed)) /\ Len(handle) + Len(path_list) <= MAX_DEVICES
  <2>1. <<>> \in Seq(Units) /\ <<>> \in Seq(Range(Listed)) /\ Len(<<>>) = 0
    OBVIOUS
  <2> QED
    BY <2>1, MaxAssumption DEF Init
<1>2. IsInjective(handle) /\ Range(handle) = {}
  <2>1. DOMAIN <<>> = {}
    OBVIOUS
  <2> QED
    BY <2>1 DEF Init, IsInjective, Range
<1>3. main = "start" /\ \A t \in Threads : pc[t] = "none"
  BY DEF Init
<1> QED
  BY <1>1, <1>2, <1>3 DEF Init, SelectInv, SelectTypes, RightUnits

\* The version is printed, or the search begins.
LEMMA StartStep == ASSUME SelectInv, Start PROVE SelectInv'
<1>1. /\ main = "start" /\ handle = <<>> /\ path_list = <<>> /\ opened = Range(handle)
      /\ handle' = handle /\ path_list' = path_list /\ opened' = opened
      /\ ident' = ident /\ pc' = pc /\ SelectTypes /\ IsInjective(handle)
      /\ \A t \in Threads : pc[t] = "none"
  BY DEF SelectInv, Selecting, Start, args, threadVars
<1>2. CASE ident.kind = "version"
  <2>1. main' = "exit" /\ cur' = cur /\ todo' = todo
    BY <1>2 DEF Start, Exit
  <2> QED
    BY <1>1, <2>1 DEF SelectInv, SelectTypes, RightUnits, Selecting
<1>3. CASE ident.kind # "version"
  <2>1. main' = "search" /\ cur' = Listed /\ todo' = ident.serials
    BY <1>3 DEF Start, Listed
  <2>2. ident.serials \in Seq(Units) /\ ident.kind \in {"none", "all", "one", "list"}
        /\ (ident.kind = "one" => Len(ident.serials) = 1)
    BY <1>1, <1>3, IdentAssumption DEF SelectTypes
  <2>3. IsRest(Listed, Listed) /\ Taken(Listed, Listed) = 0
        /\ IsRest(ident.serials, ident.serials) /\ Taken(ident.serials, ident.serials) = 0
    BY <2>2, ListedList, RestAll
  <2>4. PICK m \in Nat : m = Len(Asked) /\ Found \in SUBSET (1 .. m)
    BY <1>1, AskedPlaces DEF SelectTypes
  <2>5. UpTo(0, Found) = {} /\ UnitsAt(Asked, {}) = {} /\ PickedFrom(<<>>, Asked, {})
        /\ Range(<<>>) = {}
    <3>1. UpTo(0, Found) = {}
      BY <2>4, UpToLimits
    <3>2. UnitsAt(Asked, {}) = {}
      BY DEF UnitsAt
    <3>3. PickedFrom(<<>>, Asked, {})
      BY PickNone
    <3>4. Range(<<>>) = {}
      BY DEF Range
    <3> QED
      BY <3>1, <3>2, <3>3, <3>4
  <2>6. Asked' = Asked /\ Found' = Found
    BY <1>1 DEF Asked, Found
  <2>7. Searched'
    <3>1. \A u : NotYet(u)'
      BY <2>1, <2>3 DEF NotYet
    <3>2. CASE ident.kind \in {"none", "all"}
      BY <1>1, <2>1, <2>3, <2>5, <2>6, <3>2 DEF Searched, SearchAll, Gathered
    <3>3. CASE ident.kind = "one"
      BY <1>1, <2>1, <2>3, <3>1, <3>3 DEF Searched, SearchOne
    <3>4. CASE ident.kind = "list"
      BY <1>1, <2>1, <2>3, <2>5, <2>6, <3>1, <3>4 DEF Searched, SearchList, Gathered
    <3> QED
      BY <2>2, <3>2, <3>3, <3>4
  <2>8. SelectTypes'
    BY <1>1, <2>1, <2>2, ListedList DEF SelectTypes
  <2> QED
    BY <1>1, <2>1, <2>7, <2>8 DEF SelectInv, RightUnits, Selecting
<1> QED
  BY <1>2, <1>3

\* "all": the next unit of the bus, or the end of the search.
LEMMA OpenAllStep == ASSUME SelectInv, OpenAll PROVE SelectInv'
<1>1. /\ main = "search" /\ ident.kind \in {"none", "all"} /\ opened = Range(handle)
      /\ path_list = <<>> /\ path_list' = path_list /\ ident' = ident /\ todo' = todo /\ pc' = pc
      /\ SelectTypes /\ IsInjective(handle) /\ \A t \in Threads : pc[t] = "none"
  BY DEF SelectInv, Selecting, Searched, SearchAll, OpenAll, Searching, args, threadVars
<1>2. IsRest(cur, Listed) /\ PickedFrom(handle, Asked, UpTo(Taken(cur, Listed), Found))
      /\ (Never("open_fail") => Range(handle) = UnitsAt(Asked, UpTo(Taken(cur, Listed), Found)))
  BY <1>1 DEF SelectInv, Searched, SearchAll, Gathered
<1>3. Asked = Listed /\ Asked' = Asked /\ Found' = Found
  BY <1>1 DEF Asked, Found
<1>4. PICK h \in Seq(Range(Listed)), c \in Seq(Range(Listed)) : h = handle /\ c = cur
  BY <1>1 DEF SelectTypes
<1>5. PICK m \in Nat : m = Len(Listed) /\ Found \in SUBSET (1 .. m)
                       /\ Found \in SUBSET Nat /\ 0 \notin Found
                       /\ \A k \in 1 .. m : k \in Found <=> OnBus(Listed[k])
  BY <1>1, <1>3, AskedPlaces DEF SelectTypes
<1>6. CASE cur # <<>> /\ Len(handle) < MAX_DEVICES
  <2>1. PICK n \in Nat, x \in Range(Listed), q \in Seq(Range(Listed)) :
          /\ n = Taken(cur, Listed) /\ x = Head(cur) /\ q = Tail(cur)
          /\ n + 1 <= m /\ x = Listed[n + 1] /\ IsRest(q, Listed) /\ Taken(q, Listed) = n + 1
    BY <1>2, <1>4, <1>5, <1>6, ListedList, RestTail
  <2>2. n + 1 \in Found
    <3>1. n + 1 \in 1 .. m
      BY <2>1
    <3> QED
      BY <1>5, <2>1, <3>1 DEF OnBus
  <2>3. cur' = q /\ main' = main
    BY <1>6, <2>1 DEF OpenAll, Take1
  <2>4. CASE Opens(Head(cur)) /\ handle' = Append(handle, Head(cur))
             /\ opened' = opened \cup {Head(cur)}
    <3>1. PICK a \in Seq(Range(Listed)) : a = Append(h, x) /\ handle' = a
      BY <1>4, <2>1, <2>4, RangeAppend
    <3>2. x \notin Range(h) /\ opened' = Range(h) \cup {x} /\ happened' = happened
      BY <1>1, <1>4, <2>1, <2>4 DEF Opens
    <3>3. Len(a) = Len(h) + 1 /\ Range(a) = Range(h) \cup {x} /\ IsInjective(a)
      BY <1>1, <1>4, <3>1, <3>2, RangeAppend
    <3>4. /\ PickedFrom(a, Asked, UpTo(n + 1, Found))
          /\ Range(h) = UnitsAt(Asked, UpTo(n, Found)) => Range(a) = UnitsAt(Asked, UpTo(n + 1, Found))
      <4>1. PickedFrom(h, Asked, UpTo(n, Found)) /\ Asked[n + 1] = x
        BY <1>2, <1>3, <1>4, <2>1
      <4>2. PICK t, F : t = Asked /\ F = Found /\ F \in SUBSET Nat /\ 0 \notin F
        BY <1>5
      <4>3. PICK k \in F : k = n + 1 /\ t[k] = x
        BY <2>2, <4>1, <4>2
      <4>4. PickedFrom(h, t, UpTo(n, F))
        BY <4>1, <4>2
      <4>5. PickedFrom(Append(h, x), t, UpTo(k, F))
        BY <4>2, <4>3, <4>4, GatherOne
      <4>6. UnitsAt(t, UpTo(k, F)) = UnitsAt(t, UpTo(n, F)) \cup {x}
        <5>1. UpTo(n + 1, F) = UpTo(n, F) \cup {n + 1}
          BY <4>2, <4>3, UpToNext
        <5> QED
          BY <4>3, <5>1 DEF UnitsAt
      <4> QED
        BY <3>1, <3>3, <4>2, <4>3, <4>5, <4>6
    <3>5. Searched'
      BY <1>1, <1>2, <1>3, <1>4, <2>1, <2>3, <3>1, <3>2, <3>4 DEF Searched, SearchAll, Gathered, Never
    <3>6. SelectTypes'
      <4>1. Len(a) + Len(path_list) <= MAX_DEVICES
        BY <1>1, <1>4, <1>6, <3>3, MaxAssumption, LenProperties
      <4> QED
        BY <1>1, <2>3, <3>1, <4>1 DEF SelectTypes
    <3> QED
      BY <1>1, <2>3, <3>1, <3>2, <3>3, <3>5, <3>6 DEF SelectInv, RightUnits, Selecting
  <2>5. CASE OpenFails(Head(cur)) /\ handle' = handle /\ opened' = opened
    <3>1. Never("open_fail")' => Never("open_fail") /\ x \in Range(h)
      BY <1>1, <1>4, <2>1, <2>5 DEF OpenFails, Happens, Never
    <3>2. /\ PickedFrom(h, Asked, UpTo(n + 1, Found))
          /\ (n + 1 \in Found => Asked[n + 1] \in Range(h)) /\ Range(h) = UnitsAt(Asked, UpTo(n, Found))
               => Range(h) = UnitsAt(Asked, UpTo(n + 1, Found))
      BY <1>2, <1>4, <1>5, <2>1, GatherNone
    <3>3. Searched'
      BY <1>1, <1>2, <1>3, <1>4, <2>1, <2>3, <2>5, <3>1, <3>2 DEF Searched, SearchAll, Gathered
    <3>4. SelectTypes'
      BY <1>1, <2>3, <2>5 DEF SelectTypes
    <3> QED
      BY <1>1, <2>3, <2>5, <3>3, <3>4 DEF SelectInv, RightUnits, Selecting
  <2> QED
    BY <1>6, <2>4, <2>5 DEF OpenAll
<1>7. CASE ~(cur # <<>> /\ Len(handle) < MAX_DEVICES)
  <2>1. main' = "launch" /\ cur' = cur /\ handle' = handle /\ opened' = opened /\ happened' = happened
    BY <1>7 DEF OpenAll
  <2>2. PICK n \in Nat : n = Taken(cur, Listed)
    <3>1. Len(c) \in Nat /\ Len(c) <= m /\ Taken(c, Listed) = m - Len(c)
      BY <1>2, <1>4, <1>5, LenProperties DEF IsRest, Taken
    <3>2. m - Len(c) \in Nat
      BY <3>1
    <3> QED
      BY <1>4, <3>1, <3>2
  <2>3. n = m \/ Len(h) >= MAX_DEVICES
    <3>1. CASE cur = <<>>
      BY <1>5, <2>2, <3>1, ListedList, RestAll
    <3>2. CASE ~(Len(h) < MAX_DEVICES)
      BY <3>2, MaxAssumption, LenProperties
    <3> QED
      BY <1>4, <1>7, <3>1, <3>2
  <2>4. /\ PickedFrom(h, Asked, Found)
        /\ Range(h) = UnitsAt(Asked, UpTo(n, Found)) /\ Cardinality(Found) <= MAX_DEVICES
             => Range(h) = UnitsAt(Asked, Found)
    <3>1. PickedFrom(h, Asked, UpTo(n, Found))
      BY <1>2, <1>4, <2>2
    <3>2. PICK t, F : t = Asked /\ F = Found /\ F \in SUBSET (1 .. m)
      BY <1>5
    <3> QED
      BY <2>3, <3>1, <3>2, GatherAll
  <2>5. RightUnits'
    BY <1>1, <1>2, <1>3, <1>4, <2>1, <2>2, <2>4 DEF RightUnits, Never, UnitsAt
  <2>6. SelectTypes'
    BY <1>1, <2>1 DEF SelectTypes
  <2> QED
    BY <1>1, <2>1, <2>5, <2>6 DEF SelectInv, Selecting
<1> QED
  BY <1>6, <1>7

\* One serial number: the next unit of the bus.
LEMMA OpenOneStep == ASSUME SelectInv, OpenOne PROVE SelectInv'
<1>1. /\ main = "search" /\ ident.kind = "one" /\ opened = Range(handle) /\ handle = <<>>
      /\ path_list' = path_list /\ ident' = ident /\ todo' = todo /\ pc' = pc /\ main' = main
      /\ cur # <<>> /\ cur' = Tail(cur)
      /\ SelectTypes /\ IsInjective(handle) /\ \A t \in Threads : pc[t] = "none"
  BY DEF SelectInv, Selecting, OpenOne, Searching, Take1, args, threadVars
<1>2. IsRest(cur, Listed) /\ path_list = <<>> /\ todo = ident.serials
  BY <1>1 DEF SelectInv, Searched, SearchOne
<1>3. NotYet(Head(todo)) \/ (handle = <<Head(todo)>> /\ OnBus(Head(todo)))
  BY <1>1 DEF SelectInv, Searched, SearchOne
<1>4. handle # <<Head(todo)>> /\ Range(handle) = {}
  BY <1>1 DEF Range
<1>5. PICK c \in Seq(Range(Listed)) : c = cur
  BY <1>1 DEF SelectTypes
<1>6. PICK n \in Nat, x \in Range(Listed), q \in Seq(Range(Listed)) :
        /\ n = Taken(cur, Listed) /\ x = Head(cur) /\ q = Tail(cur)
        /\ x = Listed[n + 1] /\ IsRest(q, Listed) /\ Taken(q, Listed) = n + 1
  <2>1. IsRest(c, Listed) /\ c # <<>>
    BY <1>1, <1>2, <1>5
  <2>2. /\ Taken(c, Listed) \in Nat /\ Head(c) = Listed[Taken(c, Listed) + 1]
        /\ Head(c) \in Range(Listed) /\ Tail(c) \in Seq(Range(Listed)) /\ IsRest(Tail(c), Listed)
        /\ Taken(Tail(c), Listed) = Taken(c, Listed) + 1
    BY <2>1, ListedList, RestTail
  <2> QED
    BY <1>5, <2>2
<1>7. CASE Opens(Head(cur)) /\ Head(cur) = Head(todo) /\ handle' = <<Head(cur)>>
           /\ opened' = {Head(cur)}
  <2>1. OnBus(x) /\ <<x>> \in Seq(Range(Listed)) /\ Len(<<x>>) = 1 /\ Range(<<x>>) = {x}
        /\ IsInjective(<<x>>)
    <3>1. DOMAIN <<x>> = {1} /\ <<x>>[1] = x
      OBVIOUS
    <3> QED
      BY <3>1 DEF OnBus, Range, IsInjective
  <2>2. Searched'
    BY <1>1, <1>2, <1>6, <1>7, <2>1 DEF Searched, SearchOne, OnBus
  <2>3. SelectTypes'
    <3>1. Len(<<x>>) + Len(path_list) <= MAX_DEVICES
      BY <1>2, <2>1, MaxAssumption
    <3> QED
      BY <1>1, <1>6, <1>7, <2>1, <3>1 DEF SelectTypes
  <2> QED
    BY <1>1, <1>6, <1>7, <2>1, <2>2, <2>3 DEF SelectInv, RightUnits, Selecting
<1>8. CASE /\ handle' = handle /\ opened' = opened
           /\ (Opens(Head(cur)) /\ Head(cur) # Head(todo)) \/ OpenFails(Head(cur))
  <2>1. NotYet(Head(todo))'
    <3>1. ASSUME Never("open_fail")' PROVE Never("open_fail") /\ x # Head(todo)
      BY <1>1, <1>4, <1>6, <1>8, <3>1 DEF Never, Opens, OpenFails, Happens
    <3>2. ASSUME Never("open_fail")', NEW k \in 1 .. n + 1 PROVE Listed[k] # Head(todo)
      <4>1. CASE k = n + 1
        BY <1>6, <3>1, <3>2, <4>1
      <4>2. CASE k \in 1 .. n
        BY <1>3, <1>4, <1>6, <3>1, <3>2, <4>2 DEF NotYet
      <4> QED
        BY <4>1, <4>2
    <3> QED
      BY <1>1, <1>6, <3>2 DEF NotYet
  <2>2. Searched'
    BY <1>1, <1>2, <1>6, <1>8, <2>1 DEF Searched, SearchOne
  <2>3. SelectTypes'
    BY <1>1, <1>6, <1>8 DEF SelectTypes
  <2> QED
    BY <1>1, <1>8, <2>2, <2>3 DEF SelectInv, RightUnits, Selecting
<1> QED
  BY <1>7, <1>8 DEF OpenOne

\* The search for one unit ends.
LEMMA OneFoundStep == ASSUME SelectInv, OneFound PROVE SelectInv'
<1>1. /\ main = "search" /\ ident.kind = "one" /\ ident' = ident /\ pc' = pc
      /\ cur' = cur /\ todo' = todo /\ handle' = handle /\ path_list' = path_list
      /\ opened' = opened /\ happened' = happened
      /\ SelectTypes /\ IsInjective(handle) /\ \A t \in Threads : pc[t] = "none"
  BY DEF SelectInv, Selecting, OneFound, Searching, args, threadVars
<1>2. /\ path_list = <<>> /\ todo = ident.serials
      /\ handle # <<>> => handle = <<Head(todo)>> /\ OnBus(Head(todo))
      /\ (handle = <<>> => NotYet(Head(todo)))
  BY <1>1 DEF SelectInv, Searched, SearchOne
<1>3. SelectTypes'
  BY <1>1 DEF SelectTypes
<1>4. CASE handle = <<>>
  BY <1>1, <1>3, <1>4 DEF SelectInv, RightUnits, OneFound, Exit, Selecting
<1>5. CASE handle # <<>>
  <2>1. main' = "launch"
    BY <1>5 DEF OneFound
  <2>2. PICK x : x = Head(todo) /\ handle = <<x>> /\ OnBus(x)
    BY <1>2, <1>5
  <2>3. Asked = ident.serials /\ Asked' = Asked /\ Found' = Found
    BY <1>1 DEF Asked, Found
  <2>4. DOMAIN Asked = {1} /\ Asked[1] = x
    <3>1. ident.serials \in Seq(Units) /\ Len(ident.serials) = 1
      BY <1>1, IdentAssumption DEF SelectTypes
    <3> QED
      BY <1>2, <2>2, <2>3, <3>1
  <2>5. Found = {1}
    BY <2>2, <2>4 DEF Found
  <2>6. PickedFrom(<<x>>, Asked, {1})
    <3>1. PICK place : place = [i \in {1} |-> 1]
      OBVIOUS
    <3>2. DOMAIN <<x>> = {1} /\ <<x>>[1] = x /\ place \in [{1} -> {1}] /\ place[1] = 1
      BY <3>1
    <3> QED
      BY <2>4, <3>2 DEF PickedFrom
  <2>7. Range(<<x>>) = {Asked[k] : k \in {1}}
    <3>1. DOMAIN <<x>> = {1} /\ <<x>>[1] = x
      OBVIOUS
    <3> QED
      BY <2>4, <3>1 DEF Range
  <2>8. RightUnits'
    BY <1>1, <2>2, <2>3, <2>5, <2>6, <2>7 DEF RightUnits
  <2> QED
    BY <1>1, <1>3, <2>1, <2>8 DEF SelectInv, Selecting
<1> QED
  BY <1>4, <1>5

\* A list of serial numbers: where the search is.
LEMMA ListPlace ==
    ASSUME SelectInv, main = "search", ident.kind = "list"
    PROVE  /\ handle = <<>> /\ opened = {} /\ Asked = ident.serials /\ ident.serials \in Seq(Units)
           /\ IsRest(cur, Listed) /\ IsRest(todo, ident.serials)
           /\ todo # <<>> => NotYet(Head(todo))
           /\ Found \in SUBSET Nat /\ 0 \notin Found
           /\ Found \in SUBSET (1 .. Len(Asked))
           /\ PickedFrom(path_list, Asked, UpTo(Taken(todo, ident.serials), Found))
           /\ Never("open_fail") =>
                 Range(path_list) = UnitsAt(Asked, UpTo(Taken(todo, ident.serials), Found))
<1>1. ident \in Identifiers /\ opened = Range(handle)
  BY DEF SelectInv, SelectTypes
<1>2. Searched /\ SearchList
  BY DEF SelectInv, Searched
<1>3. handle = <<>> /\ opened = {}
  BY <1>1, <1>2 DEF SearchList, Range
<1>4. Asked = ident.serials /\ ident.serials \in Seq(Units)
  BY <1>1, IdentAssumption DEF Asked
<1> QED
  BY <1>1, <1>2, <1>3, <1>4, AskedPlaces DEF Searched, SearchList, Gathered

\* The next serial number.
LEMMA ListNext ==
    ASSUME SelectInv, main = "search", ident.kind = "list", todo # <<>>
    PROVE  \E n \in Nat :
              /\ n = Taken(todo, ident.serials) /\ n + 1 \in 1 .. Len(Asked)
              /\ Asked[n + 1] = Head(todo) /\ (n + 1 \in Found <=> OnBus(Asked[n + 1]))
              /\ Tail(todo) \in Seq(Units) /\ IsRest(Tail(todo), ident.serials)
              /\ Taken(Tail(todo), ident.serials) = n + 1
<1>1. PICK s \in Seq(Units), r \in Seq(Units) : s = ident.serials /\ r = todo
  BY ListPlace DEF SelectInv, SelectTypes
<1>2. IsRest(r, s) /\ r # <<>> /\ Asked = s
  BY <1>1, ListPlace
<1>3. /\ Taken(r, s) \in Nat /\ Taken(r, s) + 1 <= Len(s)
      /\ Head(r) = s[Taken(r, s) + 1]
      /\ Tail(r) \in Seq(Units) /\ IsRest(Tail(r), s) /\ Taken(Tail(r), s) = Taken(r, s) + 1
  BY <1>2, RestTail
<1>4. Taken(r, s) + 1 \in 1 .. Len(s)
  BY <1>3, LenProperties
<1>5. \A k \in 1 .. Len(s) : k \in Found <=> OnBus(s[k])
  BY <1>2, LenProperties DEF Found
<1> QED
  BY <1>1, <1>2, <1>3, <1>4, <1>5

\* The next unit of the bus is looked at.
LEMMA LookUpStep == ASSUME SelectInv, LookUp PROVE SelectInv'
<1>1. /\ main = "search" /\ ident.kind = "list" /\ ident' = ident /\ pc' = pc /\ main' = main
      /\ handle' = handle /\ opened' = opened /\ cur # <<>> /\ todo # <<>>
      /\ Len(path_list) < MAX_DEVICES
      /\ SelectTypes /\ IsInjective(handle) /\ \A t \in Threads : pc[t] = "none"
  BY DEF SelectInv, Selecting, LookUp, Searching, args, threadVars
<1>2. handle = <<>> /\ opened = {} /\ IsRest(cur, Listed) /\ IsRest(todo, ident.serials)
      /\ NotYet(Head(todo))
  BY <1>1, ListPlace
<1>3. PICK c \in Seq(Range(Listed)), p \in Seq(Range(Listed)) : c = cur /\ p = path_list
  BY <1>1 DEF SelectTypes
<1>4. PICK n \in Nat, x \in Range(Listed), q \in Seq(Range(Listed)) :
        /\ n = Taken(cur, Listed) /\ x = Head(cur) /\ q = Tail(cur)
        /\ x = Listed[n + 1] /\ IsRest(q, Listed) /\ Taken(q, Listed) = n + 1
  <2>1. IsRest(c, Listed) /\ c # <<>>
    BY <1>1, <1>2, <1>3
  <2>2. /\ Taken(c, Listed) \in Nat /\ Head(c) = Listed[Taken(c, Listed) + 1]
        /\ Head(c) \in Range(Listed) /\ Tail(c) \in Seq(Range(Listed)) /\ IsRest(Tail(c), Listed)
        /\ Taken(Tail(c), Listed) = Taken(c, Listed) + 1
    BY <2>1, ListedList, RestTail
  <2> QED
    BY <1>3, <2>2
<1>5. CASE /\ Opens(Head(cur)) /\ Head(cur) = Head(todo)
           /\ path_list' = Append(path_list, Head(cur)) /\ cur' = hid_enumerate /\ todo' = Tail(todo)
  <2>1. PICK k \in Nat, F \in SUBSET Nat, r \in Seq(Units), t \in {Asked} :
          /\ k = Taken(todo, ident.serials) /\ r = Tail(todo) /\ F = Found
          /\ k + 1 \in F /\ t[k + 1] = x /\ 0 \notin F
          /\ IsRest(r, ident.serials) /\ Taken(r, ident.serials) = k + 1
    BY <1>1, <1>4, <1>5, ListNext, ListPlace DEF OnBus
  <2>2. PickedFrom(p, t, UpTo(k, F)) /\ (Never("open_fail") => Range(p) = UnitsAt(t, UpTo(k, F)))
    BY <1>1, <1>3, <2>1, ListPlace
  <2>3. PickedFrom(Append(p, x), t, UpTo(k + 1, F))
        /\ UnitsAt(t, UpTo(k + 1, F)) = UnitsAt(t, UpTo(k, F)) \cup {x}
    <3>1. PICK j \in F : j = k + 1 /\ t[j] = x
      BY <2>1
    <3>2. 0 \notin F /\ PickedFrom(p, t, UpTo(k, F))
      BY <2>1, <2>2
    <3>3. PickedFrom(Append(p, x), t, UpTo(j, F))
      BY <3>1, <3>2, GatherOne
    <3>4. UnitsAt(t, UpTo(j, F)) = UnitsAt(t, UpTo(k, F)) \cup {x}
      <4>1. UpTo(k + 1, F) = UpTo(k, F) \cup {k + 1}
        BY <3>1, <3>2, UpToNext
      <4> QED
        BY <3>1, <4>1 DEF UnitsAt
    <3> QED
      BY <3>1, <3>3, <3>4
  <2>4. PICK a \in Seq(Range(Listed)) : a = Append(p, x) /\ Len(a) = Len(p) + 1
                                        /\ Range(a) = Range(p) \cup {x}
    <3>1. /\ Append(p, x) \in Seq(Range(Listed)) /\ Len(Append(p, x)) = Len(p) + 1
          /\ Range(Append(p, x)) = Range(p) \cup {x}
      BY RangeAppend
    <3> QED
      BY <3>1
  <2>5. path_list' = a /\ cur' = Listed /\ todo' = r /\ happened' = happened
    BY <1>3, <1>4, <1>5, <2>1, <2>4 DEF Listed, Opens
  <2>6. Asked' = Asked /\ Found' = Found
    BY <1>1 DEF Asked, Found
  <2>7. IsRest(Listed, Listed) /\ Taken(Listed, Listed) = 0
    BY ListedList, RestAll
  <2>8. Searched'
    <3>1. \A u : NotYet(u)'
      BY <2>5, <2>7 DEF NotYet
    <3>2. SearchList'
      BY <1>1, <1>2, <2>1, <2>2, <2>3, <2>4, <2>5, <2>6, <3>1 DEF SearchList, Gathered, Never
    <3> QED
      BY <1>1, <2>5, <2>7, <3>2 DEF Searched
  <2>9. SelectTypes'
    <3>1. Len(handle) + Len(a) <= MAX_DEVICES
      <4>1. Len(p) \in Nat /\ Len(handle) = 0
        BY <1>2, LenProperties
      <4> QED
        BY <1>1, <1>3, <2>4, <4>1, MaxAssumption
    <3> QED
      BY <1>1, <2>5, <3>1, ListedList DEF SelectTypes
  <2> QED
    BY <1>1, <2>8, <2>9 DEF SelectInv, RightUnits, Selecting
<1>6. CASE /\ cur' = Tail(cur) /\ path_list' = path_list /\ todo' = todo
           /\ (Opens(Head(cur)) /\ Head(cur) # Head(todo)) \/ OpenFails(Head(cur))
  <2>1. NotYet(Head(todo))'
    <3>1. ASSUME Never("open_fail")' PROVE Never("open_fail") /\ x # Head(todo)
      BY <1>1, <1>2, <1>4, <1>6, <3>1 DEF Never, Opens, OpenFails, Happens
    <3>2. ASSUME Never("open_fail")', NEW k \in 1 .. n + 1 PROVE Listed[k] # Head(todo)
      <4>1. CASE k = n + 1
        BY <1>4, <3>1, <3>2, <4>1
      <4>2. CASE k \in 1 .. n
        BY <1>2, <1>4, <3>1, <3>2, <4>2 DEF NotYet
      <4> QED
        BY <4>1, <4>2
    <3> QED
      BY <1>4, <1>6, <3>2 DEF NotYet
  <2>2. Never("open_fail")' => Never("open_fail")
    BY <1>6 DEF Never, Opens, OpenFails, Happens
  <2>3. Asked' = Asked /\ Found' = Found
    BY <1>1 DEF Asked, Found
  <2>4. Searched'
    BY <1>1, <1>2, <1>4, <1>6, <2>1, <2>2, <2>3, ListPlace DEF Searched, SearchList, Gathered
  <2>5. SelectTypes'
    BY <1>1, <1>4, <1>6 DEF SelectTypes
  <2> QED
    BY <1>1, <1>6, <2>4, <2>5 DEF SelectInv, RightUnits, Selecting
<1> QED
  BY <1>5, <1>6 DEF LookUp, Take1

\* A serial number that is not on the bus.
LEMMA NotFoundStep == ASSUME SelectInv, NotFound PROVE SelectInv'
<1>1. /\ main = "search" /\ ident.kind = "list" /\ ident' = ident /\ pc' = pc /\ main' = main
      /\ handle' = handle /\ opened' = opened /\ path_list' = path_list /\ happened' = happened
      /\ cur = <<>> /\ cur' = Listed /\ todo # <<>> /\ todo' = Tail(todo)
      /\ SelectTypes /\ IsInjective(handle) /\ \A t \in Threads : pc[t] = "none"
  BY DEF SelectInv, Selecting, NotFound, NewList, Searching, Listed, args, threadVars
<1>2. handle = <<>> /\ NotYet(Head(todo))
  BY <1>1, ListPlace
<1>3. IsRest(Listed, Listed) /\ Taken(Listed, Listed) = 0 /\ Taken(cur, Listed) = Len(Listed)
      /\ DOMAIN Listed = 1 .. Len(Listed)
  BY <1>1, ListedList, RestAll
<1>4. PICK k \in Nat, F \in SUBSET Nat, r \in Seq(Units), t \in {Asked} :
        /\ k = Taken(todo, ident.serials) /\ r = Tail(todo) /\ F = Found
        /\ k + 1 \in F => OnBus(t[k + 1])
        /\ t[k + 1] = Head(todo) /\ 0 \notin F
        /\ IsRest(r, ident.serials) /\ Taken(r, ident.serials) = k + 1
  BY <1>1, ListNext, ListPlace
<1>5. PickedFrom(path_list, t, UpTo(k, F))
      /\ (Never("open_fail") => Range(path_list) = UnitsAt(t, UpTo(k, F)))
  BY <1>1, <1>4, ListPlace
<1>6. Never("open_fail") => k + 1 \notin F
  BY <1>2, <1>3, <1>4 DEF NotYet, OnBus, Range
<1>7. PickedFrom(path_list, t, UpTo(k + 1, F))
      /\ (Never("open_fail") => Range(path_list) = UnitsAt(t, UpTo(k + 1, F)))
  <2>1. PICK p : p = path_list /\ PickedFrom(p, t, UpTo(k, F))
    BY <1>5
  <2>2. /\ PickedFrom(p, t, UpTo(k + 1, F))
        /\ (k + 1 \in F => t[k + 1] \in Range(p)) /\ Range(p) = UnitsAt(t, UpTo(k, F))
             => Range(p) = UnitsAt(t, UpTo(k + 1, F))
    BY <1>4, <2>1, GatherNone
  <2> QED
    BY <1>5, <1>6, <2>1, <2>2
<1>8. Asked' = Asked /\ Found' = Found
  BY <1>1 DEF Asked, Found
<1>9. Searched'
  <2>1. \A u : NotYet(u)'
    BY <1>1, <1>3 DEF NotYet
  <2>2. SearchList'
    BY <1>1, <1>2, <1>4, <1>7, <1>8, <2>1 DEF SearchList, Gathered, Never
  <2> QED
    BY <1>1, <1>3, <2>2 DEF Searched
<1>10. SelectTypes'
  BY <1>1, <1>4, ListedList DEF SelectTypes
<1> QED
  BY <1>1, <1>9, <1>10 DEF SelectInv, RightUnits, Selecting

\* The list is looked up, or the table full.
LEMMA LookedUpStep == ASSUME SelectInv, LookedUp PROVE SelectInv'
<1>1. /\ main = "search" /\ ident.kind = "list" /\ ident' = ident /\ pc' = pc /\ main' = "reopen"
      /\ handle' = handle /\ opened' = opened /\ path_list' = path_list /\ happened' = happened
      /\ cur' = cur /\ todo' = todo /\ (todo = <<>> \/ Len(path_list) = MAX_DEVICES)
      /\ SelectTypes /\ IsInjective(handle) /\ opened = Range(handle)
      /\ \A t \in Threads : pc[t] = "none"
  BY DEF SelectInv, Selecting, LookedUp, Searching, args, threadVars
<1>2. handle = <<>> /\ Asked = ident.serials /\ Range(handle) = {}
  BY <1>1, ListPlace DEF Range
<1>3. PICK p \in Seq(Range(Listed)), s \in Seq(Units), r \in Seq(Units) :
        p = path_list /\ s = ident.serials /\ r = todo
  BY <1>1, ListPlace DEF SelectTypes
<1>4. PICK m \in Nat, n \in Nat, F \in {Found} :
        m = Len(s) /\ n = Taken(r, s) /\ F \in SUBSET (1 .. m)
  <2>1. Len(r) \in Nat /\ Len(s) \in Nat /\ Len(r) <= Len(s) /\ Taken(r, s) = Len(s) - Len(r)
    BY <1>1, <1>3, ListPlace, LenProperties DEF IsRest, Taken
  <2>2. Len(s) - Len(r) \in Nat
    BY <2>1
  <2>3. Found \in SUBSET (1 .. Len(s))
    BY <1>1, <1>2, <1>3, ListPlace
  <2> QED
    BY <2>1, <2>2, <2>3
<1>5. PickedFrom(p, Asked, UpTo(n, F))
      /\ (Never("open_fail") => Range(p) = UnitsAt(Asked, UpTo(n, F)))
  BY <1>1, <1>3, <1>4, ListPlace
<1>6. n = m \/ Len(p) >= MAX_DEVICES
  <2>1. CASE todo = <<>>
    BY <1>3, <1>4, <2>1, RestAll
  <2>2. CASE Len(path_list) = MAX_DEVICES
    BY <1>3, <2>2, MaxAssumption
  <2> QED
    BY <1>1, <2>1, <2>2
<1>7. PickedFrom(p, Asked, F)
      /\ (Never("open_fail") /\ Cardinality(F) <= MAX_DEVICES => Range(p) = UnitsAt(Asked, F))
  <2>1. PICK t : t = Asked /\ PickedFrom(p, t, UpTo(n, F))
    BY <1>5
  <2>2. /\ PickedFrom(p, t, F)
        /\ Range(p) = UnitsAt(t, UpTo(n, F)) /\ Cardinality(F) <= MAX_DEVICES
             => Range(p) = UnitsAt(t, F)
    <3>1. F \in SUBSET (1 .. m) /\ PickedFrom(p, t, UpTo(n, F))
      BY <1>4, <2>1
    <3> QED
      BY <1>6, <3>1, GatherAll
  <2> QED
    BY <1>5, <2>1, <2>2
<1>8. <<>> \o p = p
  BY ConcatEmptySeq
<1>9. Asked' = Asked /\ Found' = Found
  BY <1>1 DEF Asked, Found
<1>10. Reopening'
  BY <1>1, <1>2, <1>3, <1>4, <1>7, <1>8, <1>9 DEF Reopening, Never
<1>11. SelectTypes'
  BY <1>1 DEF SelectTypes
<1> QED
  BY <1>1, <1>10, <1>11 DEF SelectInv, RightUnits, Selecting

\* A path is opened again.
LEMMA ReopenStep == ASSUME SelectInv, Reopen PROVE SelectInv'
<1>1. /\ main = "reopen" /\ ident' = ident /\ pc' = pc /\ cur' = cur /\ todo' = todo
      /\ SelectTypes /\ IsInjective(handle) /\ opened = Range(handle)
      /\ \A t \in Threads : pc[t] = "none"
  BY DEF SelectInv, Selecting, Reopen, args, threadVars
<1>2. PickedFrom(handle \o path_list, Asked, Found)
      /\ (Never("open_fail") /\ Cardinality(Found) <= MAX_DEVICES =>
            Range(handle) \cup Range(path_list) = UnitsAt(Asked, Found))
  BY <1>1 DEF SelectInv, Reopening
<1>3. PICK h \in Seq(Range(Listed)), p \in Seq(Range(Listed)) : h = handle /\ p = path_list
  BY <1>1 DEF SelectTypes
<1>4. Asked' = Asked /\ Found' = Found
  BY <1>1 DEF Asked, Found
<1>5. CASE path_list = <<>>
  <2>1. main' = "launch" /\ handle' = handle /\ path_list' = path_list /\ happened' = happened
    BY <1>5 DEF Reopen
  <2>2. h \o <<>> = h /\ Range(<<>>) = {}
    BY ConcatEmptySeq DEF Range
  <2>3. RightUnits'
    BY <1>1, <1>2, <1>3, <1>4, <1>5, <2>1, <2>2 DEF RightUnits, Never, UnitsAt
  <2>4. SelectTypes'
    BY <1>1, <2>1 DEF SelectTypes
  <2> QED
    BY <1>1, <2>1, <2>3, <2>4 DEF SelectInv, Selecting
<1>6. CASE path_list # <<>>
  <2>1. PICK x \in Range(Listed), q \in Seq(Range(Listed)) :
          x = Head(p) /\ q = Tail(p) /\ Range(p) = {x} \cup Range(q) /\ Len(p) = Len(q) + 1
    <3>1. p # <<>>
      BY <1>3, <1>6
    <3>2. Range(p) = {Head(p)} \cup Range(Tail(p)) /\ Len(p) = Len(Tail(p)) + 1
          /\ Head(p) \in Range(Listed) /\ Tail(p) \in Seq(Range(Listed))
      BY <3>1, RangeTail
    <3> QED
      BY <3>2
  <2>2. path_list' = q
    BY <1>3, <1>6, <2>1 DEF Reopen
  <2>3. CASE Opens(Head(path_list)) /\ handle' = Append(handle, Head(path_list))
             /\ opened' = opened \cup {Head(path_list)} /\ main' = "serial"
    <3>1. PICK a \in Seq(Range(Listed)) : a = Append(h, x) /\ Len(a) = Len(h) + 1
             /\ Range(a) = Range(h) \cup {x} /\ (IsInjective(h) /\ x \notin Range(h) => IsInjective(a))
      <4>1. /\ Append(h, x) \in Seq(Range(Listed)) /\ Len(Append(h, x)) = Len(h) + 1
            /\ Range(Append(h, x)) = Range(h) \cup {x}
            /\ (IsInjective(h) /\ x \notin Range(h) => IsInjective(Append(h, x)))
        BY RangeAppend
      <4> QED
        BY <4>1
    <3>2. handle' = a /\ x \notin Range(h) /\ happened' = happened /\ opened' = Range(a)
      BY <1>1, <1>3, <2>1, <2>3, <3>1 DEF Opens
    <3>3. a \o q = h \o p
      <4>1. p # <<>>
        BY <1>3, <1>6
      <4>2. Append(h, Head(p)) \o Tail(p) = h \o p
        BY <4>1, MoveOne
      <4> QED
        BY <2>1, <3>1, <4>2
    <3>4. Reopening'
      BY <1>2, <1>3, <1>4, <2>1, <2>2, <3>1, <3>2, <3>3 DEF Reopening, Never
    <3>5. SelectTypes'
      <4>1. Len(a) + Len(q) <= MAX_DEVICES
        <5>1. Len(h) \in Nat /\ Len(q) \in Nat /\ Len(h) + Len(p) <= MAX_DEVICES
          BY <1>1, <1>3, LenProperties DEF SelectTypes
        <5> QED
          BY <2>1, <3>1, <5>1, MaxAssumption
      <4> QED
        BY <1>1, <2>2, <3>2, <4>1 DEF SelectTypes
    <3> QED
      BY <1>1, <1>3, <2>3, <3>1, <3>2, <3>4, <3>5 DEF SelectInv, RightUnits, Selecting
  <2>4. CASE OpenFails(Head(path_list)) /\ main' = main /\ handle' = handle /\ opened' = opened
    <3>1. Never("open_fail")' => Never("open_fail") /\ x \in Range(h)
      BY <1>1, <1>3, <2>1, <2>4 DEF OpenFails, Happens, Never
    <3>2. PickedFrom(h \o q, Asked, Found)
      <4>1. PICK t, F : t = Asked /\ F = Found
        OBVIOUS
      <4>2. p # <<>> /\ F \in SUBSET Nat /\ PickedFrom(h \o p, t, F)
        BY <1>1, <1>2, <1>3, <1>6, <4>1, AskedPlaces DEF SelectTypes
      <4>3. PickedFrom(h \o Tail(p), t, F)
        BY <4>2, PickLess
      <4> QED
        BY <2>1, <4>1, <4>3
    <3>3. Reopening'
      BY <1>2, <1>3, <1>4, <2>1, <2>2, <2>4, <3>1, <3>2 DEF Reopening
    <3>4. SelectTypes'
      <4>1. Len(h) + Len(q) <= MAX_DEVICES
        <5>1. Len(h) \in Nat /\ Len(q) \in Nat /\ Len(h) + Len(p) <= MAX_DEVICES
          BY <1>1, <1>3, LenProperties DEF SelectTypes
        <5> QED
          BY <2>1, <5>1, MaxAssumption
      <4> QED
        BY <1>1, <1>3, <2>2, <2>4, <4>1 DEF SelectTypes
    <3> QED
      BY <1>1, <2>4, <3>3, <3>4 DEF SelectInv, RightUnits, Selecting
  <2> QED
    BY <1>6, <2>3, <2>4 DEF Reopen
<1> QED
  BY <1>5, <1>6

\* The serial number of the unit opened last is printed, or of none.
LEMMA ShowSerialStep == ASSUME SelectInv, ShowSerial PROVE SelectInv'
<1>1. /\ main = "serial" /\ main' \in {"reopen", "exit"} /\ ident' = ident /\ pc' = pc
      /\ cur' = cur /\ todo' = todo /\ handle' = handle /\ path_list' = path_list
      /\ opened' = opened /\ happened' = happened /\ opened = Range(handle)
      /\ SelectTypes /\ IsInjective(handle) /\ Reopening /\ \A t \in Threads : pc[t] = "none"
  BY DEF SelectInv, Selecting, ShowSerial, Exit, args, threadVars
<1>2. SelectTypes'
  BY <1>1 DEF SelectTypes
<1>3. Reopening'
  <2>1. Asked' = Asked /\ Found' = Found
    BY <1>1 DEF Asked, Found
  <2> QED
    BY <1>1, <2>1 DEF Reopening, Never
<1> QED
  BY <1>1, <1>2, <1>3 DEF SelectInv, RightUnits, Selecting

-----------------------------------------------------------------------------
(* main() with the command, and the threads.                               *)

\* Once the units are selected, nothing of the selection changes any more.
LEMMA SelectedStays ==
    ASSUME SelectInv, main \in {"launch", "run"}, main' \in {"run", "exit"},
           ident' = ident, cur' = cur, todo' = todo, handle' = handle, path_list' = path_list,
           Never("open_fail")' => Never("open_fail")
    PROVE  SelectInv'
<1>1. SelectTypes /\ IsInjective(handle) /\ RightUnits
  BY DEF SelectInv
<1>2. SelectTypes'
  BY <1>1 DEF SelectTypes
<1>3. RightUnits'
  <2>1. Asked' = Asked /\ Found' = Found
    BY DEF Asked, Found
  <2>2. IsInjective(handle) /\ PickedFrom(handle, Asked, Found)
        /\ (Never("open_fail") /\ Cardinality(Found) <= MAX_DEVICES =>
              Range(handle) = {Asked[k] : k \in Found})
    BY <1>1 DEF RightUnits
  <2> QED
    BY <2>1, <2>2 DEF RightUnits
<1> QED
  BY <1>1, <1>2, <1>3 DEF SelectInv, Selecting

\* The command is started, or not; it goes to the next unit; the program ends.
LEMMA CommandStep ==
    ASSUME SelectInv, Launch \/ (\E t \in Threads : NextCall(t)) \/ Finish
    PROVE  SelectInv'
<1>1. /\ main \in {"launch", "run"} /\ main' \in {"run", "exit"} /\ ident' = ident /\ cur' = cur
      /\ todo' = todo /\ handle' = handle /\ path_list' = path_list /\ happened' = happened
  BY DEF Launch, NextCall, Finish, Exit, args, mainVars, threadVars
<1> QED
  BY <1>1, SelectedStays DEF Never

\* A thread changes neither what is selected nor where main is, and runs after the selection.
LEMMA ThreadFrame ==
    ASSUME NEW t \in Threads, Run(t)
    PROVE  /\ main' = main /\ ident' = ident /\ cur' = cur /\ todo' = todo /\ handle' = handle
           /\ path_list' = path_list /\ pc[t] # "none"
           /\ Never("open_fail")' => Never("open_fail")
<1> USE DEF frame, args, mainVars, At_, Never, Happens
<1>1. CASE Simple(t)
  BY <1>1 DEF Simple
<1>2. CASE BeginColor(t)
  BY <1>2 DEF BeginColor
<1>3. CASE StripStep(t)
  BY <1>3 DEF StripStep, Stripping
<1>4. CASE StripEnd(t)
  BY <1>4 DEF StripEnd, Stripping
<1>5. CASE Show(t)
  BY <1>5 DEF Show
<1>6. CASE FadeStep(t)
  BY <1>6 DEF FadeStep
<1>7. CASE BeginUpload(t)
  BY <1>7 DEF BeginUpload
<1>8. CASE UploadVersion(t)
  BY <1>8 DEF UploadVersion, AtLine
<1>9. CASE UploadHeader(t)
  BY <1>9 DEF UploadHeader, AtLine
<1>10. CASE UploadSlot(t)
  BY <1>10 DEF UploadSlot, LoadLine, AtLine
<1>11. CASE UploadEnd(t)
  BY <1>11 DEF UploadEnd
<1>12. CASE Close(t)
  BY <1>12 DEF Close
<1> QED
  BY <1>1, <1>2, <1>3, <1>4, <1>5, <1>6, <1>7, <1>8, <1>9, <1>10, <1>11, <1>12 DEF Run

LEMMA ThreadStep == ASSUME SelectInv, NEW t \in Threads, Run(t) PROVE SelectInv'
<1>1. /\ main' = main /\ ident' = ident /\ cur' = cur /\ todo' = todo /\ handle' = handle
      /\ path_list' = path_list /\ pc[t] # "none"
      /\ Never("open_fail")' => Never("open_fail")
  BY ThreadFrame
<1>2. ~Selecting /\ SelectTypes /\ IsInjective(handle)
  BY <1>1 DEF SelectInv
<1>3. CASE main = "run"
  BY <1>1, <1>3, SelectedStays
<1>4. CASE main # "run"
  <2>1. SelectTypes'
    BY <1>1, <1>2 DEF SelectTypes
  <2> QED
    BY <1>1, <1>2, <1>4, <2>1 DEF SelectInv, RightUnits, Selecting
<1> QED
  BY <1>3, <1>4

-----------------------------------------------------------------------------
LEMMA SelectStutter == ASSUME SelectInv, UNCHANGED vars PROVE SelectInv'
<1>1. /\ main' = main /\ ident' = ident /\ cur' = cur /\ todo' = todo /\ handle' = handle
      /\ path_list' = path_list /\ pc' = pc /\ opened' = opened /\ happened' = happened
  BY DEF vars, args, mainVars, threadVars
<1>2. Asked' = Asked /\ Found' = Found
  BY <1>1 DEF Asked, Found
<1>3. SelectTypes' /\ IsInjective(handle')
  BY <1>1 DEF SelectInv, SelectTypes
<1>4. main = "search" => Searched'
  BY <1>1, <1>2 DEF SelectInv, Searched, SearchAll, SearchOne, SearchList, Gathered, NotYet, Never
<1>5. main \in {"reopen", "serial"} => Reopening'
  BY <1>1, <1>2 DEF SelectInv, Reopening, Never
<1>6. RightUnits'
  BY <1>1, <1>2 DEF SelectInv, RightUnits, Never
<1> QED
  BY <1>1, <1>3, <1>4, <1>5, <1>6 DEF SelectInv, Selecting

\* The invariant holds in every behaviour.
LEMMA SelectAlways == Spec => []SelectInv
<1>1. Init => SelectInv
  BY SelectInit
<1>2. SelectInv /\ [Next]_vars => SelectInv'
  <2> SUFFICES ASSUME SelectInv, [Next]_vars PROVE SelectInv'
    OBVIOUS
  <2>1. CASE Main
    BY <2>1, StartStep, OpenAllStep, OpenOneStep, OneFoundStep, LookUpStep, NotFoundStep,
       LookedUpStep, ReopenStep, ShowSerialStep, CommandStep DEF Main
  <2>2. CASE \E t \in Threads : Run(t)
    BY <2>2, ThreadStep
  <2>3. CASE UNCHANGED vars
    BY <2>3, SelectStutter
  <2> QED
    BY <2>1, <2>2, <2>3 DEF Next
<1> QED
  BY <1>1, <1>2, PTL DEF Spec

\* The command goes to the units the user named and to no other, each once, in the order
\* named, whatever else is on the bus, however the list repeats itself and whatever the size
\* of the table; and to all that are there, if they open and the table holds them
\* (main(), ptrim.cc:8-147).
THEOREM UnitsSelected == Spec => []RightUnits
<1>1. SelectInv => RightUnits
  BY DEF SelectInv
<1> QED
  BY <1>1, SelectAlways, PTL

\* The search never opens more units than the table handle[] holds, nor finds more paths
\* than there are places left for them (ptrim.cc:12, 48 and 66).
THEOREM TableHolds == Spec => [](Len(handle) + Len(path_list) <= MAX_DEVICES)
<1>1. SelectInv => Len(handle) + Len(path_list) <= MAX_DEVICES
  BY DEF SelectInv, SelectTypes
<1> QED
  BY <1>1, SelectAlways, PTL

-----------------------------------------------------------------------------
(* The conversions.                                                        *)

LEMMA HalfSize == Half \in Nat /\ Half >= 9 /\ Full = 2 * Half /\ Half = 2 * (Half \div 2)
<1>1. LEDS \in Nat /\ LEDS > 2 /\ LEDS % 2 = 0
  BY LedsAssumption
<1>2. PICK h \in Nat : LEDS = 2 * h
  <2>1. LEDS = 2 * (LEDS \div 2) /\ LEDS \div 2 \in Nat
    BY <1>1
  <2> QED
    BY <2>1
<1> QED
  BY <1>1, <1>2 DEF Half, Full

\* A text, brought to its standard length, is made of bytes.
LEMMA StandardLong ==
    ASSUME NEW text \in Seq(Byte) PROVE Standard(text, TRUE) \in [1 .. 2 * Half -> Byte]
<1>1. \A k \in Nat : At(text, k) \in Byte
  <2> SUFFICES ASSUME NEW k \in Nat PROVE At(text, k) \in Byte
    OBVIOUS
  <2>1. CASE k < Len(text)
    <3>1. k + 1 \in 1 .. Len(text)
      BY <2>1, LenProperties
    <3> QED
      BY <2>1, <3>1, ElementOfSeq DEF At
  <2>2. CASE ~(k < Len(text))
    BY <2>2 DEF At, Byte
  <2> QED
    BY <2>1, <2>2
<1>2. PICK n \in Nat : n = Len(text)
  BY LenProperties
<1> DEFINE Source(k) == CASE n < 6 -> (k % 6) \div 2
                          [] n >= 6 /\ n < Half   -> k % 6
                          [] n >= Half /\ n < Full -> k \div 2
                          [] n >= Full -> k
<1>3. ASSUME NEW k \in 0 .. 2 * Half - 1 PROVE Source(k) \in Nat
  <2>1. k \in Nat /\ k % 6 \in Nat /\ k \div 2 \in Nat /\ (k % 6) \div 2 \in Nat
    BY <1>3, HalfSize
  <2>2. n < 6 \/ (n >= 6 /\ n < Half) \/ (n >= Half /\ n < Full) \/ n >= Full
    BY HalfSize
  <2> QED
    BY <2>1, <2>2, HalfSize
<1>4. Standard(text, TRUE) = [k \in 1 .. Full |-> At(text, Source(k - 1))]
  BY <1>2 DEF Standard
<1> HIDE DEF Source
<1>5. ASSUME NEW k \in 1 .. 2 * Half PROVE At(text, Source(k - 1)) \in Byte
  <2>1. k - 1 \in 0 .. 2 * Half - 1
    BY <1>5, HalfSize
  <2> QED
    BY <1>1, <1>3, <2>1
<1> QED
  BY <1>4, <1>5, HalfSize

\* One with a digit for each component stays as it is where there is room for no more.
LEMMA StandardShort ==
    ASSUME NEW text \in [1 .. Half -> Byte], NEW full, full = FALSE
    PROVE  Standard(text, full) = text
<1>1. PICK n \in Nat, m \in Nat : n = Len(text) /\ n = Half /\ m = Full /\ n < m /\ n >= 9
  BY HalfSize
<1> DEFINE Source(k) == CASE n < 6 /\ full            -> (k % 6) \div 2
                          [] n < 6 /\ ~full           -> k % 3
                          [] n >= 6 /\ n < n /\ full  -> k % 6
                          [] n >= 6 /\ n < n /\ ~full -> 2 * (k % 3)
                          [] n >= n /\ n < m /\ full  -> k \div 2
                          [] n >= n /\ n < m /\ ~full -> k
                          [] n >= m /\ full           -> k
                          [] n >= m /\ ~full          -> 2 * k
<1>2. Standard(text, full) = [k \in 1 .. (IF full THEN Full ELSE Half) |-> At(text, Source(k - 1))]
  BY <1>1 DEF Standard
<1>3. ASSUME NEW k \in Nat PROVE Source(k) = k
  BY <1>1
<1> HIDE DEF Source
<1>4. ASSUME NEW k \in 1 .. Half PROVE At(text, Source(k - 1)) = text[k]
  <2>1. k - 1 \in Nat /\ k - 1 < Len(text) /\ (k - 1) + 1 = k
    BY <1>1
  <2> QED
    BY <1>3, <2>1 DEF At
<1> QED
  BY <1>2, <1>4

LEMMA DigitType == ASSUME NEW c \in Int PROVE Digit(c) \in Int
  BY DEF Digit

\* Two digits make a byte.
LEMMA PackType ==
    ASSUME NEW n \in Nat, NEW text \in [1 .. 2 * n -> Byte] PROVE Pack(text) \in [1 .. n -> Byte]
<1>1. Len(text) = 2 * n
  OBVIOUS
<1>2. ASSUME NEW k \in 1 .. n PROVE (16 * Digit(text[2 * k - 1]) + Digit(text[2 * k])) % 256 \in Byte
  <2>1. 2 * k - 1 \in 1 .. 2 * n /\ 2 * k \in 1 .. 2 * n
    BY <1>2
  <2>2. text[2 * k - 1] \in Int /\ text[2 * k] \in Int
    <3>1. text[2 * k - 1] \in Byte /\ text[2 * k] \in Byte
      BY <2>1
    <3>2. Byte \subseteq Int
      BY DEF Byte
    <3> QED
      BY <3>1, <3>2
  <2>3. PICK a \in Int, b \in Int : a = Digit(text[2 * k - 1]) /\ b = Digit(text[2 * k])
    BY <2>2, DigitType
  <2>4. (16 * a + b) % 256 \in 0 .. 255
    OBVIOUS
  <2> QED
    BY <2>3, <2>4 DEF Byte
<1>3. Len(text) \div 2 = n
  BY <1>1
<1> QED
  BY <1>2, <1>3 DEF Pack

\* The colour the user typed has a byte for each component.
LEMMA ColorType == ASSUME NEW text \in Seq(Byte) PROVE makeColor(text, TRUE) \in [1 .. Half -> Byte]
  BY HalfSize, StandardLong, PackType DEF makeColor

\* Bytes as text.
LEMMA HexCharType == ASSUME NEW d \in 0 .. 15 PROVE HexChar(d) \in Byte /\ Digit(HexChar(d)) = d
  BY DEF HexChar, Digit, Byte

LEMMA HexType ==
    ASSUME NEW n \in Nat, NEW bytes \in [1 .. n -> Byte]
    PROVE  /\ HexText(bytes) \in [1 .. 2 * n -> Byte]
           /\ \A k \in 1 .. n : /\ Digit(HexText(bytes)[2 * k - 1]) = bytes[k] \div 16
                                /\ Digit(HexText(bytes)[2 * k]) = bytes[k] % 16
<1>1. Len(bytes) = n
  OBVIOUS
<1>2. HexText(bytes) = [k \in 1 .. 2 * n |->
        HexChar(IF k % 2 = 1 THEN bytes[(k + 1) \div 2] \div 16 ELSE bytes[(k + 1) \div 2] % 16)]
  BY <1>1 DEF HexText
<1>3. ASSUME NEW b \in Byte PROVE b \div 16 \in 0 .. 15 /\ b % 16 \in 0 .. 15
  BY DEF Byte
<1>4. ASSUME NEW k \in 1 .. 2 * n PROVE HexText(bytes)[k] \in Byte
  <2>1. (k + 1) \div 2 \in 1 .. n
    OBVIOUS
  <2>2. PICK b \in Byte : b = bytes[(k + 1) \div 2]
    BY <2>1
  <2> QED
    BY <1>2, <1>3, <2>2, HexCharType
<1>5. ASSUME NEW k \in 1 .. n
      PROVE  /\ Digit(HexText(bytes)[2 * k - 1]) = bytes[k] \div 16
             /\ Digit(HexText(bytes)[2 * k]) = bytes[k] % 16
  <2>1. /\ 2 * k - 1 \in 1 .. 2 * n /\ (2 * k - 1) % 2 = 1 /\ ((2 * k - 1) + 1) \div 2 = k
        /\ 2 * k \in 1 .. 2 * n /\ (2 * k) % 2 = 0 /\ (2 * k + 1) \div 2 = k
    OBVIOUS
  <2>2. PICK b \in Byte : b = bytes[k]
    OBVIOUS
  <2>3. HexText(bytes)[2 * k - 1] = HexChar(b \div 16) /\ HexText(bytes)[2 * k] = HexChar(b % 16)
    BY <1>2, <2>1, <2>2
  <2> QED
    BY <1>3, <2>2, <2>3, HexCharType
<1> QED
  BY <1>2, <1>4, <1>5

\* A fade stays between the two colours.
LEMMA FadeType ==
    ASSUME NEW from \in [1 .. Half -> Byte], NEW to \in [1 .. Half -> Byte],
           NEW steps \in Nat, NEW n \in 1 .. steps
    PROVE  FadeColor(from, to, steps, n) \in [1 .. Half -> Byte]
<1>1. ASSUME NEW k \in 1 .. Half
      PROVE  (from[k] * steps - (from[k] - to[k]) * n) \div steps \in Byte
  <2>1. PICK f \in 0 .. 255, t \in 0 .. 255 : f = from[k] /\ t = to[k]
    BY DEF Byte
  <2>2. f * steps - (f - t) * n = f * (steps - n) + t * n
    OBVIOUS
  <2>3. t * n >= 0 /\ t * n <= 255 * n
    OBVIOUS
  <2>4. f * (steps - n) >= 0 /\ f * (steps - n) <= 255 * (steps - n)
    OBVIOUS
  <2>5. PICK x \in Int : x = f * steps - (f - t) * n /\ 0 <= x /\ x <= 255 * steps
    BY <2>2, <2>3, <2>4
  <2>6. steps > 0
    OBVIOUS
  <2>7. x \div steps \in 0 .. 255
    BY <2>5, <2>6
  <2> QED
    BY <2>1, <2>5, <2>7 DEF Byte
<1> QED
  BY <1>1 DEF FadeColor

LEMMA StepsType == ASSUME NEW time PROVE FadeSteps(time) \in Nat /\ FadeSteps(time) >= 1
  BY DEF FadeSteps

LEMMA BrightnessType == ASSUME NEW n \in Int PROVE makeBrightness(n) \in 1 .. 100
  BY DEF makeBrightness

LEMMA ActiveType == ASSUME NEW n \in Int PROVE activeSlotsOf(n) \in 1 .. SLOTS
<1>1. PICK b \in Int : b = n % 256
  OBVIOUS
<1> QED
  BY <1>1, SlotsAssumption DEF activeSlotsOf

-----------------------------------------------------------------------------
(* Where a search in a text ends.                                          *)

\* A set of numbers has a least one.
LEMMA LeastNat ==
    ASSUME NEW T, T \subseteq Nat, T # {} PROVE \E x \in T : \A y \in T : x <= y
<1> DEFINE R == {ss \in Nat \X Nat : ss[1] < ss[2]}
<1>1. IsWellFoundedOn(R, Nat)
  BY NatLessThanWellFounded DEF OpToRel
<1> HIDE DEF R
<1>2. PICK x \in T : \A y \in T : ~(<<y, x>> \in R)
  BY <1>1, WFMin
<1>3. ASSUME NEW y \in T PROVE x <= y
  <2>1. ~(<<y, x>> \in R)
    BY <1>2
  <2>2. ~(y < x)
    BY <2>1 DEF R
  <2> QED
    BY <2>2
<1> QED
  BY <1>3

\* The next character that is not a space, and the first 0, as the program looks for them.
NextChar(text, a) ==
    CHOOSE k \in a .. Len(text) - 1 : /\ text[k + 1] # Space
                                      /\ \A j \in a .. k - 1 : text[j + 1] = Space
FirstZero(text) ==
    CHOOSE k \in DOMAIN text : text[k] = 0 /\ \A j \in 1 .. k - 1 : text[j] # 0

LEMMA NextCharPlace ==
    ASSUME NEW text \in Seq(Byte), NEW a \in Nat, a < Len(text), text[Len(text)] = 0
    PROVE  /\ NextChar(text, a) \in a .. Len(text) - 1
           /\ text[NextChar(text, a) + 1] # Space
           /\ \A j \in a .. NextChar(text, a) - 1 : text[j + 1] = Space
<1> DEFINE S == {k \in a .. Len(text) - 1 : text[k + 1] # Space}
<1>1. Len(text) \in Nat
  OBVIOUS
<1>2. Len(text) - 1 \in S /\ S \subseteq Nat
  BY <1>1 DEF Space
<1>3. PICK k \in S : \A j \in S : k <= j
  <2> HIDE DEF S
  <2> QED
    BY <1>2, LeastNat
<1>4. ASSUME NEW j \in a .. k - 1 PROVE text[j + 1] = Space
  BY <1>1, <1>3
<1>5. \E m \in a .. Len(text) - 1 : text[m + 1] # Space /\ \A j \in a .. m - 1 : text[j + 1] = Space
  BY <1>4
<1> QED
  BY <1>5 DEF NextChar

LEMMA FirstZeroPlace ==
    ASSUME NEW text \in Seq(Byte), Len(text) > 0, text[Len(text)] = 0
    PROVE  /\ FirstZero(text) \in 1 .. Len(text)
           /\ text[FirstZero(text)] = 0
           /\ \A j \in 1 .. FirstZero(text) - 1 : text[j] # 0
<1> DEFINE S == {k \in 1 .. Len(text) : text[k] = 0}
<1>1. Len(text) \in Nat /\ DOMAIN text = 1 .. Len(text)
  OBVIOUS
<1>2. Len(text) \in S /\ S \subseteq Nat
  BY <1>1
<1>3. PICK k \in S : \A j \in S : k <= j
  <2> HIDE DEF S
  <2> QED
    BY <1>2, LeastNat
<1>4. ASSUME NEW j \in 1 .. k - 1 PROVE text[j] # 0
  BY <1>1, <1>3
<1>5. \E m \in DOMAIN text : text[m] = 0 /\ \A j \in 1 .. m - 1 : text[j] # 0
  BY <1>1, <1>4
<1> QED
  BY <1>1, <1>5 DEF FirstZero

-----------------------------------------------------------------------------
(* The types: everything the conversions yield is a byte.                  *)

Colour   == [1 .. Half -> Byte]
LongText == [1 .. 2 * Half -> Byte]
SlotType == [times : Byte, color : [1 .. Half \div 2 -> Byte]]
UnitType ==
    [name : {setName(c.text) : c \in Commands} \cup {<<>>},
     saved : 1 .. 100, running : BOOLEAN, level : 1 .. 100, shown : Colour,
     active : 1 .. SLOTS, slots : [0 .. SLOTS - 1 -> SlotType]]
StripType == [i : Nat, offset : Nat, length : Nat]
ShadeType == [from : Colour \cup LongText, to : Colour, step : Nat]
UpType    == [line : 0 .. LineWrap - 1, active : Int, loopStart : Int, load : Int, device : Nat]

MainTypes ==
    /\ cmd \in Commands
    /\ main \in {"start", "search", "reopen", "serial", "launch", "run", "exit"}
    /\ status \in {"running", "ok", "error", "crash"}
    /\ opened \subseteq Units /\ happened \subseteq Mishaps

\* The text in argv[3] never gets longer, and keeps the 0 at its end.
TextOK ==
    /\ argv3 \in Seq(Byte)
    /\ Len(argv3) = Len(cmd.text) + 1
    /\ argv3[Len(argv3)] = 0

\* A thread has a handle; what it knows of the text stays inside it.
StageOK ==
    /\ pc \in [Threads -> Stages]
    /\ \A t \in Threads : pc[t] # "none" => t <= Len(handle)
    /\ \A t \in Threads : pc[t] = "lines" => cmd.file # None
StripOK ==
    /\ strip \in [Threads -> StripType]
    /\ \A t \in Threads : strip[t].length <= Len(cmd.text)

\* fade() goes from a colour that was shown, as bytes once it is under way, and ends in time.
ShadesOK ==
    /\ shades \in [Threads -> ShadeType]
    /\ \A t \in Threads :
          /\ pc[t] \in {"none", "begin", "strip"} => shades[t].step = 0
          /\ pc[t] = "strip" /\ cmd.word = "fade" => shades[t].from \in LongText
          /\ pc[t] = "fading" => /\ shades[t].from \in Colour
                                 /\ shades[t].step < FadeSteps(cmd.time)

\* A device of the file, for a thread that uploads it.
UploadOK ==
    /\ up \in [Threads -> UpType]
    /\ \A t \in Threads : pc[t] = "lines" => up[t].device \in 1 .. cmd.file.devices

ThreadTypes == TextOK /\ StageOK /\ StripOK /\ ShadesOK /\ UploadOK
TypeInv == MainTypes /\ ThreadTypes /\ unit \in [Units -> UnitType]

\* Where main is makes no difference to the threads.
LEMMA CommandFacts ==
    ASSUME cmd \in Commands
    PROVE  /\ cmd.word \in Words /\ cmd.text \in Seq(Byte) /\ Len(cmd.text) \in Nat
           /\ cmd.arg = None \/ cmd.arg \in Int
           /\ cmd.word = "brightness" => cmd.arg \in Int
           /\ cmd.file = None \/ WellFormed(cmd.file)
<1>1. cmd.text \in Seq(Byte \ {0})
  BY CommandAssumption
<1>2. cmd.text \in Seq(Byte)
  BY <1>1
<1> QED
  BY <1>2, CommandAssumption

\* The thread's unit.
LEMMA ThreadUnit ==
    ASSUME SelectInv, StageOK, NEW t \in Threads, pc[t] # "none"
    PROVE  t \in DOMAIN handle /\ handle[t] \in Units
<1>1. t \in Nat /\ t >= 1 /\ t <= Len(handle)
  BY MaxAssumption DEF StageOK, Threads
<1>2. handle \in Seq(Range(Listed))
  BY DEF SelectInv, SelectTypes
<1>3. Range(Listed) \subseteq Units
  BY EnumAssumption DEF Listed, Range
<1>4. handle \in Seq(Units)
  BY <1>2, <1>3
<1> QED
  BY <1>1, <1>4

LEMMA BlankTypes ==
    /\ Black \in Colour /\ NewUnit \in UnitType /\ NoStrip \in StripType /\ NoShades \in ShadeType
    /\ \A g \in Garbage : UploadStart(g) \in UpType
<1>1. Black \in Colour
  BY HalfSize DEF Black, Colour, Byte
<1>2. BlankSlot \in SlotType
  BY DEF BlankSlot, SlotType, Byte
<1>3. [k \in 1 .. Half |-> 255] \in Colour
  BY DEF Colour, Byte
<1>4. 1 \in 1 .. SLOTS /\ [n \in 0 .. SLOTS - 1 |-> BlankSlot] \in [0 .. SLOTS - 1 -> SlotType]
  BY <1>2, SlotsAssumption
<1>5. NewUnit \in UnitType
  BY <1>3, <1>4 DEF NewUnit, UnitType
<1>6. NoStrip \in StripType /\ NoShades \in ShadeType
  BY <1>1 DEF NoStrip, StripType, NoShades, ShadeType
<1>7. ASSUME NEW g \in Garbage PROVE UploadStart(g) \in UpType
  <2>1. g \in Int /\ 0 \in 0 .. LineWrap - 1 /\ SLOTS \in Int
    BY GarbageAssumption, WrapAssumption, SlotsAssumption DEF Byte
  <2> QED
    BY <2>1 DEF UploadStart, UpType
<1> QED
  BY <1>1, <1>5, <1>6, <1>7

LEMMA TypeInit == ASSUME Init PROVE TypeInv
<1> USE DEF Init
<1>1. MainTypes
  BY DEF MainTypes
<1>2. TextOK
  <2>1. cmd.text \in Seq(Byte)
    BY CommandFacts
  <2>2. 0 \in Byte
    BY DEF Byte
  <2> QED
    BY <2>1, <2>2, AppendProperties DEF TextOK
<1>3. StageOK
  BY DEF StageOK, Stages
<1>4. StripOK
  <2>1. Len(cmd.text) \in Nat
    BY CommandFacts
  <2> QED
    BY <2>1, BlankTypes DEF StripOK, NoStrip
<1>5. ShadesOK
  BY BlankTypes DEF ShadesOK, NoShades
<1>6. UploadOK
  BY BlankTypes, GarbageAssumption DEF UploadOK
<1>7. unit \in [Units -> UnitType]
  BY BlankTypes
<1> QED
  BY <1>1, <1>2, <1>3, <1>4, <1>5, <1>6, <1>7 DEF TypeInv, ThreadTypes

\* A step of main, which does not touch what the threads use.
LEMMA TypesStay ==
    ASSUME TypeInv, SelectInv, MainTypes', cmd' = cmd, UNCHANGED threadVars,
           Selecting \/ handle' = handle
    PROVE  TypeInv'
<1> USE DEF threadVars
<1>1. StageOK'
  BY DEF TypeInv, ThreadTypes, StageOK, SelectInv
<1> QED
  BY <1>1 DEF TypeInv, ThreadTypes, TextOK, StripOK, ShadesOK, UploadOK

LEMMA ListedUnits ==
    ASSUME SelectInv
    PROVE  /\ cur # <<>> => Head(cur) \in Units
           /\ path_list # <<>> => Head(path_list) \in Units
<1>1. Range(Listed) \subseteq Units
  BY EnumAssumption DEF Listed, Range
<1>2. cur \in Seq(Units) /\ path_list \in Seq(Units)
  BY <1>1 DEF SelectInv, SelectTypes
<1> QED
  BY <1>2, HeadTailProperties

LEMMA MainStep ==
    ASSUME TypeInv, SelectInv,
           Start \/ OpenAll \/ OpenOne \/ OneFound \/ LookUp \/ NotFound \/ LookedUp \/ Reopen
           \/ ShowSerial \/ Finish
    PROVE  TypeInv'
<1> USE DEF MainTypes, args, mainVars, Exit, Happens, OpenFails, Opens, Selecting, Searching, Take1
<1>1. MainTypes
  BY DEF TypeInv
<1>2. CASE Start
  <2>1. MainTypes' /\ cmd' = cmd /\ UNCHANGED threadVars /\ handle' = handle
    BY <1>1, <1>2 DEF Start
  <2> QED
    BY <2>1, TypesStay
<1>3. CASE OpenAll
  <2>1. opened' \subseteq Units /\ happened' \subseteq Mishaps
    BY <1>1, <1>3, ListedUnits DEF OpenAll
  <2>2. MainTypes' /\ cmd' = cmd /\ UNCHANGED threadVars /\ Selecting
    BY <1>1, <1>3, <2>1 DEF OpenAll
  <2> QED
    BY <2>2, TypesStay
<1>4. CASE OpenOne
  <2>1. opened' \subseteq Units /\ happened' \subseteq Mishaps
    BY <1>1, <1>4, ListedUnits DEF OpenOne
  <2>2. MainTypes' /\ cmd' = cmd /\ UNCHANGED threadVars /\ Selecting
    BY <1>1, <1>4, <2>1 DEF OpenOne
  <2> QED
    BY <2>2, TypesStay
<1>5. CASE OneFound
  <2>1. MainTypes' /\ cmd' = cmd /\ UNCHANGED threadVars /\ Selecting
    BY <1>1, <1>5 DEF OneFound
  <2> QED
    BY <2>1, TypesStay
<1>6. CASE LookUp
  <2>1. MainTypes' /\ cmd' = cmd /\ UNCHANGED threadVars /\ Selecting
    BY <1>1, <1>6 DEF LookUp
  <2> QED
    BY <2>1, TypesStay
<1>7. CASE NotFound
  <2>1. MainTypes' /\ cmd' = cmd /\ UNCHANGED threadVars /\ Selecting
    BY <1>1, <1>7 DEF NotFound
  <2> QED
    BY <2>1, TypesStay
<1>8. CASE LookedUp
  <2>1. MainTypes' /\ cmd' = cmd /\ UNCHANGED threadVars /\ Selecting
    BY <1>1, <1>8 DEF LookedUp
  <2> QED
    BY <2>1, TypesStay
<1>9. CASE Reopen
  <2>1. opened' \subseteq Units /\ happened' \subseteq Mishaps
    BY <1>1, <1>9, ListedUnits DEF Reopen
  <2>2. MainTypes' /\ cmd' = cmd /\ UNCHANGED threadVars /\ Selecting
    BY <1>1, <1>9, <2>1 DEF Reopen
  <2> QED
    BY <2>2, TypesStay
<1>10. CASE ShowSerial
  <2>1. MainTypes' /\ cmd' = cmd /\ UNCHANGED threadVars /\ Selecting
    BY <1>1, <1>10 DEF ShowSerial
  <2> QED
    BY <2>1, TypesStay
<1>11. CASE Finish
  <2>1. MainTypes' /\ cmd' = cmd /\ UNCHANGED threadVars /\ handle' = handle
    BY <1>1, <1>11 DEF Finish
  <2> QED
    BY <2>1, TypesStay
<1> QED
  BY <1>2, <1>3, <1>4, <1>5, <1>6, <1>7, <1>8, <1>9, <1>10, <1>11

\* The threads start.
LEMMA BeginStep ==
    ASSUME TypeInv, SelectInv, Launch \/ (\E t \in Threads : NextCall(t)) PROVE TypeInv'
<1>1. /\ cmd' = cmd /\ handle' = handle /\ argv3' = argv3 /\ strip' = strip /\ up' = up
      /\ shades' = shades /\ unit' = unit
  BY DEF Launch, NextCall, args, mainVars
<1>2. MainTypes'
  BY DEF Launch, NextCall, args, mainVars, Exit, TypeInv, MainTypes
<1>3. /\ pc' \in [Threads -> Stages]
      /\ \A t \in Threads : \/ pc'[t] = pc[t]
                            \/ pc'[t] = "begin" /\ pc[t] = "none" /\ t <= Len(handle)
  <2>1. CASE Launch
    <3>1. main = "launch" /\ \A t \in Threads : pc[t] = "none"
      BY <2>1 DEF Launch, SelectInv, Selecting
    <3> QED
      BY <2>1, <3>1 DEF Launch, Stages, TypeInv, ThreadTypes, StageOK
  <2>2. ASSUME NEW t \in Threads, NextCall(t)
        PROVE  <1>3!1 /\ <1>3!2
    <3>1. t \in Nat /\ Len(handle) \in Nat
      BY DEF Threads, SelectInv, SelectTypes
    <3>2. pc \in [Threads -> Stages] /\ pc[t + 1] = "none"
          /\ pc' = [pc EXCEPT ![t + 1] = "begin"] /\ t + 1 <= Len(handle)
      BY <2>2, <3>1 DEF NextCall, TypeInv, ThreadTypes, StageOK
    <3> QED
      BY <3>2 DEF Stages
  <2> QED
    BY <2>1, <2>2
<1>4. ASSUME NEW t \in Threads PROVE shades[t].step = 0 \/ pc[t] # "none"
  BY DEF TypeInv, ThreadTypes, ShadesOK
<1>5. StageOK' /\ StripOK' /\ TextOK'
  BY <1>1, <1>3 DEF TypeInv, ThreadTypes, StageOK, StripOK, TextOK
<1>6. ShadesOK' /\ UploadOK'
  BY <1>1, <1>3, <1>4 DEF TypeInv, ThreadTypes, ShadesOK, UploadOK
<1> QED
  BY <1>1, <1>2, <1>5, <1>6 DEF TypeInv, ThreadTypes

-----------------------------------------------------------------------------
(* A thread: the parts of the invariant its step leaves alone.              *)

\* Thread t goes to another stage; what it knows is right for that stage.
LEMMA StageStep ==
    ASSUME TypeInv, SelectInv, NEW t \in Threads, cmd' = cmd, handle' = handle,
           pc[t] # "none", NEW stage \in Stages, Goto(t, stage), stage # "none",
           stage = "lines" => cmd.file # None
    PROVE  StageOK'
  BY DEF TypeInv, ThreadTypes, StageOK, Goto

LEMMA ShadesStay ==
    ASSUME TypeInv, NEW t \in Threads, cmd' = cmd, shades' = shades,
           \/ pc' = pc
           \/ \E stage \in Stages \ {"none", "begin", "strip", "fading"} : Goto(t, stage)
    PROVE  ShadesOK'
<1>1. \A s \in Threads : pc'[s] = pc[s] \/ pc'[s] \notin {"none", "begin", "strip", "fading"}
  BY DEF TypeInv, ThreadTypes, StageOK, Goto
<1> QED
  BY <1>1 DEF TypeInv, ThreadTypes, ShadesOK

LEMMA UploadStays ==
    ASSUME TypeInv, NEW t \in Threads, cmd' = cmd, up' = up,
           \/ pc' = pc
           \/ \E stage \in Stages \ {"lines"} : Goto(t, stage)
    PROVE  UploadOK'
<1>1. \A s \in Threads : pc'[s] = pc[s] \/ pc'[s] # "lines"
  BY DEF TypeInv, ThreadTypes, StageOK, Goto
<1> QED
  BY <1>1 DEF TypeInv, ThreadTypes, UploadOK

LEMMA TextStays == ASSUME TypeInv, cmd' = cmd, argv3' = argv3, strip' = strip PROVE TextOK' /\ StripOK'
  BY DEF TypeInv, ThreadTypes, TextOK, StripOK

LEMMA MainStays ==
    ASSUME TypeInv, NEW t \in Threads, frame' = frame, opened' \subseteq opened,
           happened' = happened \/ \E m \in AllMishaps : Happens(m)
    PROVE  MainTypes' /\ cmd' = cmd /\ handle' = handle
  BY DEF TypeInv, MainTypes, frame, args, mainVars, Happens

LEMMA LevelType ==
    ASSUME TypeInv, SelectInv, NEW t \in Threads, pc[t] # "none" PROVE Level(t) \in 1 .. 100
<1>1. handle[t] \in Units /\ unit[handle[t]].saved \in 1 .. 100
  BY ThreadUnit DEF TypeInv, ThreadTypes, UnitType
<1>2. cmd.arg = None \/ cmd.arg \in Int
  BY CommandFacts DEF TypeInv, MainTypes
<1> QED
  BY <1>1, <1>2, BrightnessType DEF Level

LEMMA SetColorType ==
    ASSUME TypeInv, SelectInv, NEW t \in Threads, pc[t] # "none", NEW color \in Colour,
           setColor(t, color)
    PROVE  unit' \in [Units -> UnitType]
<1>1. handle[t] \in Units
  BY ThreadUnit DEF TypeInv, ThreadTypes
<1>2. PICK level \in 1 .. 100 : level = Level(t)
  BY LevelType
<1>3. PICK h \in Units : h = handle[t]
  BY <1>1
<1>4. unit' = [unit EXCEPT ![h].shown = color, ![h].level = level]
  BY <1>2, <1>3 DEF setColor
<1>5. unit \in [Units -> UnitType]
  BY DEF TypeInv
<1>6. [unit[h] EXCEPT !.shown = color, !.level = level] \in UnitType
  <2>1. PICK u \in UnitType : u = unit[h]
    BY <1>5
  <2>2. [u EXCEPT !.shown = color] \in UnitType
    BY DEF UnitType
  <2>3. PICK v \in UnitType : v = [u EXCEPT !.shown = color]
    BY <2>2
  <2>4. [v EXCEPT !.level = level] \in UnitType
    BY DEF UnitType
  <2> QED
    BY <2>1, <2>3, <2>4
<1>7. unit' = [unit EXCEPT ![h] = [unit[h] EXCEPT !.shown = color, !.level = level]]
  BY <1>4, <1>5
<1> QED
  BY <1>5, <1>6, <1>7

LEMMA SimpleType == ASSUME TypeInv, SelectInv, NEW t \in Threads, Simple(t) PROVE TypeInv'
<1> USE DEF Simple, At_
<1>1. MainTypes' /\ cmd' = cmd /\ handle' = handle
  BY MainStays
<1>2. StageOK'
  BY <1>1, StageStep DEF Stages
<1>3. ShadesOK' /\ UploadOK' /\ TextOK' /\ StripOK'
  BY <1>1, ShadesStay, UploadStays, TextStays DEF Stages
<1>4. unit' \in [Units -> UnitType]
  <2>1. handle[t] \in Units /\ unit \in [Units -> UnitType]
    BY ThreadUnit DEF TypeInv, ThreadTypes
  <2>2. PICK u \in UnitType : u = unit[handle[t]]
    BY <2>1
  <2>3. cmd.word = "brightness" => makeBrightness(cmd.arg) \in 1 .. 100
    BY BrightnessType, CommandFacts DEF TypeInv, MainTypes
  <2>4. setName(cmd.text) \in {setName(c.text) : c \in Commands} \cup {<<>>}
    BY DEF TypeInv, MainTypes
  <2> DEFINE new == CASE cmd.word = "name"       -> [u EXCEPT !.name = setName(cmd.text)]
                      [] cmd.word = "brightness" -> [u EXCEPT !.saved = makeBrightness(cmd.arg)]
                      [] cmd.word = "start"      -> [u EXCEPT !.running = TRUE]
                      [] cmd.word = "stop"       -> [u EXCEPT !.running = FALSE]
                      [] OTHER                   -> u
  <2>5. new \in UnitType
    <3>1. CASE cmd.word = "name"
      BY <2>4, <3>1 DEF UnitType
    <3>2. CASE cmd.word = "brightness"
      BY <2>3, <3>2 DEF UnitType
    <3>3. CASE cmd.word \notin {"name", "brightness"}
      BY <3>3 DEF UnitType
    <3> QED
      BY <3>1, <3>2, <3>3
  <2>6. unit' = [unit EXCEPT ![handle[t]] = new]
    BY <2>2
  <2> HIDE DEF new
  <2> QED
    BY <2>1, <2>5, <2>6
<1> QED
  BY <1>1, <1>2, <1>3, <1>4 DEF TypeInv, ThreadTypes

LEMMA ShowType == ASSUME TypeInv, SelectInv, NEW t \in Threads, Show(t) PROVE TypeInv'
<1> USE DEF Show, At_
<1>1. MainTypes' /\ cmd' = cmd /\ handle' = handle
  BY MainStays
<1>2. StageOK'
  BY <1>1, StageStep DEF Stages
<1>3. ShadesOK' /\ UploadOK' /\ TextOK' /\ StripOK'
  BY <1>1, ShadesStay, UploadStays, TextStays DEF Stages
<1>4. shades[t].to \in Colour
  BY DEF TypeInv, ThreadTypes, ShadesOK, ShadeType
<1>5. unit' \in [Units -> UnitType]
  BY <1>4, SetColorType
<1> QED
  BY <1>1, <1>2, <1>3, <1>5 DEF TypeInv, ThreadTypes

LEMMA CloseType == ASSUME TypeInv, SelectInv, NEW t \in Threads, Close(t) PROVE TypeInv'
<1> USE DEF Close, At_
<1>1. MainTypes' /\ cmd' = cmd /\ handle' = handle
  BY MainStays
<1>2. StageOK'
  BY <1>1, StageStep DEF Stages
<1>3. ShadesOK' /\ UploadOK' /\ TextOK' /\ StripOK'
  BY <1>1, ShadesStay, UploadStays, TextStays DEF Stages
<1> QED
  BY <1>1, <1>2, <1>3 DEF TypeInv, ThreadTypes

-----------------------------------------------------------------------------
(* The steps of a colour.                                                  *)

LEMMA TextFacts ==
    ASSUME TypeInv
    PROVE  /\ argv3 \in Seq(Byte) /\ Len(cmd.text) \in Nat /\ Len(argv3) = Len(cmd.text) + 1
           /\ argv3[Len(argv3)] = 0
           /\ TextLength \in 0 .. Len(cmd.text)
           /\ argv3[TextLength + 1] = 0 /\ \A j \in 1 .. TextLength : argv3[j] # 0
<1>1. argv3 \in Seq(Byte) /\ Len(argv3) = Len(cmd.text) + 1 /\ argv3[Len(argv3)] = 0
  BY DEF TypeInv, ThreadTypes, TextOK
<1>2. Len(cmd.text) \in Nat
  BY CommandFacts DEF TypeInv, MainTypes
<1>3. TextLength = FirstZero(argv3) - 1
  BY DEF TextLength, FirstZero
<1>4. PICK z \in 1 .. Len(cmd.text) + 1 :
        z = FirstZero(argv3) /\ argv3[z] = 0 /\ \A j \in 1 .. z - 1 : argv3[j] # 0
  BY <1>1, <1>2, FirstZeroPlace
<1> QED
  BY <1>1, <1>2, <1>3, <1>4

LEMMA BeginColorType == ASSUME TypeInv, SelectInv, NEW t \in Threads, BeginColor(t) PROVE TypeInv'
<1> USE DEF BeginColor, At_
<1>1. MainTypes' /\ cmd' = cmd /\ handle' = handle
  BY MainStays DEF AllMishaps
<1>2. StageOK'
  BY <1>1, StageStep DEF Stages
<1>3. UploadOK'
  BY <1>1, UploadStays DEF Stages
<1>4. TextOK' /\ StripOK'
  <2>1. PICK n \in 0 .. Len(cmd.text) : n = TextLength
    BY TextFacts
  <2>2. n \in Nat /\ n <= Len(cmd.text)
    BY <2>1, TextFacts
  <2>3. [NoStrip EXCEPT !.length = n] \in StripType /\ [NoStrip EXCEPT !.length = n].length = n
    BY <2>2 DEF NoStrip, StripType
  <2>4. PICK s \in StripType : s = [NoStrip EXCEPT !.length = n] /\ s.length = n
    BY <2>3
  <2>5. strip' = [strip EXCEPT ![t] = s]
    BY <2>1, <2>4
  <2>6. argv3' = argv3
    OBVIOUS
  <2> QED
    BY <1>1, <2>2, <2>4, <2>5, <2>6 DEF TypeInv, ThreadTypes, StripOK, TextOK
<1>5. ShadesOK'
  <2>1. handle[t] \in Units /\ unit[handle[t]].shown \in [1 .. Half -> Byte]
    BY ThreadUnit DEF TypeInv, ThreadTypes, UnitType, Colour
  <2>2. PICK from \in LongText : from = HexText(unit[handle[t]].shown)
    BY <2>1, HexType, HalfSize DEF LongText
  <2>3. shades' = IF cmd.word = "fade" THEN [shades EXCEPT ![t].from = from] ELSE shades
    BY <2>2
  <2>4. shades \in [Threads -> ShadeType] /\ shades[t].step = 0
    BY DEF TypeInv, ThreadTypes, ShadesOK
  <2>5. shades' \in [Threads -> ShadeType]
    BY <2>3, <2>4 DEF ShadeType
  <2>6. pc' = [pc EXCEPT ![t] = "strip"] /\ pc \in [Threads -> Stages]
    BY DEF Goto, TypeInv, ThreadTypes, StageOK
  <2>7. ASSUME NEW s \in Threads
        PROVE  /\ pc'[s] \in {"none", "begin", "strip"} => shades'[s].step = 0
               /\ pc'[s] = "strip" /\ cmd'.word = "fade" => shades'[s].from \in LongText
               /\ pc'[s] = "fading" => /\ shades'[s].from \in Colour
                                       /\ shades'[s].step < FadeSteps(cmd'.time)
    <3>1. CASE s = t
      BY <1>1, <2>3, <2>4, <2>6, <3>1 DEF ShadeType
    <3>2. CASE s # t
      <4>1. shades'[s] = shades[s] /\ pc'[s] = pc[s]
        BY <2>3, <2>4, <2>6, <3>2
      <4> QED
        BY <1>1, <4>1 DEF TypeInv, ThreadTypes, ShadesOK
    <3> QED
      BY <3>1, <3>2
  <2> QED
    BY <2>5, <2>7 DEF ShadesOK
<1> QED
  BY <1>1, <1>2, <1>3, <1>4, <1>5 DEF TypeInv, ThreadTypes

\* Where the next character comes from.
LEMMA StripFrom ==
    ASSUME TypeInv, NEW t \in Threads, strip[t].i + strip[t].offset < strip[t].length
    PROVE  LET a    == strip[t].i + strip[t].offset
               from == NextChar(argv3, a)
           IN  /\ strip[t] \in StripType /\ a \in Nat /\ strip[t].length <= Len(cmd.text)
               /\ from \in a .. Len(cmd.text)
               /\ argv3[from + 1] # Space /\ \A j \in a .. from - 1 : argv3[j + 1] = Space
<1>1. strip[t] \in StripType /\ strip[t].length <= Len(cmd.text)
  BY DEF TypeInv, ThreadTypes, StripOK
<1>2. PICK a \in Nat : a = strip[t].i + strip[t].offset
  BY <1>1 DEF StripType
<1>3. strip[t].length \in Nat
  BY <1>1 DEF StripType
<1>4. a < Len(argv3)
  BY <1>1, <1>2, <1>3, TextFacts
<1>5. PICK from \in a .. Len(argv3) - 1 :
        /\ from = NextChar(argv3, a)
        /\ argv3[from + 1] # Space /\ \A j \in a .. from - 1 : argv3[j + 1] = Space
  BY <1>4, TextFacts, NextCharPlace
<1>6. from \in a .. Len(cmd.text)
  BY <1>5, TextFacts
<1> QED
  BY <1>1, <1>2, <1>5, <1>6

\* The step, spelled out.
LEMMA StripMove ==
    ASSUME TypeInv, NEW t \in Threads, StripStep(t)
    PROVE  /\ strip[t].i + strip[t].offset < strip[t].length
           /\ \E from \in Nat :
                 /\ from = NextChar(argv3, strip[t].i + strip[t].offset)
                 /\ argv3' = [argv3 EXCEPT ![strip[t].i + 1] = argv3[from + 1]]
                 /\ strip' = [strip EXCEPT ![t] = [i |-> strip[t].i + 1,
                                                   offset |-> from - strip[t].i,
                                                   length |-> strip[t].length]]
<1>1. strip[t].i + strip[t].offset < strip[t].length
  BY DEF StripStep
<1>2. strip \in [Threads -> StripType]
  BY DEF TypeInv, ThreadTypes, StripOK
<1>3. PICK from \in Nat : from = NextChar(argv3, strip[t].i + strip[t].offset)
  BY <1>1, StripFrom
<1>4. argv3' = [argv3 EXCEPT ![strip[t].i + 1] = argv3[from + 1]]
  BY <1>3 DEF StripStep, NextChar
<1>5. strip' = [strip EXCEPT ![t].offset = from - strip[t].i, ![t].i = @ + 1]
  BY <1>3 DEF StripStep, NextChar
<1>6. PICK s \in StripType : s = strip[t]
  BY <1>2
<1>7. strip' = [strip EXCEPT ![t] = [i |-> s.i + 1, offset |-> from - s.i, length |-> s.length]]
  <2>1. [[s EXCEPT !.offset = from - s.i] EXCEPT !.i = s.i + 1]
          = [i |-> s.i + 1, offset |-> from - s.i, length |-> s.length]
    <3>1. PICK v : v = [s EXCEPT !.offset = from - s.i]
      OBVIOUS
    <3>2. v = [i |-> s.i, offset |-> from - s.i, length |-> s.length]
      BY <3>1 DEF StripType
    <3>3. [v EXCEPT !.i = s.i + 1] = [i |-> s.i + 1, offset |-> from - s.i, length |-> s.length]
      BY <3>2
    <3> QED
      BY <3>1, <3>3
  <2>2. strip' = [strip EXCEPT ![t] = [[s EXCEPT !.offset = from - s.i] EXCEPT !.i = s.i + 1]]
    BY <1>2, <1>5, <1>6 DEF StripType
  <2> QED
    BY <2>1, <2>2
<1> QED
  BY <1>1, <1>3, <1>4, <1>6, <1>7

LEMMA StripStepType == ASSUME TypeInv, SelectInv, NEW t \in Threads, StripStep(t) PROVE TypeInv'
<1> USE DEF Stripping, At_
<1>1. MainTypes' /\ cmd' = cmd /\ handle' = handle
  BY MainStays DEF StripStep
<1>2. StageOK'
  BY <1>1 DEF StripStep, TypeInv, ThreadTypes, StageOK
<1>3. ShadesOK' /\ UploadOK'
  BY <1>1, ShadesStay, UploadStays DEF StripStep
<1>4. PICK from \in Nat :
        /\ from = NextChar(argv3, strip[t].i + strip[t].offset)
        /\ argv3' = [argv3 EXCEPT ![strip[t].i + 1] = argv3[from + 1]]
        /\ strip' = [strip EXCEPT ![t] = [i |-> strip[t].i + 1, offset |-> from - strip[t].i,
                                          length |-> strip[t].length]]
  BY StripMove
<1>5. PICK i \in Nat, o \in Nat, l \in Nat, n \in Nat :
        /\ i = strip[t].i /\ o = strip[t].offset /\ l = strip[t].length /\ n = Len(cmd.text)
        /\ i + o < l /\ l <= n /\ from \in i + o .. n /\ Len(argv3) = n + 1
  <2>1. PICK i \in Nat, o \in Nat, l \in Nat, n \in Nat :
          i = strip[t].i /\ o = strip[t].offset /\ l = strip[t].length /\ n = Len(cmd.text)
    <3>1. strip[t].i \in Nat /\ strip[t].offset \in Nat /\ strip[t].length \in Nat
      BY StripMove, StripFrom DEF StripType
    <3>2. Len(cmd.text) \in Nat
      BY TextFacts
    <3> QED
      BY <3>1, <3>2
  <2>2. Len(argv3) = n + 1
    BY <2>1, TextFacts
  <2>3. /\ strip[t].i + strip[t].offset < strip[t].length /\ strip[t].length <= Len(cmd.text)
        /\ from \in strip[t].i + strip[t].offset .. Len(cmd.text)
    BY <1>4, StripMove, StripFrom
  <2>4. i + o < l /\ l <= n /\ from \in i + o .. n
    BY <2>1, <2>3
  <2> QED
    BY <2>1, <2>2, <2>4
<1>6. TextOK'
  <2>1. from + 1 \in 1 .. Len(argv3) /\ i + 1 \in 1 .. Len(argv3) - 1
    <3>1. i + o < l /\ l <= n /\ from \in i + o .. n
      BY <1>5
    <3>2. from + 1 \in 1 .. n + 1 /\ i + 1 \in 1 .. (n + 1) - 1
      BY <3>1
    <3>3. Len(argv3) = n + 1
      BY <1>5
    <3> QED
      BY <3>2, <3>3
  <2>2. argv3[from + 1] \in Byte
    BY <2>1, TextFacts, ElementOfSeq
  <2>3. argv3' \in Seq(Byte) /\ Len(argv3') = Len(argv3) /\ argv3'[Len(argv3)] = argv3[Len(argv3)]
    <3>1. argv3 \in Seq(Byte) /\ i + 1 \in 1 .. Len(argv3) /\ i + 1 # Len(argv3)
          /\ Len(argv3) \in 1 .. Len(argv3)
      <4>1. Len(argv3) = n + 1 /\ i + 1 \in 1 .. (n + 1) - 1
        BY <1>5, <2>1
      <4>2. i + 1 \in 1 .. n + 1 /\ i + 1 # n + 1 /\ n + 1 \in 1 .. n + 1
        BY <4>1
      <4> QED
        BY <4>1, <4>2, TextFacts
    <3>2. PICK text : text = [argv3 EXCEPT ![i + 1] = argv3[from + 1]]
      OBVIOUS
    <3>3. /\ text \in Seq(Byte) /\ Len(text) = Len(argv3)
          /\ \A j \in 1 .. Len(argv3) : j # i + 1 => text[j] = argv3[j]
      BY <2>2, <3>1, <3>2, ExceptSeq
    <3>4. argv3' = text
      BY <1>4, <1>5, <3>2
    <3> QED
      BY <3>1, <3>3, <3>4
  <2> QED
    BY <1>1, <2>3, TextFacts DEF TextOK
<1>7. StripOK'
  <2>1. [i |-> i + 1, offset |-> from - i, length |-> l] \in StripType
    BY <1>5 DEF StripType
  <2>2. PICK s \in StripType : s = [i |-> i + 1, offset |-> from - i, length |-> l] /\ s.length = l
    BY <2>1
  <2>3. strip' = [strip EXCEPT ![t] = s]
    BY <1>4, <1>5, <2>2
  <2> QED
    BY <1>1, <1>5, <2>2, <2>3 DEF StripOK, TypeInv, ThreadTypes
<1>8. unit' = unit
  BY DEF StripStep
<1> QED
  BY <1>1, <1>2, <1>3, <1>6, <1>7, <1>8 DEF TypeInv, ThreadTypes

\* The text taken for a colour is made of bytes, however the threads have mixed it.
LEMMA TypedColorType ==
    ASSUME TypeInv, NEW t \in Threads PROVE TypedColor(t) \in Colour
<1>1. PICK o \in Nat, l \in Nat, n \in Nat :
        /\ o = strip[t].offset /\ l = strip[t].length /\ n = Len(cmd.text)
        /\ l <= n /\ Len(argv3) = n + 1
  <2>1. strip[t] \in StripType /\ strip[t].length <= Len(cmd.text)
    BY DEF TypeInv, ThreadTypes, StripOK
  <2>2. strip[t].offset \in Nat /\ strip[t].length \in Nat
    BY <2>1 DEF StripType
  <2>3. PICK n \in Nat : n = Len(cmd.text) /\ Len(argv3) = n + 1
    BY TextFacts
  <2>4. PICK o \in Nat, l \in Nat : o = strip[t].offset /\ l = strip[t].length
    BY <2>2
  <2>5. l <= n
    BY <2>1, <2>3, <2>4
  <2> QED
    BY <2>3, <2>4, <2>5
<1>2. l - o <= Len(argv3) /\ l - o \in Int
  BY <1>1
<1>3. SubSeq(argv3, 1, l - o) \in Seq(Byte)
  <2>1. argv3 \in Seq(Byte) /\ l - o <= Len(argv3)
    BY <1>2, TextFacts
  <2>2. CASE l - o < 1
    <3>1. SubSeq(argv3, 1, l - o) = << >>
      BY <1>1, <2>1, <2>2
    <3>2. << >> \in Seq(Byte)
      BY EmptySeq
    <3> QED
      BY <3>1, <3>2
  <2>3. CASE ~(l - o < 1)
    <3>1. l - o \in 1 .. Len(argv3)
      BY <1>1, <2>3
    <3> QED
      BY <2>1, <3>1
  <2> QED
    BY <2>2, <2>3
<1> QED
  BY <1>1, <1>3, ColorType DEF TypedColor, Colour

LEMMA StripEndType == ASSUME TypeInv, SelectInv, NEW t \in Threads, StripEnd(t) PROVE TypeInv'
<1> USE DEF StripEnd, Stripping, At_
<1>1. MainTypes' /\ cmd' = cmd /\ handle' = handle
  BY MainStays
<1>2. StageOK'
  BY <1>1, StageStep DEF Stages
<1>3. UploadOK' /\ TextOK' /\ StripOK'
  BY <1>1, UploadStays, TextStays DEF Stages
<1>4. ShadesOK'
  <2>1. PICK to \in Colour : to = TypedColor(t)
    BY TypedColorType
  <2>2. PICK shade \in ShadeType :
          shade = shades[t] /\ shade.step = 0 /\ (cmd.word = "fade" => shade.from \in LongText)
    BY DEF TypeInv, ThreadTypes, ShadesOK
  <2>3. cmd.word = "fade" => makeColor(shade.from, TRUE) \in Colour
    <3>1. cmd.word = "fade" => shade.from \in Seq(Byte)
      <4>1. PICK n \in Nat : n = 2 * Half
        BY HalfSize
      <4>2. \A text \in [1 .. n -> Byte] : text \in Seq(Byte)
        OBVIOUS
      <4> QED
        BY <2>2, <4>1, <4>2 DEF LongText
    <3> QED
      BY <3>1, ColorType DEF Colour
  <2>4. PICK from \in Colour \cup LongText :
          /\ from = IF cmd.word = "fade" THEN makeColor(shade.from, TRUE) ELSE shade.from
          /\ cmd.word = "fade" => from \in Colour
    BY <2>2, <2>3 DEF ShadeType
  <2>5. [[shade EXCEPT !.to = to] EXCEPT !.from = from]
          = [from |-> from, to |-> to, step |-> 0]
    <3>1. PICK v : v = [shade EXCEPT !.to = to]
      OBVIOUS
    <3>2. v = [from |-> shade.from, to |-> to, step |-> 0]
      BY <2>2, <3>1 DEF ShadeType
    <3>3. [v EXCEPT !.from = from] = [from |-> from, to |-> to, step |-> 0]
      BY <3>2
    <3> QED
      BY <3>1, <3>3
  <2>6. shades' = [shades EXCEPT ![t] = [from |-> from, to |-> to, step |-> 0]]
    <3>1. shades' = [shades EXCEPT ![t].to = to,
                       ![t].from = IF cmd.word = "fade" THEN makeColor(@, TRUE) ELSE @]
      BY <2>1
    <3>2. shades \in [Threads -> ShadeType]
      BY DEF TypeInv, ThreadTypes, ShadesOK
    <3>3. shades' = [shades EXCEPT ![t] = [[shade EXCEPT !.to = to] EXCEPT !.from = from]]
      BY <2>2, <2>4, <3>1, <3>2 DEF ShadeType
    <3> QED
      BY <2>5, <3>3
  <2>7. [from |-> from, to |-> to, step |-> 0] \in ShadeType
    BY DEF ShadeType
  <2>8. PICK stage \in {"fading", "show"} :
          /\ pc' = [pc EXCEPT ![t] = stage]
          /\ stage = "fading" <=> cmd.word = "fade"
    BY DEF Goto
  <2>9. pc \in [Threads -> Stages] /\ shades \in [Threads -> ShadeType]
    BY DEF TypeInv, ThreadTypes, ShadesOK, StageOK
  <2>10. ASSUME NEW s \in Threads
         PROVE  /\ pc'[s] \in {"none", "begin", "strip"} => shades'[s].step = 0
                /\ pc'[s] = "strip" /\ cmd'.word = "fade" => shades'[s].from \in LongText
                /\ pc'[s] = "fading" => /\ shades'[s].from \in Colour
                                        /\ shades'[s].step < FadeSteps(cmd'.time)
    <3>1. CASE s = t
      <4>1. FadeSteps(cmd.time) \in Nat /\ FadeSteps(cmd.time) >= 1
        BY StepsType
      <4>2. shades'[s].from = from /\ shades'[s].step = 0
        <5>1. shades'[s] = [from |-> from, to |-> to, step |-> 0]
          BY <2>6, <2>9, <3>1
        <5>2. [from |-> from, to |-> to, step |-> 0].from = from
          OBVIOUS
        <5>3. [from |-> from, to |-> to, step |-> 0].step = 0
          OBVIOUS
        <5> QED
          BY <5>1, <5>2, <5>3
      <4>3. pc'[s] = stage
        BY <2>8, <2>9, <3>1
      <4>4. 0 < FadeSteps(cmd'.time)
        BY <1>1, <4>1
      <4> QED
        BY <1>1, <2>4, <2>8, <4>2, <4>3, <4>4
    <3>2. CASE s # t
      <4>1. shades'[s] = shades[s] /\ pc'[s] = pc[s]
        BY <2>6, <2>8, <2>9, <3>2
      <4> QED
        BY <1>1, <4>1 DEF TypeInv, ThreadTypes, ShadesOK
    <3> QED
      BY <3>1, <3>2
  <2> QED
    BY <2>6, <2>7, <2>9, <2>10 DEF ShadesOK
<1> QED
  BY <1>1, <1>2, <1>3, <1>4 DEF TypeInv, ThreadTypes

\* The step of a fade, spelled out.
LEMMA FadeMove ==
    ASSUME TypeInv, NEW t \in Threads, FadeStep(t)
    PROVE  /\ shades[t] \in ShadeType /\ shades[t].from \in Colour
           /\ FadeSteps(cmd.time) \in Nat /\ shades[t].step + 1 \in 1 .. FadeSteps(cmd.time)
           /\ shades' = [shades EXCEPT ![t] = [from |-> shades[t].from, to |-> shades[t].to,
                                               step |-> shades[t].step + 1]]
           /\ setColor(t, FadeColor(shades[t].from, shades[t].to, FadeSteps(cmd.time),
                                    shades[t].step + 1))
           /\ pc' = [pc EXCEPT ![t] = IF shades[t].step + 1 = FadeSteps(cmd.time)
                                      THEN "close" ELSE "fading"]
<1>1. /\ shades \in [Threads -> ShadeType] /\ shades[t] \in ShadeType
      /\ shades[t].from \in Colour /\ shades[t].step < FadeSteps(cmd.time)
  BY DEF FadeStep, At_, TypeInv, ThreadTypes, ShadesOK
<1>2. PICK n \in Nat, k \in Nat : n = FadeSteps(cmd.time) /\ k = shades[t].step /\ k < n
  BY <1>1, StepsType DEF ShadeType
<1>3. k + 1 \in 1 .. n
  BY <1>2
<1>4. shades' = [shades EXCEPT ![t] = [from |-> shades[t].from, to |-> shades[t].to, step |-> k + 1]]
  <2>1. shades' = [shades EXCEPT ![t].step = k + 1]
    BY <1>2 DEF FadeStep
  <2>2. PICK shade \in ShadeType : shade = shades[t]
    BY <1>1
  <2>3. [shade EXCEPT !.step = k + 1] = [from |-> shade.from, to |-> shade.to, step |-> k + 1]
    BY DEF ShadeType
  <2>4. shades' = [shades EXCEPT ![t] = [shade EXCEPT !.step = k + 1]]
    BY <1>1, <2>1, <2>2
  <2> QED
    BY <2>2, <2>3, <2>4
<1>5. /\ setColor(t, FadeColor(shades[t].from, shades[t].to, n, k + 1))
      /\ pc' = [pc EXCEPT ![t] = IF k + 1 = n THEN "close" ELSE "fading"]
  BY <1>2 DEF FadeStep, Goto
<1> QED
  BY <1>1, <1>2, <1>3, <1>4, <1>5

LEMMA FadeStepType == ASSUME TypeInv, SelectInv, NEW t \in Threads, FadeStep(t) PROVE TypeInv'
<1>1. MainTypes' /\ cmd' = cmd /\ handle' = handle
  BY MainStays DEF FadeStep
<1>2. PICK from \in Colour, to \in Colour, n \in Nat, k \in Nat :
        /\ from = shades[t].from /\ to = shades[t].to /\ n = FadeSteps(cmd.time)
        /\ k = shades[t].step + 1 /\ k \in 1 .. n
        /\ shades' = [shades EXCEPT ![t] = [from |-> from, to |-> to, step |-> k]]
        /\ setColor(t, FadeColor(from, to, n, k))
        /\ pc' = [pc EXCEPT ![t] = IF k = n THEN "close" ELSE "fading"]
  BY FadeMove DEF ShadeType
<1>3. pc[t] = "fading"
  BY DEF FadeStep, At_
<1>4. StageOK'
  BY <1>1, <1>2, <1>3, StageStep DEF Stages, Goto
<1>5. UploadOK'
  <2>1. \E stage \in Stages \ {"lines"} : Goto(t, stage)
    <3>1. Goto(t, "close") \/ Goto(t, "fading")
      BY <1>2 DEF Goto
    <3> QED
      BY <3>1 DEF Stages
  <2> QED
    BY <1>1, <2>1, UploadStays DEF FadeStep
<1>6. TextOK' /\ StripOK'
  BY <1>1, TextStays DEF FadeStep
<1>7. unit' \in [Units -> UnitType]
  <2>1. PICK color \in Colour : color = FadeColor(from, to, n, k)
    BY <1>2, FadeType DEF Colour
  <2> QED
    BY <1>2, <1>3, <2>1, SetColorType
<1>8. ShadesOK'
  <2>1. pc \in [Threads -> Stages] /\ shades \in [Threads -> ShadeType]
    BY DEF TypeInv, ThreadTypes, ShadesOK, StageOK
  <2>2. [from |-> from, to |-> to, step |-> k] \in ShadeType
    BY <1>2 DEF ShadeType
  <2>3. ASSUME NEW s \in Threads
        PROVE  /\ pc'[s] \in {"none", "begin", "strip"} => shades'[s].step = 0
               /\ pc'[s] = "strip" /\ cmd'.word = "fade" => shades'[s].from \in LongText
               /\ pc'[s] = "fading" => /\ shades'[s].from \in Colour
                                       /\ shades'[s].step < FadeSteps(cmd'.time)
    <3>1. CASE s = t
      <4>1. shades'[s] = [from |-> from, to |-> to, step |-> k]
            /\ pc'[s] = IF k = n THEN "close" ELSE "fading"
        BY <1>2, <2>1, <3>1
      <4> QED
        BY <1>1, <1>2, <4>1
    <3>2. CASE s # t
      <4>1. shades'[s] = shades[s] /\ pc'[s] = pc[s]
        BY <1>2, <2>1, <3>2
      <4> QED
        BY <1>1, <4>1 DEF TypeInv, ThreadTypes, ShadesOK
    <3> QED
      BY <3>1, <3>2
  <2> QED
    BY <1>2, <2>1, <2>2, <2>3 DEF ShadesOK
<1> QED
  BY <1>1, <1>4, <1>5, <1>6, <1>7, <1>8 DEF TypeInv, ThreadTypes

-----------------------------------------------------------------------------
(* The steps of an upload.                                                 *)

\* Thread t uploads a file, which is well formed.
LEMMA FileFacts ==
    ASSUME TypeInv, NEW t \in Threads, pc[t] = "lines"
    PROVE  /\ WellFormed(cmd.file) /\ up[t] \in UpType /\ up[t].device \in 1 .. cmd.file.devices
           /\ Len(cmd.file.lines) \in Nat /\ cmd.file.devices \in Nat /\ cmd.file.devices > 0
<1>1. WellFormed(cmd.file)
  BY CommandFacts DEF TypeInv, MainTypes, ThreadTypes, StageOK
<1>2. cmd.file.lines \in Seq([hold : HexDigits, fade : HexDigits, colors : Seq([1 .. Half -> HexDigits])])
  BY <1>1 DEF WellFormed
<1>3. Len(cmd.file.lines) \in Nat /\ cmd.file.devices \in Nat /\ cmd.file.devices > 0
  BY <1>1, <1>2 DEF WellFormed
<1> QED
  BY <1>1, <1>3 DEF TypeInv, ThreadTypes, UploadOK

\* The next line, with the rest as it was.
LEMMA NextLineFacts ==
    ASSUME NEW u \in UpType
    PROVE  NextLine(u) = [line |-> (u.line + 1) % LineWrap, active |-> u.active, device |-> u.device,
                          loopStart |-> u.loopStart, load |-> u.load]
           /\ NextLine(u) \in UpType
<1>1. (u.line + 1) % LineWrap \in 0 .. LineWrap - 1
  BY WrapAssumption DEF UpType
<1>2. PICK l \in 0 .. LineWrap - 1 : l = (u.line + 1) % LineWrap
  BY <1>1
<1>3. NextLine(u) = [u EXCEPT !.line = l]
  BY <1>2 DEF NextLine, UpType
<1> QED
  BY <1>2, <1>3 DEF UpType

LEMMA ReadHeaderFacts ==
    ASSUME NEW u \in UpType, NEW file, WellFormed(file), NEW id \in Nat,
           NEW blank \in BOOLEAN
    PROVE  LET multi  == file.version = "multi"
               active == IF multi THEN (u.active * 10 ^ file.digits + file.active) % 256
                                  ELSE file.active
               skip   == Skip(file)
               device == IF multi THEN (id % file.devices) + 1 ELSE 1
               load   == IF blank /\ active - skip < SLOTS THEN (active - skip) % 256 ELSE u.load
           IN  /\ ReadHeader(u, file, id, blank) = [line |-> u.line, active |-> active,
                        device |-> device, loopStart |-> skip, load |-> load]
               /\ ReadHeader(u, file, id, blank) \in UpType
               /\ device \in 1 .. file.devices
<1>1. /\ file.devices \in Nat /\ file.devices > 0 /\ file.digits \in Nat /\ file.active \in Int
      /\ file.loopStart \in Int
  <2>1. /\ file.devices \in Nat \ {0} /\ file.digits \in Nat /\ file.active \in Byte
        /\ file.loopStart \in Nat \ {0}
    BY DEF WellFormed
  <2> QED
    BY <2>1 DEF Byte
<1> DEFINE multi  == file.version = "multi"
           active == IF multi THEN (u.active * 10 ^ file.digits + file.active) % 256
                              ELSE file.active
           skip   == Skip(file)
           device == IF multi THEN (id % file.devices) + 1 ELSE 1
           load   == IF blank /\ active - skip < SLOTS THEN (active - skip) % 256 ELSE u.load
<1>2. u.active \in Int /\ u.load \in Int
  BY DEF UpType
<1>3. active \in Int
  <2>1. PICK p \in Int : p = 10 ^ file.digits
    BY <1>1
  <2>2. (u.active * p + file.active) % 256 \in Int
    BY <1>1, <1>2
  <2> QED
    BY <1>1, <2>1, <2>2
<1>4. skip \in Int
  BY <1>1 DEF Skip
<1>5. device \in 1 .. file.devices /\ device \in Nat
  <2>1. PICK d \in Nat : d = file.devices /\ d > 0
    BY <1>1
  <2>2. id % d \in 0 .. d - 1
    BY <2>1
  <2> QED
    BY <2>1, <2>2
<1>6. load \in Int
  <2> HIDE DEF active, skip
  <2> QED
    BY <1>2, <1>3, <1>4
<1>7. ReadHeader(u, file, id, blank)
        = [u EXCEPT !.active = active, !.loopStart = skip, !.device = device, !.load = load]
  BY DEF ReadHeader, UpType
<1> HIDE DEF active, skip, device, load
<1>8. [u EXCEPT !.active = active, !.loopStart = skip, !.device = device, !.load = load]
        = [line |-> u.line, active |-> active, device |-> device, loopStart |-> skip, load |-> load]
  <2>1. PICK v \in UpType : v = [u EXCEPT !.active = active]
    BY <1>3 DEF UpType
  <2>2. PICK w \in UpType : w = [v EXCEPT !.loopStart = skip]
    BY <1>4 DEF UpType
  <2>3. PICK x \in UpType : x = [w EXCEPT !.device = device]
    BY <1>5 DEF UpType
  <2>4. PICK y \in UpType : y = [x EXCEPT !.load = load]
    BY <1>6 DEF UpType
  <2>5. /\ y.line = u.line /\ y.active = active /\ y.loopStart = skip /\ y.device = device
        /\ y.load = load
    BY <2>1, <2>2, <2>3, <2>4 DEF UpType
  <2>6. y = [line |-> u.line, active |-> active, device |-> device, loopStart |-> skip,
             load |-> load]
    BY <2>5 DEF UpType
  <2> QED
    BY <2>1, <2>2, <2>3, <2>4, <2>6
<1>9. ReadHeader(u, file, id, blank) = [line |-> u.line, active |-> active, device |-> device,
                                        loopStart |-> skip, load |-> load]
  BY <1>7, <1>8
<1>10. ReadHeader(u, file, id, blank) \in UpType
  BY <1>3, <1>4, <1>5, <1>6, <1>9 DEF UpType
<1> QED
  BY <1>5, <1>9, <1>10 DEF active, skip, device, load

\* One part of a unit, or several, get another value.
LEMMA BeginUploadType == ASSUME TypeInv, SelectInv, NEW t \in Threads, BeginUpload(t) PROVE TypeInv'
<1> USE DEF BeginUpload, At_
<1>1. MainTypes' /\ cmd' = cmd /\ handle' = handle
  <2>1. frame' = frame /\ opened' = opened /\ (happened' = happened \/ Happens("uninit"))
    OBVIOUS
  <2> QED
    BY <2>1, MainStays DEF AllMishaps
<1>2. StageOK'
  BY <1>1, StageStep DEF Stages
<1>3. ShadesOK' /\ TextOK' /\ StripOK'
  BY <1>1, ShadesStay, TextStays DEF Stages
<1>4. UploadOK'
  <2>1. PICK g \in Garbage : up' = [up EXCEPT ![t] = UploadStart(g)]
    OBVIOUS
  <2>2. PICK u \in UpType : u = UploadStart(g) /\ u.device = 1
    BY BlankTypes DEF UploadStart
  <2>3. 1 \in 1 .. cmd.file.devices
    <3>1. WellFormed(cmd.file)
      BY CommandFacts DEF TypeInv, MainTypes
    <3> QED
      BY <3>1 DEF WellFormed
  <2>4. pc' = [pc EXCEPT ![t] = "lines"] /\ up' = [up EXCEPT ![t] = u]
    BY <2>1, <2>2 DEF Goto
  <2> QED
    BY <1>1, <2>2, <2>3, <2>4 DEF UploadOK, TypeInv, ThreadTypes, StageOK
<1>5. unit' \in [Units -> UnitType]
  <2>1. PICK h \in Units : h = handle[t]
    BY ThreadUnit DEF TypeInv, ThreadTypes
  <2>2. PICK u \in UnitType : u = unit[h]
    BY DEF TypeInv
  <2>3. unit' = [unit EXCEPT ![h].running = FALSE, ![h].shown = Black, ![h].level = u.saved]
    BY <2>1, <2>2
  <2>4. unit \in [Units -> UnitType]
    BY DEF TypeInv
  <2>5. unit' = [unit EXCEPT ![h] = [[[u EXCEPT !.running = FALSE] EXCEPT !.shown = Black]
                                        EXCEPT !.level = u.saved]]
    BY <2>2, <2>3, <2>4
  <2>6. PICK v \in UnitType : v = [u EXCEPT !.running = FALSE]
    BY DEF UnitType
  <2>7. PICK w \in UnitType : w = [v EXCEPT !.shown = Black]
    BY BlankTypes DEF UnitType
  <2>8. u.saved \in 1 .. 100
    BY DEF UnitType
  <2>9. PICK x \in UnitType : x = [w EXCEPT !.level = u.saved]
    BY <2>8 DEF UnitType
  <2> QED
    BY <2>4, <2>5, <2>6, <2>7, <2>9
<1> QED
  BY <1>1, <1>2, <1>3, <1>4, <1>5 DEF TypeInv, ThreadTypes

\* A line that changes only what the thread knows.
LEMMA LineRead ==
    ASSUME TypeInv, SelectInv, NEW t \in Threads, pc[t] = "lines", cmd' = cmd, handle' = handle,
           NEW u \in UpType, up' = [up EXCEPT ![t] = u], u.device \in 1 .. cmd.file.devices,
           NEW stage \in {"lines", "close"}, pc' = [pc EXCEPT ![t] = stage]
    PROVE  StageOK' /\ UploadOK'
  BY DEF TypeInv, ThreadTypes, StageOK, UploadOK, Stages

LEMMA UploadVersionType ==
    ASSUME TypeInv, SelectInv, NEW t \in Threads, UploadVersion(t) PROVE TypeInv'
<1> USE DEF UploadVersion, AtLine, At_
<1>1. MainTypes' /\ cmd' = cmd /\ handle' = handle
  BY MainStays
<1>2. PICK u \in UpType : u = NextLine(up[t]) /\ u.device \in 1 .. cmd.file.devices
  BY FileFacts, NextLineFacts
<1>3. PICK stage \in {"lines", "close"} : pc' = [pc EXCEPT ![t] = stage]
  BY DEF Goto
<1>4. up' = [up EXCEPT ![t] = u]
  BY <1>2
<1>5. StageOK' /\ UploadOK'
  BY <1>1, <1>2, <1>3, <1>4, LineRead
<1>6. ShadesOK' /\ TextOK' /\ StripOK'
  <2>1. Goto(t, stage) /\ stage \in Stages \ {"none", "begin", "strip", "fading"}
    BY <1>3 DEF Goto, Stages
  <2> QED
    BY <1>1, <2>1, ShadesStay, TextStays
<1>7. unit' = unit
  OBVIOUS
<1> QED
  BY <1>1, <1>5, <1>6, <1>7 DEF TypeInv, ThreadTypes

LEMMA UploadHeaderType ==
    ASSUME TypeInv, SelectInv, NEW t \in Threads, UploadHeader(t) PROVE TypeInv'
<1> USE DEF UploadHeader, AtLine, At_
<1>1. MainTypes' /\ cmd' = cmd /\ handle' = handle
  BY MainStays
<1>2. t - 1 \in Nat
  BY DEF Threads
<1>3. PICK v \in UpType : /\ v = ReadHeader(up[t], cmd.file, t - 1, cmd.word = "upload")
                          /\ v.device \in 1 .. cmd.file.devices
  <2>1. PICK blank \in BOOLEAN : blank = (cmd.word = "upload")
    OBVIOUS
  <2>2. WellFormed(cmd.file) /\ up[t] \in UpType
    BY FileFacts
  <2>3. ReadHeader(up[t], cmd.file, t - 1, blank) \in UpType
        /\ ReadHeader(up[t], cmd.file, t - 1, blank).device \in 1 .. cmd.file.devices
    BY <1>2, <2>2, ReadHeaderFacts
  <2> QED
    BY <2>1, <2>3
<1>4. PICK u \in UpType : u = NextLine(v) /\ u.device \in 1 .. cmd.file.devices
  BY <1>3, NextLineFacts
<1>5. up' = [up EXCEPT ![t] = u]
  BY <1>3, <1>4 DEF TypeInv, ThreadTypes, UploadOK
<1>6. pc' = [pc EXCEPT ![t] = "lines"]
  BY DEF TypeInv, ThreadTypes, StageOK
<1>7. StageOK' /\ UploadOK'
  BY <1>1, <1>4, <1>5, <1>6, LineRead
<1>8. ShadesOK' /\ TextOK' /\ StripOK'
  BY <1>1, ShadesStay, TextStays
<1>9. unit' = unit
  OBVIOUS
<1> QED
  BY <1>1, <1>7, <1>8, <1>9 DEF TypeInv, ThreadTypes

LineType == [hold : HexDigits, fade : HexDigits, colors : Seq([1 .. Half -> HexDigits])]

\* What a line becomes in a slot: the digits of its column, two to a byte.
LEMMA SlotFacts ==
    ASSUME NEW line \in LineType, NEW device \in 1 .. Len(line.colors)
    PROVE  /\ line.colors[device] \in [1 .. Half -> HexDigits]
           /\ SlotOf(line, device).times = ((line.hold - 48) * 16 + line.fade - 48) % 256
           /\ SlotOf(line, device).color = Pack(line.colors[device])
           /\ SlotOf(line, device) \in SlotType
<1>1. line.colors \in Seq([1 .. Half -> HexDigits]) /\ line.hold \in HexDigits /\ line.fade \in HexDigits
  BY DEF LineType
<1>2. PICK text \in [1 .. Half -> HexDigits] : text = line.colors[device]
  BY <1>1, ElementOfSeq
<1>3. HexDigits \subseteq Byte /\ HexDigits \subseteq Int
  BY DEF HexDigits, Byte
<1>4. text \in [1 .. Half -> Byte]
  BY <1>2, <1>3
<1>5. makeColor(text, FALSE) = Pack(text)
  <2>1. PICK full : full = FALSE
    OBVIOUS
  <2>2. Standard(text, full) = text
    BY <1>4, <2>1, StandardShort
  <2> QED
    BY <2>1, <2>2 DEF makeColor
<1>6. Pack(text) \in [1 .. Half \div 2 -> Byte]
  <2>1. PICK n \in Nat : n = Half \div 2 /\ Half = 2 * n
    BY HalfSize
  <2> QED
    BY <1>4, <2>1, PackType
<1>7. ((line.hold - 48) * 16 + line.fade - 48) % 256 \in Byte
  <2>1. PICK a \in Int, b \in Int : a = line.hold /\ b = line.fade
    BY <1>1, <1>3
  <2>2. ((a - 48) * 16 + b - 48) % 256 \in 0 .. 255
    OBVIOUS
  <2> QED
    BY <2>1, <2>2 DEF Byte
<1>8. SlotOf(line, device)
        = [times |-> ((line.hold - 48) * 16 + line.fade - 48) % 256, color |-> Pack(text)]
  BY <1>2, <1>5 DEF SlotOf
<1> QED
  BY <1>2, <1>6, <1>7, <1>8 DEF SlotType

\* The line thread t is at, and the column it reads.
LEMMA LineFacts ==
    ASSUME TypeInv, NEW t \in Threads, AtLine(t), LineNo(t) > 2
    PROVE  /\ LineNo(t) - 2 \in 1 .. Len(cmd.file.lines)
           /\ cmd.file.lines[LineNo(t) - 2] \in LineType
           /\ up[t].device \in 1 .. Len(cmd.file.lines[LineNo(t) - 2].colors)
<1>1. /\ WellFormed(cmd.file) /\ up[t] \in UpType /\ up[t].device \in 1 .. cmd.file.devices
      /\ Len(cmd.file.lines) \in Nat
  BY FileFacts DEF AtLine, At_
<1>2. PICK n \in Nat, k \in Nat : n = Len(cmd.file.lines) /\ k = LineNo(t) /\ k > 2 /\ k < 3 + n
  BY <1>1 DEF AtLine, LineNo, LineCount, UpType
<1>3. k - 2 \in 1 .. n
  BY <1>2
<1>4. cmd.file.lines \in Seq(LineType)
  BY <1>1 DEF WellFormed, LineType
<1>5. cmd.file.lines[k - 2] \in LineType
  BY <1>2, <1>3, <1>4, ElementOfSeq
<1>6. cmd.file.devices <= Len(cmd.file.lines[k - 2].colors)
  <2>1. k - 2 \in DOMAIN cmd.file.lines
    BY <1>2, <1>3, <1>4
  <2> QED
    BY <1>1, <2>1 DEF WellFormed
<1>7. up[t].device \in 1 .. Len(cmd.file.lines[k - 2].colors)
  <2>1. cmd.file.lines[k - 2].colors \in Seq([1 .. Half -> HexDigits])
    BY <1>5 DEF LineType
  <2>2. PICK l \in Nat : l = Len(cmd.file.lines[k - 2].colors)
    BY <2>1
  <2>3. cmd.file.devices \in Nat
    BY <1>1 DEF WellFormed
  <2> QED
    BY <1>1, <1>6, <2>2, <2>3
<1> QED
  BY <1>2, <1>3, <1>5, <1>7

LEMMA UploadSlotType == ASSUME TypeInv, SelectInv, NEW t \in Threads, UploadSlot(t) PROVE TypeInv'
<1>1. AtLine(t) /\ LineNo(t) > 2 /\ LoadLine(t) /\ Advance(t) /\ pc[t] = "lines"
  BY DEF UploadSlot, AtLine, At_
<1>2. MainTypes' /\ cmd' = cmd /\ handle' = handle
  <2>1. frame' = frame /\ opened' = opened /\ (happened' = happened \/ Happens("hex_times"))
    BY DEF UploadSlot, LoadLine
  <2> QED
    BY <2>1, MainStays DEF AllMishaps
<1>3. PICK u \in UpType : u = NextLine(up[t]) /\ u.device \in 1 .. cmd.file.devices
  BY <1>1, FileFacts, NextLineFacts
<1>4. up' = [up EXCEPT ![t] = u]
  BY <1>1, <1>3 DEF Advance
<1>5. pc' = [pc EXCEPT ![t] = "lines"] /\ pc' = pc
  BY <1>1 DEF UploadSlot, TypeInv, ThreadTypes, StageOK
<1>6. StageOK' /\ UploadOK'
  BY <1>1, <1>2, <1>3, <1>4, <1>5, LineRead
<1>7. ShadesOK' /\ TextOK' /\ StripOK'
  BY <1>2, <1>5, ShadesStay, TextStays DEF UploadSlot
<1>8. unit' \in [Units -> UnitType]
  <2>1. unit \in [Units -> UnitType]
    BY DEF TypeInv
  <2>2. CASE ~ToLoad(up[t])
    BY <1>1, <2>1, <2>2 DEF LoadLine
  <2>3. CASE ToLoad(up[t])
    <3>1. PICK h \in Units : h = handle[t]
      BY <1>1, ThreadUnit DEF TypeInv, ThreadTypes
    <3>2. PICK slot \in SlotType : slot = SlotOf(cmd.file.lines[LineNo(t) - 2], up[t].device)
      BY <1>1, LineFacts, SlotFacts
    <3>3. PICK k : k = Target(up[t])
      OBVIOUS
    <3>4. unit' = [unit EXCEPT ![h].slots[k] = slot]
      BY <1>1, <2>3, <3>1, <3>2, <3>3 DEF LoadLine
    <3>5. PICK v \in UnitType : v = unit[h]
      BY <2>1
    <3>6. [v.slots EXCEPT ![k] = slot] \in [0 .. SLOTS - 1 -> SlotType]
      BY DEF UnitType
    <3>7. [v EXCEPT !.slots = [v.slots EXCEPT ![k] = slot]] \in UnitType
      BY <3>6 DEF UnitType
    <3>8. unit' = [unit EXCEPT ![h] = [v EXCEPT !.slots = [v.slots EXCEPT ![k] = slot]]]
      BY <2>1, <3>4, <3>5 DEF UnitType
    <3> QED
      BY <2>1, <3>7, <3>8
  <2> QED
    BY <2>2, <2>3
<1> QED
  BY <1>2, <1>6, <1>7, <1>8 DEF TypeInv, ThreadTypes

LEMMA UploadEndType == ASSUME TypeInv, SelectInv, NEW t \in Threads, UploadEnd(t) PROVE TypeInv'
<1> USE DEF UploadEnd, At_
<1>1. MainTypes' /\ cmd' = cmd /\ handle' = handle
  BY MainStays
<1>2. StageOK'
  BY <1>1, StageStep DEF Stages
<1>3. ShadesOK' /\ UploadOK' /\ TextOK' /\ StripOK'
  BY <1>1, ShadesStay, UploadStays, TextStays DEF Stages
<1>4. unit' \in [Units -> UnitType]
  <2>1. PICK h \in Units : h = handle[t]
    BY ThreadUnit DEF TypeInv, ThreadTypes
  <2>2. up[t].active - up[t].loopStart \in Int
    BY FileFacts DEF UpType
  <2>3. PICK n \in 1 .. SLOTS : n = activeSlotsOf(up[t].active - up[t].loopStart)
    BY <2>2, ActiveType
  <2>4. unit \in [Units -> UnitType]
    BY DEF TypeInv
  <2>5. PICK u \in UnitType : u = unit[h]
    BY <2>4
  <2>6. unit' = [unit EXCEPT ![h].active = n, ![h].running = TRUE]
    BY <2>1, <2>3
  <2>7. unit' = [unit EXCEPT ![h] = [[u EXCEPT !.active = n] EXCEPT !.running = TRUE]]
    BY <2>4, <2>5, <2>6
  <2>8. PICK v \in UnitType : v = [u EXCEPT !.active = n]
    BY DEF UnitType
  <2>9. [v EXCEPT !.running = TRUE] \in UnitType
    BY DEF UnitType
  <2> QED
    BY <2>4, <2>7, <2>8, <2>9
<1> QED
  BY <1>1, <1>2, <1>3, <1>4 DEF TypeInv, ThreadTypes

LEMMA TypeStutter == ASSUME TypeInv, UNCHANGED vars PROVE TypeInv'
<1> USE DEF vars, args, mainVars, threadVars
<1>1. MainTypes'
  BY DEF TypeInv, MainTypes
<1>2. TextOK' /\ StripOK'
  BY DEF TypeInv, ThreadTypes, TextOK, StripOK
<1>3. StageOK' /\ UploadOK'
  BY DEF TypeInv, ThreadTypes, StageOK, UploadOK
<1>4. ShadesOK'
  BY DEF TypeInv, ThreadTypes, ShadesOK
<1> QED
  BY <1>1, <1>2, <1>3, <1>4 DEF TypeInv, ThreadTypes

LEMMA TypeAlways == Spec => []TypeInv
<1>1. Init => TypeInv
  BY TypeInit
<1>2. SelectInv /\ TypeInv /\ [Next]_vars => TypeInv'
  <2> SUFFICES ASSUME SelectInv, TypeInv, [Next]_vars PROVE TypeInv'
    OBVIOUS
  <2>1. CASE Main
    BY <2>1, MainStep, BeginStep DEF Main
  <2>2. ASSUME NEW t \in Threads, Run(t) PROVE TypeInv'
    BY <2>2, SimpleType, BeginColorType, StripStepType, StripEndType, ShowType, FadeStepType,
       BeginUploadType, UploadVersionType, UploadHeaderType, UploadSlotType, UploadEndType,
       CloseType DEF Run
  <2>3. CASE UNCHANGED vars
    BY <2>3, TypeStutter
  <2> QED
    BY <2>1, <2>2, <2>3 DEF Next
<1> QED
  BY <1>1, <1>2, SelectAlways, PTL DEF Spec

\* Whatever is typed, whatever the file says and however the threads share the text: what a
\* unit stores and shows are bytes, its number of slots and its brightness are in range, and the
\* text of argv[3] keeps its length (ptrim-lib.cc:216-346, 421-524, 697-762).
THEOREM TypeCorrect == Spec => []TypeOK
<1>1. TypeInv /\ SelectInv => TypeOK
  <2> SUFFICES ASSUME TypeInv, SelectInv PROVE TypeOK
    OBVIOUS
  <2>1. /\ cur \in Seq(Units) /\ todo \in Seq(Units) /\ path_list \in Seq(Units)
        /\ handle \in Seq(Units) /\ Len(handle) <= MAX_DEVICES
    <3>1. Range(Listed) \subseteq Units
      BY EnumAssumption DEF Listed, Range
    <3>2. cur \in Seq(Units) /\ todo \in Seq(Units) /\ path_list \in Seq(Units) /\ handle \in Seq(Units)
      BY <3>1 DEF SelectInv, SelectTypes
    <3>3. Len(handle) + Len(path_list) <= MAX_DEVICES
      BY DEF SelectInv, SelectTypes
    <3> QED
      BY <3>2, <3>3, MaxAssumption
  <2>2. \A t \in Threads : up[t].line \in 0 .. LineWrap - 1
    BY DEF TypeInv, ThreadTypes, UploadOK, UpType
  <2>3. \A u \in Units : /\ unit[u].active \in 1 .. SLOTS
                         /\ unit[u].shown \in [1 .. Half -> Byte]
                         /\ unit[u].saved \in 1 .. 100 /\ unit[u].level \in 1 .. 100
    BY DEF TypeInv, UnitType, Colour
  <2> QED
    BY <2>1, <2>2, <2>3 DEF TypeOK, TypeInv, MainTypes, ThreadTypes, TextOK, StageOK
<1> QED
  BY <1>1, TypeAlways, SelectAlways, PTL

-----------------------------------------------------------------------------
(* What an upload leaves in a unit, and what a download makes of it.       *)

\* The column of the file device id takes, and the slots it loads and uses.
Column(f, id) == IF f.version = "multi" THEN (id % f.devices) + 1 ELSE 1
InUse(f) == IF f.active - Skip(f) > SLOTS THEN SLOTS ELSE f.active - Skip(f)
Loads(f) == IF cmd.word = "upload" THEN InUse(f) ELSE SLOTS

\* Slot k holds its line of the file, in a column; its times can be packed.
Holds(u, k, f, column) ==
    LET line == f.lines[k + Skip(f) + 1]
    IN  u.slots[k] = SlotOf(line, column) /\ line.hold <= 57 /\ line.fade <= 57

Clean == happened \cap {"uninit", "hex_times"} = {}
UploadsFile == Uploading /\ cmd.file # None /\ cmd.file.version # "unknown"

\* A thread in the middle of the file has loaded what it has read.
Reading(t) ==
    LET f == cmd.file u == up[t] IN
    /\ u.line <= LineCount(f)
    /\ u.line <= 2 => u.active = 0 /\ u.loopStart = 0 /\ u.device = 1 /\ u.load = SLOTS
    /\ u.line > 2 => /\ u.active = f.active /\ u.loopStart = Skip(f)
                     /\ u.device = Column(f, t - 1) /\ u.load = Loads(f)
                     /\ \A k \in 0 .. Loads(f) - 1 :
                           k + Skip(f) + 3 < u.line => Holds(unit[handle[t]], k, f, Column(f, t - 1))

Stored(t) ==
    LET f == cmd.file IN
    /\ unit[handle[t]].active = InUse(f)
    /\ \A k \in 0 .. InUse(f) - 1 : Holds(unit[handle[t]], k, f, Column(f, t - 1))

\* An upload of more lines than can be numbered does not end.
RoundOne(t) ==
    /\ pc[t] \in {"none", "begin", "lines", "close", "ended"}
    /\ LineCount(cmd.file) >= LineWrap => pc[t] \notin {"close", "ended"}
    /\ LineCount(cmd.file) < LineWrap /\ Clean =>
          /\ pc[t] = "lines" => Reading(t)
          /\ pc[t] \in {"close", "ended"} => Stored(t)
RoundInv == UploadsFile => \A t \in Threads : RoundOne(t)

LEMMA UploadFacts ==
    ASSUME NEW f, WellFormed(f)
    PROVE  /\ Skip(f) \in Nat /\ f.active \in 0 .. 255 /\ Len(f.lines) \in Nat
           /\ Skip(f) < f.active /\ f.active <= Len(f.lines)
           /\ InUse(f) \in 1 .. SLOTS /\ InUse(f) <= f.active - Skip(f)
           /\ Loads(f) \in 1 .. SLOTS /\ InUse(f) <= Loads(f)
<1>1. f.active \in Byte /\ f.loopStart \in Nat \ {0} /\ Skip(f) < f.active /\ f.active <= Len(f.lines)
  BY DEF WellFormed
<1>2. f.lines \in Seq([hold : HexDigits, fade : HexDigits, colors : Seq([1 .. Half -> HexDigits])])
  BY DEF WellFormed
<1>3. PICK s \in Nat, a \in 0 .. 255, n \in Nat :
        s = Skip(f) /\ a = f.active /\ n = Len(f.lines) /\ s < a /\ a <= n
  <2>1. Skip(f) \in Nat
    BY <1>1 DEF Skip
  <2>2. f.active \in 0 .. 255
    BY <1>1 DEF Byte
  <2>3. Len(f.lines) \in Nat
    BY <1>2
  <2> QED
    BY <1>1, <2>1, <2>2, <2>3
<1>4. InUse(f) \in 1 .. SLOTS /\ InUse(f) <= a - s
  BY <1>3, SlotsAssumption DEF InUse
<1>5. PICK u \in 1 .. SLOTS : u = InUse(f)
  BY <1>4
<1>6. Loads(f) \in 1 .. SLOTS /\ u <= Loads(f)
  BY <1>5, SlotsAssumption DEF Loads
<1> QED
  BY <1>3, <1>4, <1>5, <1>6

\* Packed times come out again, if they are decimal digits.
LEMMA TimesBack ==
    ASSUME NEW hold \in 48 .. 57, NEW fade \in 48 .. 57
    PROVE  LET times == ((hold - 48) * 16 + fade - 48) % 256
           IN  HexChar(times \div 16) = hold /\ HexChar(times % 16) = fade
<1> DEFINE times == ((hold - 48) * 16 + fade - 48) % 256
<1>1. times = (hold - 48) * 16 + (fade - 48)
  OBVIOUS
<1> HIDE DEF times
<1>2. times \div 16 = hold - 48 /\ times % 16 = fade - 48
  BY <1>1
<1> QED
  BY <1>2 DEF HexChar, times

\* So do packed digits of a colour.
LEMMA DigitsBack ==
    ASSUME NEW text \in [1 .. Half -> HexDigits], NEW c \in 1 .. Half
    PROVE  Digit(HexText(Pack(text))[c]) = Digit(text[c])
<1>1. PICK n \in Nat : n = Half \div 2 /\ Half = 2 * n
  BY HalfSize
<1>2. HexDigits \subseteq Byte /\ \A x \in HexDigits : Digit(x) \in 0 .. 15
  BY DEF HexDigits, Byte, Digit
<1>3. text \in [1 .. 2 * n -> Byte] /\ Len(text) = 2 * n
  BY <1>1, <1>2
<1>4. Pack(text) \in [1 .. n -> Byte]
  BY <1>3, PackType
<1>5. ASSUME NEW k \in 1 .. n
      PROVE  /\ Digit(HexText(Pack(text))[2 * k - 1]) = Digit(text[2 * k - 1])
             /\ Digit(HexText(Pack(text))[2 * k]) = Digit(text[2 * k])
  <2>1. 2 * k - 1 \in 1 .. Half /\ 2 * k \in 1 .. Half
    BY <1>1
  <2>2. PICK a \in 0 .. 15, b \in 0 .. 15 : a = Digit(text[2 * k - 1]) /\ b = Digit(text[2 * k])
    BY <1>2, <2>1
  <2>3. Len(text) \div 2 = n
    BY <1>3
  <2>4. Pack(text)[k] = (16 * a + b) % 256
    BY <2>2, <2>3 DEF Pack
  <2>5. Pack(text)[k] \div 16 = a /\ Pack(text)[k] % 16 = b
    BY <2>4
  <2> QED
    BY <1>4, <2>2, <2>5, HexType
<1>6. PICK k \in 1 .. n : c = 2 * k - 1 \/ c = 2 * k
  <2>1. CASE c % 2 = 1
    <3>1. (c + 1) \div 2 \in 1 .. n /\ c = 2 * ((c + 1) \div 2) - 1
      BY <1>1, <2>1
    <3> QED
      BY <3>1
  <2>2. CASE c % 2 # 1
    <3>1. c \div 2 \in 1 .. n /\ c = 2 * (c \div 2)
      BY <1>1, <2>2
    <3> QED
      BY <3>1
  <2> QED
    BY <2>1, <2>2
<1> QED
  BY <1>5, <1>6

\* A thread that does nothing, and whose unit nobody else touches.
LEMMA RoundKeep ==
    ASSUME NEW s \in Threads, RoundOne(s), cmd' = cmd, pc'[s] = pc[s], Clean' => Clean,
           \/ pc[s] \in {"none", "begin"}
           \/ handle' = handle /\ up'[s] = up[s] /\ unit'[handle[s]] = unit[handle[s]]
    PROVE  RoundOne(s)'
<1>1. Loads(cmd.file)' = Loads(cmd.file) /\ InUse(cmd.file)' = InUse(cmd.file)
  BY DEF Loads, InUse
<1>2. CASE pc[s] \in {"none", "begin"}
  BY <1>2 DEF RoundOne
<1>3. CASE handle' = handle /\ up'[s] = up[s] /\ unit'[handle[s]] = unit[handle[s]]
  <2>1. Reading(s) => Reading(s)'
    BY <1>1, <1>3 DEF Reading, Holds
  <2>2. Stored(s) => Stored(s)'
    BY <1>1, <1>3 DEF Stored, Holds
  <2> QED
    BY <2>1, <2>2 DEF RoundOne
<1> QED
  BY <1>2, <1>3

\* Two threads have different units.
LEMMA OtherUnit ==
    ASSUME SelectInv, StageOK, NEW s \in Threads, NEW t \in Threads, s # t,
           pc[s] # "none", pc[t] # "none"
    PROVE  handle[s] # handle[t] /\ handle[s] \in Units
<1>1. s \in DOMAIN handle /\ t \in DOMAIN handle /\ handle[s] \in Units
  BY ThreadUnit
<1> QED
  BY <1>1 DEF SelectInv, IsInjective

\* Thread t takes a step; of the others nothing changes.
LEMMA RoundMove ==
    ASSUME SelectInv, TypeInv, RoundInv, NEW t \in Threads, pc[t] # "none",
           cmd' = cmd, handle' = handle, Clean' => Clean,
           NEW stage, pc' = [pc EXCEPT ![t] = stage],
           \A s \in Threads \ {t} : up'[s] = up[s],
           \A u \in Units \ {handle[t]} : unit'[u] = unit[u],
           UploadsFile => RoundOne(t)'
    PROVE  RoundInv'
<1>1. UploadsFile' = UploadsFile
  BY DEF UploadsFile, Uploading
<1>2. SUFFICES ASSUME UploadsFile, NEW s \in Threads \ {t} PROVE RoundOne(s)'
  BY <1>1 DEF RoundInv
<1>3. pc'[s] = pc[s] /\ up'[s] = up[s] /\ RoundOne(s)
  BY <1>2 DEF RoundInv, TypeInv, ThreadTypes, StageOK
<1>4. pc[s] # "none" => unit'[handle[s]] = unit[handle[s]]
  BY OtherUnit DEF TypeInv, ThreadTypes
<1> QED
  BY <1>3, <1>4, RoundKeep

LEMMA RoundInit == ASSUME Init PROVE RoundInv
  BY DEF Init, RoundInv, RoundOne

\* main only starts threads.
LEMMA MainThreads ==
    ASSUME SelectInv, TypeInv, Main
    PROVE  /\ cmd' = cmd /\ argv3' = argv3 /\ strip' = strip /\ up' = up /\ shades' = shades
           /\ unit' = unit /\ happened \subseteq happened'
           /\ handle' = handle \/ \A t \in Threads : pc[t] = "none"
           /\ \A t \in Threads : pc'[t] = pc[t] \/ (pc[t] = "none" /\ pc'[t] \in {"none", "begin"})
<1>1. /\ cmd' = cmd /\ argv3' = argv3 /\ strip' = strip /\ up' = up /\ shades' = shades
      /\ unit' = unit
      /\ handle' = handle \/ \A t \in Threads : pc[t] = "none"
  <2> USE DEF args, mainVars, threadVars
  <2>1. CASE Start \/ OpenAll \/ OpenOne \/ OneFound \/ LookUp
    BY <2>1 DEF Start, OpenAll, OpenOne, OneFound, LookUp, Searching, SelectInv, Selecting
  <2>2. CASE NotFound \/ LookedUp \/ Reopen \/ ShowSerial \/ Finish
    BY <2>2 DEF NotFound, LookedUp, Reopen, ShowSerial, Finish, Searching, SelectInv, Selecting
  <2>3. CASE Launch \/ \E t \in Threads : NextCall(t)
    BY <2>3 DEF Launch, NextCall
  <2> QED
    BY <2>1, <2>2, <2>3 DEF Main
<1>2. \A t \in Threads : pc'[t] = pc[t] \/ (pc[t] = "none" /\ pc'[t] \in {"none", "begin"})
  <2> USE DEF args, mainVars, threadVars
  <2>1. CASE Start \/ OpenAll \/ OpenOne \/ OneFound \/ LookUp
    BY <2>1 DEF Start, OpenAll, OpenOne, OneFound, LookUp
  <2>2. CASE NotFound \/ LookedUp \/ Reopen \/ ShowSerial \/ Finish
    BY <2>2 DEF NotFound, LookedUp, Reopen, ShowSerial, Finish
  <2>3. CASE Launch
    <3>1. \A t \in Threads : pc[t] = "none"
      BY <2>3 DEF Launch, SelectInv, Selecting
    <3> QED
      BY <2>3, <3>1 DEF Launch
  <2>4. CASE \E t \in Threads : NextCall(t)
    <3>1. PICK t \in Threads : NextCall(t)
      BY <2>4
    <3>2. pc[t + 1] = "none" /\ pc' = [pc EXCEPT ![t + 1] = "begin"]
      BY <3>1 DEF NextCall
    <3> QED
      BY <3>2 DEF TypeInv, ThreadTypes, StageOK
  <2> QED
    BY <2>1, <2>2, <2>3, <2>4 DEF Main
<1>3. happened \subseteq happened'
  <2> USE DEF args, mainVars, threadVars, Opens, OpenFails, Happens
  <2>1. CASE Start \/ OpenAll \/ OpenOne \/ OneFound \/ LookUp
    BY <2>1 DEF Start, OpenAll, OpenOne, OneFound, LookUp
  <2>2. CASE NotFound \/ LookedUp \/ Reopen \/ ShowSerial \/ Finish
    BY <2>2 DEF NotFound, LookedUp, Reopen, ShowSerial, Finish
  <2>3. CASE Launch \/ \E t \in Threads : NextCall(t)
    BY <2>3 DEF Launch, NextCall
  <2> QED
    BY <2>1, <2>2, <2>3 DEF Main
<1> QED
  BY <1>1, <1>2, <1>3

LEMMA RoundMain == ASSUME SelectInv, TypeInv, RoundInv, Main PROVE RoundInv'
<1>1. /\ cmd' = cmd /\ up' = up /\ unit' = unit /\ happened \subseteq happened'
      /\ handle' = handle \/ \A t \in Threads : pc[t] = "none"
      /\ \A t \in Threads : pc'[t] = pc[t] \/ (pc[t] = "none" /\ pc'[t] \in {"none", "begin"})
  BY MainThreads
<1>2. Clean' => Clean
  BY <1>1 DEF Clean
<1>3. UploadsFile' = UploadsFile
  BY <1>1 DEF UploadsFile, Uploading
<1>4. ASSUME UploadsFile, NEW t \in Threads PROVE RoundOne(t)'
  <2>1. RoundOne(t)
    BY <1>4 DEF RoundInv
  <2>2. CASE pc'[t] = pc[t]
    BY <1>1, <1>2, <2>1, <2>2, RoundKeep
  <2>3. CASE pc'[t] \in {"none", "begin"}
    BY <2>3 DEF RoundOne
  <2> QED
    BY <1>1, <2>2, <2>3
<1> QED
  BY <1>3, <1>4 DEF RoundInv

\* No other command runs while a file is uploaded.
LEMMA RoundOther ==
    ASSUME RoundInv, NEW t \in Threads,
           Simple(t) \/ BeginColor(t) \/ StripStep(t) \/ StripEnd(t) \/ Show(t) \/ FadeStep(t)
    PROVE  RoundInv'
<1> USE DEF frame, args
<1>1. cmd' = cmd /\ (Simple(t) \/ BeginColor(t) \/ pc[t] \in {"strip", "show", "fading"})
  BY DEF Simple, BeginColor, StripStep, StripEnd, Show, FadeStep, Stripping, At_
<1>2. UploadsFile' = UploadsFile
  BY <1>1 DEF UploadsFile, Uploading
<1>3. UploadsFile => pc[t] \notin {"strip", "show", "fading"}
  BY DEF RoundInv, RoundOne
<1>4. UploadsFile => ~Simple(t) /\ ~BeginColor(t)
  BY DEF UploadsFile, Uploading, Simple, BeginColor
<1> QED
  BY <1>1, <1>2, <1>3, <1>4 DEF RoundInv

LEMMA RoundBegin ==
    ASSUME SelectInv, TypeInv, RoundInv, NEW t \in Threads, BeginUpload(t) PROVE RoundInv'
<1>1. /\ pc[t] = "begin" /\ pc' = [pc EXCEPT ![t] = "lines"] /\ cmd' = cmd /\ handle' = handle
      /\ \E g \in Garbage : /\ up' = [up EXCEPT ![t] = UploadStart(g)]
                            /\ g = 0 \/ Happens("uninit")
  BY DEF BeginUpload, At_, Goto, frame, args, mainVars
<1>2. Clean' => Clean
  BY DEF BeginUpload, Happens, Clean
<1>3. \A u \in Units \ {handle[t]} : unit'[u] = unit[u]
  BY DEF BeginUpload, TypeInv
<1>4. \A s \in Threads \ {t} : up'[s] = up[s]
  BY <1>1 DEF TypeInv, ThreadTypes, UploadOK
<1>5. ASSUME UploadsFile PROVE RoundOne(t)'
  <2>1. pc'[t] = "lines"
    BY <1>1 DEF TypeInv, ThreadTypes, StageOK
  <2>2. ASSUME Clean' PROVE Reading(t)'
    <3>1. up' = [up EXCEPT ![t] = UploadStart(0)]
      BY <1>1, <2>2 DEF Clean, Happens
    <3>2. up'[t] = UploadStart(0)
      BY <3>1 DEF TypeInv, ThreadTypes, UploadOK
    <3>3. LineCount(cmd.file) >= 0
      <4>1. WellFormed(cmd.file)
        BY <1>5, CommandFacts DEF UploadsFile, TypeInv, MainTypes
      <4> QED
        BY <4>1, UploadFacts DEF LineCount
    <3> QED
      BY <1>1, <3>2, <3>3 DEF Reading, UploadStart
  <2> QED
    BY <2>1, <2>2 DEF RoundOne
<1> QED
  BY <1>1, <1>2, <1>3, <1>4, <1>5, RoundMove

\* A line that is read, unless the numbers have run out.
LEMMA LineNumbers ==
    ASSUME TypeInv, UploadsFile, NEW t \in Threads, AtLine(t), LineCount(cmd.file) < LineWrap
    PROVE  /\ up[t] \in UpType /\ LineNo(t) \in Nat /\ LineNo(t) + 1 <= LineCount(cmd.file)
           /\ NextLine(up[t]).line = LineNo(t) + 1
<1>1. up[t] \in UpType /\ Len(cmd.file.lines) \in Nat
  BY FileFacts DEF AtLine, At_
<1>2. PICK k \in Nat, n \in Nat, w \in Nat :
        k = up[t].line /\ n = LineCount(cmd.file) /\ w = LineWrap /\ k < n /\ n < w
  BY <1>1, WrapAssumption DEF AtLine, LineCount, UpType
<1>3. (k + 1) % w = k + 1
  BY <1>2
<1> QED
  <2>1. NextLine(up[t]).line = (up[t].line + 1) % LineWrap
    BY <1>1, NextLineFacts
  <2>2. NextLine(up[t]).line = k + 1
    BY <1>2, <1>3, <2>1
  <2> QED
    BY <1>1, <1>2, <2>2 DEF LineNo

LEMMA RoundVersion ==
    ASSUME SelectInv, TypeInv, RoundInv, NEW t \in Threads, UploadVersion(t) PROVE RoundInv'
<1>1. /\ pc[t] = "lines" /\ cmd' = cmd /\ handle' = handle /\ happened' = happened /\ unit' = unit
      /\ AtLine(t) /\ LineNo(t) < 2
      /\ up' = [up EXCEPT ![t] = NextLine(up[t])]
  BY DEF UploadVersion, AtLine, At_, frame, args, mainVars
<1>2. PICK stage : /\ pc' = [pc EXCEPT ![t] = stage] /\ (UploadsFile => stage = "lines")
  BY DEF UploadVersion, Goto, UploadsFile
<1>3. Clean' => Clean
  BY <1>1 DEF Clean
<1>4. \A s \in Threads \ {t} : up'[s] = up[s]
  BY <1>1 DEF TypeInv, ThreadTypes, UploadOK
<1>5. ASSUME UploadsFile PROVE RoundOne(t)'
  <2>1. pc'[t] = "lines"
    BY <1>2, <1>5 DEF TypeInv, ThreadTypes, StageOK
  <2>2. ASSUME Clean', LineCount(cmd.file) < LineWrap PROVE Reading(t)'
    <3>1. Reading(t)
      BY <1>1, <1>3, <1>5, <2>2 DEF RoundInv, RoundOne
    <3>2. /\ up[t] \in UpType /\ LineNo(t) \in Nat /\ LineNo(t) + 1 <= LineCount(cmd.file)
          /\ NextLine(up[t]).line = LineNo(t) + 1
      BY <1>1, <1>5, <2>2, LineNumbers
    <3>3. up'[t] = NextLine(up[t])
      BY <1>1 DEF TypeInv, ThreadTypes, UploadOK
    <3>4. PICK v : v = NextLine(up[t]) /\ v.line = LineNo(t) + 1 /\ v.active = up[t].active
                   /\ v.loopStart = up[t].loopStart /\ v.device = up[t].device
                   /\ v.load = up[t].load
      BY <3>2, NextLineFacts
    <3>5. up'[t].line <= 2 /\ LineNo(t) <= 2
      BY <1>1, <3>2, <3>3
    <3> QED
      BY <1>1, <3>1, <3>2, <3>3, <3>4, <3>5 DEF Reading, LineNo
  <2> QED
    BY <1>1, <2>1, <2>2 DEF RoundOne
<1> QED
  BY <1>1, <1>2, <1>3, <1>4, <1>5, RoundMove

LEMMA RoundHeader ==
    ASSUME SelectInv, TypeInv, RoundInv, NEW t \in Threads, UploadHeader(t) PROVE RoundInv'
<1>1. /\ pc[t] = "lines" /\ cmd' = cmd /\ handle' = handle /\ happened' = happened /\ unit' = unit
      /\ pc' = pc /\ AtLine(t) /\ LineNo(t) = 2
      /\ up' = [up EXCEPT ![t] = NextLine(ReadHeader(@, cmd.file, t - 1, cmd.word = "upload"))]
  BY DEF UploadHeader, AtLine, At_, frame, args, mainVars
<1>2. pc' = [pc EXCEPT ![t] = "lines"]
  BY <1>1 DEF TypeInv, ThreadTypes, StageOK
<1>3. Clean' => Clean
  BY <1>1 DEF Clean
<1>4. \A s \in Threads \ {t} : up'[s] = up[s]
  BY <1>1 DEF TypeInv, ThreadTypes, UploadOK
<1>5. ASSUME UploadsFile PROVE RoundOne(t)'
  <2>1. pc'[t] = "lines"
    BY <1>1
  <2>2. ASSUME Clean', LineCount(cmd.file) < LineWrap PROVE Reading(t)'
    <3>1. Reading(t)
      BY <1>1, <1>3, <1>5, <2>2 DEF RoundInv, RoundOne
    <3>2. /\ up[t] \in UpType /\ LineNo(t) \in Nat /\ LineNo(t) + 1 <= LineCount(cmd.file)
      BY <1>1, <1>5, <2>2, LineNumbers
    <3>3. WellFormed(cmd.file) /\ t - 1 \in Nat
      BY <1>1, FileFacts DEF Threads
    <3>4. /\ Skip(cmd.file) \in Nat /\ cmd.file.active \in 0 .. 255
          /\ Skip(cmd.file) < cmd.file.active
      BY <3>3, UploadFacts
    <3>5. up[t].active = 0 /\ up[t].load = SLOTS
      BY <1>1, <3>1 DEF Reading, LineNo
    <3>6. PICK blank \in BOOLEAN : blank = (cmd.word = "upload")
      OBVIOUS
    <3>7. PICK r : r = ReadHeader(up[t], cmd.file, t - 1, blank)
      OBVIOUS
    <3> DEFINE active == IF cmd.file.version = "multi"
                         THEN (up[t].active * 10 ^ cmd.file.digits + cmd.file.active) % 256
                         ELSE cmd.file.active
               load   == IF blank /\ active - Skip(cmd.file) < SLOTS
                         THEN (active - Skip(cmd.file)) % 256 ELSE up[t].load
    <3>8. /\ r \in UpType
          /\ r = [line |-> up[t].line, active |-> active, device |-> Column(cmd.file, t - 1),
                  loopStart |-> Skip(cmd.file), load |-> load]
      BY <3>2, <3>3, <3>7, ReadHeaderFacts DEF Column
    <3>9. active = cmd.file.active
      <4>1. cmd.file.digits \in Nat
        BY <3>3 DEF WellFormed
      <4>2. PICK p \in Int : p = 10 ^ cmd.file.digits
        BY <4>1
      <4>3. (0 * p + cmd.file.active) % 256 = cmd.file.active
        BY <3>4
      <4> QED
        BY <3>5, <4>2, <4>3
    <3> HIDE DEF active
    <3>10. load = Loads(cmd.file)
      <4>1. PICK a \in 0 .. 255, s \in Nat : a = cmd.file.active /\ s = Skip(cmd.file) /\ s < a
        BY <3>4
      <4>2. (a - s) % 256 = a - s
        BY <4>1
      <4>3. load = IF blank /\ a - s < SLOTS THEN a - s ELSE SLOTS
        BY <3>5, <3>9, <4>1, <4>2
      <4>4. InUse(cmd.file) = IF a - s > SLOTS THEN SLOTS ELSE a - s
        BY <4>1 DEF InUse
      <4>5. PICK d \in Nat, n \in Nat : d = a - s /\ n = SLOTS
        BY <4>1, SlotsAssumption
      <4>6. CASE blank
        <5>1. load = InUse(cmd.file)
          BY <4>3, <4>4, <4>5, <4>6
        <5> QED
          BY <3>6, <4>6, <5>1 DEF Loads
      <4>7. CASE ~blank
        BY <3>6, <4>3, <4>7 DEF Loads
      <4> QED
        BY <4>6, <4>7
    <3> HIDE DEF load
    <3>11. /\ r.line = 2 /\ r.active = cmd.file.active /\ r.device = Column(cmd.file, t - 1)
           /\ r.loopStart = Skip(cmd.file) /\ r.load = Loads(cmd.file)
      BY <1>1, <3>8, <3>9, <3>10 DEF LineNo
    <3>12. PICK v : v = NextLine(r)
      OBVIOUS
    <3>13. up'[t] = v
      BY <1>1, <3>6, <3>7, <3>12 DEF TypeInv, ThreadTypes, UploadOK
    <3>14. /\ v.active = r.active /\ v.device = r.device
           /\ v.loopStart = r.loopStart /\ v.load = r.load
           /\ v.line = (r.line + 1) % LineWrap
      BY <3>8, <3>12, NextLineFacts
    <3>15. v.line = 3
      BY <3>11, <3>14, WrapAssumption
    <3>16. Loads(cmd.file)' = Loads(cmd.file)
      BY <1>1 DEF Loads
    <3>17. 3 <= LineCount(cmd.file)
      BY <1>1, <3>2
    <3>18. \A k \in Nat : ~(k + Skip(cmd.file) + 3 < 3)
      BY <3>4
    <3>19. Loads(cmd.file) \in Nat
      BY <3>3, UploadFacts
    <3> QED
      BY <1>1, <3>11, <3>13, <3>14, <3>15, <3>16, <3>17, <3>18, <3>19 DEF Reading
  <2> QED
    BY <1>1, <2>1, <2>2 DEF RoundOne
<1> QED
  BY <1>1, <1>2, <1>3, <1>4, <1>5, RoundMove

LEMMA RoundSlot ==
    ASSUME SelectInv, TypeInv, RoundInv, NEW t \in Threads, UploadSlot(t) PROVE RoundInv'
<1>1. /\ pc[t] = "lines" /\ cmd' = cmd /\ handle' = handle /\ pc' = pc
      /\ AtLine(t) /\ LineNo(t) > 2 /\ LoadLine(t)
      /\ up' = [up EXCEPT ![t] = NextLine(up[t])]
  BY DEF UploadSlot, AtLine, At_, Advance, frame, args, mainVars
<1>2. pc' = [pc EXCEPT ![t] = "lines"]
  BY <1>1 DEF TypeInv, ThreadTypes, StageOK
<1>3. Clean' => Clean
  BY <1>1 DEF Clean, LoadLine, Happens
<1>4. \A s \in Threads \ {t} : up'[s] = up[s]
  BY <1>1 DEF TypeInv, ThreadTypes, UploadOK
<1>5. \A u \in Units \ {handle[t]} : unit'[u] = unit[u]
  BY <1>1 DEF TypeInv, LoadLine
<1>6. ASSUME UploadsFile PROVE RoundOne(t)'
  <2>1. pc'[t] = "lines"
    BY <1>1
  <2>2. ASSUME Clean', LineCount(cmd.file) < LineWrap PROVE Reading(t)'
    <3>1. Reading(t)
      BY <1>1, <1>3, <1>6, <2>2 DEF RoundInv, RoundOne
    <3>2. /\ up[t] \in UpType /\ LineNo(t) \in Nat /\ LineNo(t) + 1 <= LineCount(cmd.file)
          /\ NextLine(up[t]).line = LineNo(t) + 1
      BY <1>1, <1>6, <2>2, LineNumbers
    <3>3. up'[t] = NextLine(up[t])
      BY <1>1 DEF TypeInv, ThreadTypes, UploadOK
    <3>4. PICK v : v = NextLine(up[t]) /\ v.line = LineNo(t) + 1 /\ v.active = up[t].active
                   /\ v.loopStart = up[t].loopStart /\ v.device = up[t].device
                   /\ v.load = up[t].load
      BY <3>2, NextLineFacts
    <3>5. PICK n \in Nat, skip \in Nat, load \in Nat :
            /\ n = LineNo(t) /\ skip = Skip(cmd.file) /\ load = Loads(cmd.file) /\ n > 2
            /\ load <= SLOTS
      <4>1. WellFormed(cmd.file)
        BY <1>1, FileFacts
      <4> QED
        BY <1>1, <3>2, <4>1, UploadFacts, SlotsAssumption
    <3>6. /\ up[t].active = cmd.file.active /\ up[t].loopStart = skip
          /\ up[t].device = Column(cmd.file, t - 1) /\ up[t].load = load
          /\ \A k \in 0 .. load - 1 : k + skip + 3 < n =>
                Holds(unit[handle[t]], k, cmd.file, Column(cmd.file, t - 1))
      BY <3>1, <3>5 DEF Reading, LineNo
    <3>7. PICK h \in Units : h = handle[t]
      BY <1>1, ThreadUnit DEF TypeInv, ThreadTypes
    <3>8. unit[h] \in UnitType
      BY DEF TypeInv
    <3>9. PICK line : line = cmd.file.lines[n - 2]
      OBVIOUS
    <3>10. ASSUME NEW k \in 0 .. load - 1, k + skip + 3 < n + 1
           PROVE  Holds(unit'[h], k, cmd.file, Column(cmd.file, t - 1))
      <4>1. CASE k + skip + 3 = n
        <5>1. ToLoad(up[t]) /\ Target(up[t]) = k
          BY <3>5, <3>6, <4>1 DEF ToLoad, Target, LineNo
        <5>2. unit' = [unit EXCEPT ![h].slots[k] = SlotOf(line, Column(cmd.file, t - 1))]
          BY <1>1, <3>5, <3>6, <3>7, <3>9, <5>1 DEF LoadLine
        <5>3. unit'[h].slots[k] = SlotOf(line, Column(cmd.file, t - 1))
          <6>1. k \in 0 .. SLOTS - 1
            BY <3>5, SlotsAssumption
          <6> QED
            BY <3>8, <5>2, <6>1 DEF TypeInv, UnitType
        <5>4. line.hold <= 57 /\ line.fade <= 57
          <6>1. ~Happens("hex_times")
            BY <2>2 DEF Clean, Happens
          <6>2. ~(line.hold > 57 \/ line.fade > 57)
            BY <1>1, <3>5, <3>9, <5>1, <6>1 DEF LoadLine
          <6>3. line \in LineType
            BY <1>1, <3>5, <3>9, LineFacts
          <6>4. line.hold \in HexDigits /\ line.fade \in HexDigits
            BY <6>3 DEF LineType
          <6>5. line.hold \in Int /\ line.fade \in Int
            BY <6>4 DEF HexDigits
          <6> QED
            BY <6>2, <6>5
        <5>5. k + skip + 1 = n - 2
          BY <3>5, <4>1
        <5> QED
          BY <3>5, <3>9, <5>3, <5>4, <5>5 DEF Holds
      <4>2. CASE k + skip + 3 < n
        <5>1. Holds(unit[h], k, cmd.file, Column(cmd.file, t - 1))
          BY <3>6, <3>7, <4>2
        <5>2. unit'[h].slots[k] = unit[h].slots[k]
          <6>1. CASE ~ToLoad(up[t])
            <7>1. unit' = unit
              BY <1>1, <6>1 DEF LoadLine
            <7> QED
              BY <7>1
          <6>2. CASE ToLoad(up[t])
            <7>1. PICK j : j = Target(up[t])
              OBVIOUS
            <7>2. j = n - 3 - skip
              BY <3>5, <3>6, <7>1 DEF Target, LineNo
            <7>3. PICK slot : unit' = [unit EXCEPT ![h].slots[j] = slot]
              BY <1>1, <3>7, <6>2, <7>1 DEF LoadLine
            <7>4. j # k /\ k \in 0 .. SLOTS - 1
              BY <3>5, <4>2, <7>2, SlotsAssumption
            <7> QED
              BY <3>8, <7>3, <7>4 DEF TypeInv, UnitType
          <6> QED
            BY <6>1, <6>2
        <5> QED
          BY <5>1, <5>2 DEF Holds
      <4> QED
        BY <3>5, <3>10, <4>1, <4>2
    <3>11. Loads(cmd.file)' = load
      BY <1>1, <3>5 DEF Loads
    <3>12. up'[t] = v /\ v.line = n + 1 /\ n + 1 > 2 /\ ~(n + 1 <= 2)
      BY <3>3, <3>4, <3>5
    <3> QED
      BY <1>1, <3>2, <3>4, <3>5, <3>6, <3>7, <3>10, <3>11, <3>12 DEF Reading
  <2> QED
    BY <1>1, <2>1, <2>2 DEF RoundOne
<1> QED
  BY <1>1, <1>2, <1>3, <1>4, <1>5, <1>6, RoundMove

LEMMA RoundEnd ==
    ASSUME SelectInv, TypeInv, RoundInv, NEW t \in Threads, UploadEnd(t) PROVE RoundInv'
<1>1. /\ pc[t] = "lines" /\ cmd' = cmd /\ handle' = handle /\ happened' = happened /\ up' = up
      /\ pc' = [pc EXCEPT ![t] = "close"] /\ ~(up[t].line < LineCount(cmd.file))
      /\ unit' = [unit EXCEPT
                    ![handle[t]].active = activeSlotsOf(up[t].active - up[t].loopStart),
                    ![handle[t]].running = TRUE]
  BY DEF UploadEnd, AtLine, At_, Goto, frame, args, mainVars
<1>2. Clean' => Clean
  BY <1>1 DEF Clean
<1>3. \A u \in Units \ {handle[t]} : unit'[u] = unit[u]
  BY <1>1 DEF TypeInv
<1>4. ASSUME UploadsFile PROVE RoundOne(t)'
  <2>1. pc'[t] = "close"
    BY <1>1 DEF TypeInv, ThreadTypes, StageOK
  <2>2. PICK n \in Nat, c \in Nat, w \in Nat :
          n = up[t].line /\ c = LineCount(cmd.file) /\ w = LineWrap /\ n < w /\ n >= c /\ c >= 3
    <3>1. PICK n \in Nat, l \in Nat : n = up[t].line /\ l = Len(cmd.file.lines)
      <4>1. up[t] \in UpType /\ Len(cmd.file.lines) \in Nat
        BY <1>1, FileFacts
      <4>2. up[t].line \in Nat
        BY <4>1 DEF UpType
      <4> QED
        BY <4>1, <4>2
    <3>2. up[t].line < LineWrap /\ LineWrap \in Nat
      <4>1. up[t] \in UpType
        BY <1>1, FileFacts
      <4> QED
        BY <4>1, WrapAssumption DEF UpType
    <3>3. LineCount(cmd.file) = 3 + l
      BY <3>1 DEF LineCount
    <3>4. ~(n < 3 + l)
      BY <1>1, <3>1, <3>3
    <3>5. 3 + l \in Nat /\ n >= 3 + l /\ 3 + l >= 3
      BY <3>4
    <3> QED
      BY <3>1, <3>2, <3>3, <3>5
  <2>3. LineCount(cmd.file) < LineWrap
    BY <2>2
  <2>4. ASSUME Clean' PROVE Stored(t)'
    <3>1. Reading(t)
      BY <1>1, <1>2, <1>4, <2>3, <2>4 DEF RoundInv, RoundOne
    <3>2. WellFormed(cmd.file)
      BY <1>1, FileFacts
    <3>3. PICK s \in Nat, a \in Nat, l \in Nat :
            /\ s = Skip(cmd.file) /\ a = cmd.file.active /\ l = Len(cmd.file.lines)
            /\ s < a /\ a <= l /\ a <= 255
      <4>1. cmd.file.active \in 0 .. 255
        BY <3>2, UploadFacts
      <4>2. \A x \in 0 .. 255 : x \in Nat /\ x <= 255
        OBVIOUS
      <4>3. cmd.file.active \in Nat /\ cmd.file.active <= 255
        BY <4>1, <4>2
      <4>4. /\ Skip(cmd.file) \in Nat /\ Len(cmd.file.lines) \in Nat
            /\ Skip(cmd.file) < cmd.file.active /\ cmd.file.active <= Len(cmd.file.lines)
        BY <3>2, UploadFacts
      <4> QED
        BY <4>3, <4>4
    <3>4. PICK used \in Nat, load \in Nat :
            /\ used = InUse(cmd.file) /\ load = Loads(cmd.file)
            /\ used <= a - s /\ used <= load
      <4>1. InUse(cmd.file) \in 1 .. SLOTS /\ Loads(cmd.file) \in 1 .. SLOTS
        BY <3>2, UploadFacts
      <4>2. 1 .. SLOTS \subseteq Nat
        BY SlotsAssumption
      <4>3. InUse(cmd.file) <= cmd.file.active - Skip(cmd.file) /\ InUse(cmd.file) <= Loads(cmd.file)
        BY <3>2, UploadFacts
      <4> QED
        BY <3>3, <4>1, <4>2, <4>3
    <3>5. n = c /\ c = 3 + l
      BY <2>2, <3>1, <3>3 DEF Reading, LineCount
    <3>6. /\ up[t].active = a /\ up[t].loopStart = s
          /\ \A k \in 0 .. load - 1 : k + s + 3 < n =>
                Holds(unit[handle[t]], k, cmd.file, Column(cmd.file, t - 1))
      <4>1. up[t].line > 2
        BY <2>2
      <4>2. /\ up[t].active = cmd.file.active /\ up[t].loopStart = Skip(cmd.file)
            /\ \A k \in 0 .. Loads(cmd.file) - 1 : k + Skip(cmd.file) + 3 < up[t].line =>
                  Holds(unit[handle[t]], k, cmd.file, Column(cmd.file, t - 1))
        BY <3>1, <4>1 DEF Reading
      <4> QED
        BY <2>2, <3>3, <3>4, <4>2
    <3>7. activeSlotsOf(up[t].active - up[t].loopStart) = used
      <4>1. (a - s) % 256 = a - s
        BY <3>3, <3>4
      <4> QED
        BY <3>3, <3>4, <3>6, <4>1, SlotsAssumption DEF activeSlotsOf, InUse
    <3>8. PICK h \in Units : h = handle[t]
      BY <1>1, ThreadUnit DEF TypeInv, ThreadTypes
    <3>9. unit[h] \in UnitType
      BY DEF TypeInv
    <3>10. unit' = [unit EXCEPT ![h].active = used, ![h].running = TRUE]
      BY <1>1, <3>7, <3>8
    <3>11. unit'[h].active = used /\ unit'[h].slots = unit[h].slots
      <4>1. unit'[h] = [unit[h] EXCEPT !.active = used, !.running = TRUE]
        BY <3>10 DEF TypeInv
      <4> QED
        BY <3>9, <4>1 DEF UnitType
    <3>12. ASSUME NEW k \in 0 .. used - 1
           PROVE  Holds(unit'[h], k, cmd.file, Column(cmd.file, t - 1))
      <4>1. used <= a - s /\ a <= l /\ used <= load /\ n = 3 + l
        BY <3>3, <3>4, <3>5
      <4>2. k \in 0 .. load - 1 /\ k + s + 3 < n
        BY <4>1
      <4>3. Holds(unit[h], k, cmd.file, Column(cmd.file, t - 1))
        BY <3>6, <3>8, <4>2
      <4> QED
        BY <3>11, <4>3 DEF Holds
    <3>13. InUse(cmd.file)' = used
      BY <1>1, <3>4 DEF InUse
    <3> QED
      BY <1>1, <3>3, <3>4, <3>8, <3>11, <3>12, <3>13 DEF Stored
  <2> QED
    BY <1>1, <2>1, <2>2, <2>3, <2>4 DEF RoundOne
<1> QED
  BY <1>1, <1>2, <1>3, <1>4, RoundMove

LEMMA RoundClose ==
    ASSUME SelectInv, TypeInv, RoundInv, NEW t \in Threads, Close(t) PROVE RoundInv'
<1>1. /\ pc[t] = "close" /\ cmd' = cmd /\ handle' = handle /\ happened' = happened /\ up' = up
      /\ unit' = unit /\ pc' = [pc EXCEPT ![t] = "ended"]
  BY DEF Close, At_, Goto, frame, args, mainVars
<1>2. Clean' => Clean
  BY <1>1 DEF Clean
<1>3. ASSUME UploadsFile PROVE RoundOne(t)'
  <2>1. pc'[t] = "ended"
    BY <1>1 DEF TypeInv, ThreadTypes, StageOK
  <2>2. RoundOne(t)
    BY <1>3 DEF RoundInv
  <2>3. InUse(cmd.file)' = InUse(cmd.file)
    BY <1>1 DEF InUse
  <2>4. Stored(t) => Stored(t)'
    BY <1>1, <2>3 DEF Stored, Holds
  <2> QED
    BY <1>1, <1>2, <2>1, <2>2, <2>4 DEF RoundOne
<1> QED
  BY <1>1, <1>2, <1>3, RoundMove

LEMMA RoundStutter == ASSUME RoundInv, UNCHANGED vars PROVE RoundInv'
<1> USE DEF vars, args, mainVars, threadVars
<1>1. Clean' => Clean
  BY DEF Clean
<1>2. UploadsFile' = UploadsFile
  BY DEF UploadsFile, Uploading
<1>3. \A t \in Threads : RoundOne(t) => RoundOne(t)'
  BY <1>1, RoundKeep
<1> QED
  BY <1>2, <1>3 DEF RoundInv

LEMMA RoundAlways == Spec => []RoundInv
<1>1. Init => RoundInv
  BY RoundInit
<1>2. SelectInv /\ TypeInv /\ RoundInv /\ [Next]_vars => RoundInv'
  <2> SUFFICES ASSUME SelectInv, TypeInv, RoundInv, [Next]_vars PROVE RoundInv'
    OBVIOUS
  <2>1. CASE Main
    BY <2>1, RoundMain
  <2>2. ASSUME NEW t \in Threads, Run(t) PROVE RoundInv'
    BY <2>2, RoundOther, RoundBegin, RoundVersion, RoundHeader, RoundSlot, RoundEnd, RoundClose
    DEF Run
  <2>3. CASE UNCHANGED vars
    BY <2>3, RoundStutter
  <2> QED
    BY <2>1, <2>2, <2>3 DEF Next
<1> QED
  BY <1>1, <1>2, SelectAlways, TypeAlways, PTL DEF Spec

\* What a download prints of a slot that holds its line.
LEMMA HeldLine ==
    ASSUME TypeInv, UploadsFile, NEW u \in UnitType, NEW k \in 0 .. InUse(cmd.file) - 1,
           NEW id \in Nat, Holds(u, k, cmd.file, Column(cmd.file, id))
    PROVE  LET was == cmd.file.lines[k + Skip(cmd.file) + 1] now == LineOf(u.slots[k]) IN
           /\ now.hold = was.hold /\ now.fade = was.fade
           /\ \A c \in 1 .. Half :
                 Digit(now.colors[1][c]) = Digit(was.colors[Column(cmd.file, id)][c])
<1>1. WellFormed(cmd.file)
  BY CommandFacts DEF UploadsFile, TypeInv, MainTypes
<1>2. PICK s \in Nat, l \in Nat : s = Skip(cmd.file) /\ l = Len(cmd.file.lines) /\ k + s + 1 \in 1 .. l
  <2>1. PICK s \in Nat, a \in 0 .. 255, l \in Nat, used \in Nat :
          /\ s = Skip(cmd.file) /\ a = cmd.file.active /\ l = Len(cmd.file.lines)
          /\ used = InUse(cmd.file) /\ s < a /\ a <= l /\ used <= a - s
    <3>1. 1 .. SLOTS \subseteq Nat
      BY SlotsAssumption
    <3>2. /\ Skip(cmd.file) \in Nat /\ cmd.file.active \in 0 .. 255
          /\ Len(cmd.file.lines) \in Nat
          /\ Skip(cmd.file) < cmd.file.active /\ cmd.file.active <= Len(cmd.file.lines)
          /\ InUse(cmd.file) \in 1 .. SLOTS /\ InUse(cmd.file) <= cmd.file.active - Skip(cmd.file)
      BY <1>1, UploadFacts
    <3> QED
      BY <3>1, <3>2
  <2>2. k \in 0 .. used - 1 /\ used <= a - s /\ a <= l
    BY <2>1
  <2>3. k + s + 1 \in 1 .. l
    BY <2>2
  <2> QED
    BY <2>1, <2>3
<1>3. PICK line \in LineType : line = cmd.file.lines[k + Skip(cmd.file) + 1]
  <2>1. cmd.file.lines \in Seq(LineType)
    BY <1>1 DEF WellFormed, LineType
  <2> QED
    BY <1>2, <2>1, ElementOfSeq
<1>4. PICK column \in 1 .. Len(line.colors) : column = Column(cmd.file, id)
  <2>1. line.colors \in Seq([1 .. Half -> HexDigits])
    BY DEF LineType
  <2>2. k + Skip(cmd.file) + 1 \in DOMAIN cmd.file.lines
    <3>1. cmd.file.lines \in Seq(LineType)
      BY <1>1 DEF WellFormed, LineType
    <3> QED
      BY <1>2, <3>1
  <2>3. cmd.file.devices <= Len(line.colors) /\ cmd.file.devices \in Nat \ {0}
    BY <1>1, <1>3, <2>2 DEF WellFormed
  <2>4. PICK d \in Nat, n \in Nat : d = cmd.file.devices /\ n = Len(line.colors) /\ d <= n /\ d > 0
    BY <2>1, <2>3
  <2>5. Column(cmd.file, id) \in 1 .. n
    BY <2>4 DEF Column
  <2> QED
    BY <2>4, <2>5
<1>5. u.slots[k] = SlotOf(line, column) /\ line.hold <= 57 /\ line.fade <= 57
  BY <1>3, <1>4 DEF Holds
<1>6. line.hold \in 48 .. 57 /\ line.fade \in 48 .. 57
  <2>1. line.hold \in HexDigits /\ line.fade \in HexDigits
    BY DEF LineType
  <2>2. \A x \in HexDigits : x <= 57 => x \in 48 .. 57
    BY DEF HexDigits
  <2> QED
    BY <1>5, <2>1, <2>2
<1>7. PICK text \in [1 .. Half -> HexDigits] :
        /\ text = line.colors[column]
        /\ u.slots[k].times = ((line.hold - 48) * 16 + line.fade - 48) % 256
        /\ u.slots[k].color = Pack(text)
  BY <1>5, SlotFacts
<1>8. HexChar(u.slots[k].times \div 16) = line.hold /\ HexChar(u.slots[k].times % 16) = line.fade
  <2>1. PICK times : times = u.slots[k].times
    OBVIOUS
  <2>2. PICK hold \in 48 .. 57, fade \in 48 .. 57 : hold = line.hold /\ fade = line.fade
    BY <1>6
  <2>3. times = ((hold - 48) * 16 + fade - 48) % 256
    BY <1>7, <2>1, <2>2
  <2>4. HexChar(times \div 16) = hold /\ HexChar(times % 16) = fade
    <3>1. LET n == ((hold - 48) * 16 + fade - 48) % 256
          IN  HexChar(n \div 16) = hold /\ HexChar(n % 16) = fade
      BY TimesBack
    <3> QED
      BY <2>3, <3>1
  <2> QED
    BY <2>1, <2>2, <2>4
<1>9. \A c \in 1 .. Half : Digit(HexText(u.slots[k].color)[c]) = Digit(text[c])
  BY <1>7, DigitsBack
<1>10. /\ LineOf(u.slots[k]).hold = line.hold /\ LineOf(u.slots[k]).fade = line.fade
       /\ LineOf(u.slots[k]).colors[1] = HexText(u.slots[k].color)
  BY <1>8 DEF LineOf
<1> QED
  BY <1>3, <1>4, <1>7, <1>9, <1>10

\* A sequence that was uploaded comes back, whatever the file, the number of units and of slots,
\* where the loop starts and how the header counts: every unit holds the loop, from its start,
\* in the column of its own place, and a download prints the same times and digits (upload(),
\* download(), ptrim-lib.cc:376-524).
THEOREM UploadComesBack == Spec => []RoundTrip
<1>1. SelectInv /\ TypeInv /\ RoundInv => RoundTrip
  <2> SUFFICES ASSUME SelectInv, TypeInv, RoundInv, NEW t \in 1 .. Len(handle),
                      Uploading, cmd.file # None, pc[t] = "ended", cmd.file.version # "unknown",
                      Clean
               PROVE  LET back == download(unit[handle[t]].active, unit[handle[t]].slots, TRUE)
                      IN  /\ back.active = InUse(cmd.file)
                          /\ \A k \in 1 .. InUse(cmd.file) :
                                LET was == cmd.file.lines[k + Skip(cmd.file)] now == back.lines[k] IN
                                /\ now.hold = was.hold /\ now.fade = was.fade
                                /\ \A c \in 1 .. Half :
                                      Digit(now.colors[1][c])
                                        = Digit(was.colors[Column(cmd.file, t - 1)][c])
    BY DEF RoundTrip, Clean, InUse, Skip, Column
  <2>1. UploadsFile
    BY DEF UploadsFile
  <2>2. t \in Threads /\ t - 1 \in Nat
    <3>1. Len(handle) \in Nat /\ Len(path_list) \in Nat /\ Len(handle) + Len(path_list) <= MAX_DEVICES
      BY DEF SelectInv, SelectTypes
    <3> QED
      BY <3>1, MaxAssumption DEF Threads
  <2>3. Stored(t)
    <3>1. LineCount(cmd.file) \in Int /\ LineWrap \in Int
      <4>1. WellFormed(cmd.file)
        BY <2>1, CommandFacts DEF UploadsFile, TypeInv, MainTypes
      <4> QED
        BY <4>1, UploadFacts, WrapAssumption DEF LineCount
    <3>2. RoundOne(t)
      BY <2>1, <2>2 DEF RoundInv
    <3> QED
      BY <3>1, <3>2 DEF RoundOne
  <2>4. PICK u \in UnitType : u = unit[handle[t]]
    BY <2>2, ThreadUnit DEF TypeInv, ThreadTypes
  <2>5. PICK used \in 1 .. SLOTS, skip \in Nat : used = InUse(cmd.file) /\ skip = Skip(cmd.file)
    <3>1. WellFormed(cmd.file)
      BY <2>1, CommandFacts DEF UploadsFile, TypeInv, MainTypes
    <3> QED
      BY <3>1, UploadFacts
  <2>6. u.active = used /\ \A k \in 0 .. used - 1 : Holds(u, k, cmd.file, Column(cmd.file, t - 1))
    BY <2>3, <2>4, <2>5 DEF Stored
  <2>7. PICK back : back = download(u.active, u.slots, TRUE)
    OBVIOUS
  <2>8. back.active = used
    BY <2>6, <2>7 DEF download
  <2>9. ASSUME NEW k \in 1 .. used
        PROVE  /\ back.lines[k].hold = cmd.file.lines[k + skip].hold
               /\ back.lines[k].fade = cmd.file.lines[k + skip].fade
               /\ \A c \in 1 .. Half : Digit(back.lines[k].colors[1][c])
                        = Digit(cmd.file.lines[k + skip].colors[Column(cmd.file, t - 1)][c])
    <3>1. k - 1 \in 0 .. used - 1 /\ (k - 1) + skip + 1 = k + skip /\ k \in 1 .. SLOTS /\ ~(k > used)
      BY <2>5, SlotsAssumption
    <3>2. back.lines[k] = LineOf(u.slots[k - 1])
      BY <2>6, <2>7, <3>1 DEF download
    <3>3. Holds(u, k - 1, cmd.file, Column(cmd.file, t - 1))
      BY <2>6, <3>1
    <3>4. PICK j \in 0 .. InUse(cmd.file) - 1 : j = k - 1 /\ j + skip + 1 = k + skip
      BY <2>5, <3>1
    <3>5. LET was == cmd.file.lines[j + Skip(cmd.file) + 1] now == LineOf(u.slots[j]) IN
          /\ now.hold = was.hold /\ now.fade = was.fade
          /\ \A c \in 1 .. Half :
                Digit(now.colors[1][c]) = Digit(was.colors[Column(cmd.file, t - 1)][c])
      BY <2>1, <2>2, <3>3, <3>4, HeldLine
    <3> QED
      BY <2>5, <3>2, <3>4, <3>5
  <2>10. back = download(unit[handle[t]].active, unit[handle[t]].slots, TRUE)
    BY <2>4, <2>7
  <2> QED
    BY <2>5, <2>8, <2>9, <2>10
<1> QED
  BY <1>1, RoundAlways, SelectAlways, TypeAlways, PTL

-----------------------------------------------------------------------------
(* The characters of a text that are not spaces, counted.                  *)

Kept(text)    == {k \in DOMAIN text : text[k] # Space}
KeptTo(text, k) == {i \in Kept(text) : i <= k}
Rank(text, k) == Cardinality(KeptTo(text, k))

\* The rank of a place is the number of characters kept up to there.
LEMMA RankFacts ==
    ASSUME NEW text \in Seq(Byte)
    PROVE  /\ Cardinality(Kept(text)) \in Nat /\ Cardinality(Kept(text)) <= Len(text)
           /\ Rank(text, 0) = 0 /\ Rank(text, Len(text)) = Cardinality(Kept(text))
           /\ \A k \in Int : /\ IsFiniteSet(KeptTo(text, k)) /\ Rank(text, k) \in Nat
                             /\ Rank(text, k) <= Cardinality(Kept(text))
           /\ Unspaced(text) = [j \in 1 .. Cardinality(Kept(text)) |->
                  text[CHOOSE k \in Kept(text) : Rank(text, k) = j]]
<1>1. Len(text) \in Nat /\ DOMAIN text = 1 .. Len(text) /\ Kept(text) \subseteq 1 .. Len(text)
  BY DEF Kept
<1>2. IsFiniteSet(1 .. Len(text)) /\ Cardinality(1 .. Len(text)) = Len(text)
  <2>1. PICK n \in Nat : n = Len(text)
    BY <1>1
  <2>2. IsFiniteSet(1 .. n) /\ Cardinality(1 .. n) = n
    BY FS_Interval
  <2> QED
    BY <2>1, <2>2
<1>3. IsFiniteSet(Kept(text)) /\ Cardinality(Kept(text)) <= Len(text)
  BY <1>1, <1>2, FS_Subset
<1>4. Cardinality(Kept(text)) \in Nat
  BY <1>3, FS_CardinalityType
<1>5. ASSUME NEW k \in Int
      PROVE  /\ IsFiniteSet(KeptTo(text, k)) /\ Rank(text, k) \in Nat
             /\ Rank(text, k) <= Cardinality(Kept(text))
  <2>1. KeptTo(text, k) \subseteq Kept(text)
    BY DEF KeptTo
  <2>2. IsFiniteSet(KeptTo(text, k)) /\ Cardinality(KeptTo(text, k)) <= Cardinality(Kept(text))
    BY <1>3, <2>1, FS_Subset
  <2> QED
    BY <2>2, FS_CardinalityType DEF Rank
<1>6. KeptTo(text, 0) = {}
  BY <1>1 DEF KeptTo
<1>7. KeptTo(text, Len(text)) = Kept(text)
  BY <1>1 DEF KeptTo
<1>8. Rank(text, 0) = 0 /\ Rank(text, Len(text)) = Cardinality(Kept(text))
  BY <1>6, <1>7, FS_EmptySet DEF Rank
<1>9. Unspaced(text) = [j \in 1 .. Cardinality(Kept(text)) |->
                  text[CHOOSE k \in Kept(text) : Rank(text, k) = j]]
  BY DEF Unspaced, Kept, KeptTo, Rank
<1> QED
  BY <1>3, <1>4, <1>5, <1>8, <1>9

\* It grows by one at each character that is kept, and stays the same over spaces.
LEMMA RankGrows ==
    ASSUME NEW text \in Seq(Byte), NEW a \in Nat, NEW b \in Nat, a <= b, b <= Len(text),
           \A k \in a + 1 .. b : text[k] = Space
    PROVE  /\ Rank(text, b) = Rank(text, a)
           /\ b < Len(text) /\ text[b + 1] # Space => Rank(text, b + 1) = Rank(text, a) + 1
<1>1. Len(text) \in Nat /\ DOMAIN text = 1 .. Len(text)
  OBVIOUS
<1>2. KeptTo(text, b) = KeptTo(text, a)
  BY <1>1 DEF KeptTo, Kept
<1>3. Rank(text, b) = Rank(text, a)
  BY <1>2 DEF Rank
<1>4. ASSUME b < Len(text), text[b + 1] # Space PROVE Rank(text, b + 1) = Rank(text, a) + 1
  <2>1. KeptTo(text, b + 1) = KeptTo(text, b) \cup {b + 1} /\ b + 1 \notin KeptTo(text, b)
    BY <1>1, <1>4 DEF KeptTo, Kept
  <2>2. IsFiniteSet(KeptTo(text, b))
    BY RankFacts
  <2>3. Cardinality(KeptTo(text, b + 1)) = Cardinality(KeptTo(text, b)) + 1
    BY <2>1, <2>2, FS_AddElement
  <2> QED
    BY <1>2, <2>3 DEF Rank
<1> QED
  BY <1>3, <1>4

\* So a character is kept at the place of its rank.
LEMMA UnspacedAt ==
    ASSUME NEW text \in Seq(Byte), NEW k \in Kept(text)
    PROVE  /\ Rank(text, k) \in 1 .. Cardinality(Kept(text))
           /\ Unspaced(text)[Rank(text, k)] = text[k]
<1>1. Len(text) \in Nat /\ Kept(text) \subseteq 1 .. Len(text)
  BY DEF Kept
<1>2. ASSUME NEW i \in Kept(text), NEW j \in Kept(text), i < j PROVE Rank(text, i) < Rank(text, j)
  <2>1. KeptTo(text, i) \cup {j} \subseteq KeptTo(text, j) /\ j \notin KeptTo(text, i)
    BY <1>1, <1>2 DEF KeptTo
  <2>2. i \in Int /\ j \in Int
    BY <1>1
  <2>3. IsFiniteSet(KeptTo(text, i)) /\ IsFiniteSet(KeptTo(text, j))
    BY <2>2, RankFacts
  <2>4. Cardinality(KeptTo(text, i) \cup {j}) = Cardinality(KeptTo(text, i)) + 1
    BY <2>1, <2>3, FS_AddElement
  <2>5. Cardinality(KeptTo(text, i) \cup {j}) <= Cardinality(KeptTo(text, j))
    BY <2>1, <2>3, FS_Subset
  <2>6. Rank(text, i) \in Nat /\ Rank(text, j) \in Nat
    BY <2>2, RankFacts
  <2> QED
    BY <2>4, <2>5, <2>6 DEF Rank
<1>3. ASSUME NEW i \in Kept(text), Rank(text, i) = Rank(text, k) PROVE i = k
  <2>1. i \in Int /\ k \in Int /\ Rank(text, k) \in Nat
    BY <1>1, RankFacts
  <2>2. ~(i < k) /\ ~(k < i)
    BY <1>2, <1>3, <2>1
  <2> QED
    BY <2>1, <2>2
<1>4. Rank(text, k) \in 1 .. Cardinality(Kept(text))
  <2>1. k \in Int
    BY <1>1
  <2>2. k \in KeptTo(text, k) /\ IsFiniteSet(KeptTo(text, k))
    BY <2>1, RankFacts DEF KeptTo
  <2>3. Rank(text, k) # 0
    BY <2>2, FS_EmptySet DEF Rank
  <2> QED
    BY <2>1, <2>3, RankFacts
<1>5. (CHOOSE i \in Kept(text) : Rank(text, i) = Rank(text, k)) = k
  BY <1>3
<1>6. PICK r : r = Rank(text, k)
  OBVIOUS
<1>7. Unspaced(text) = [j \in 1 .. Cardinality(Kept(text)) |->
          text[CHOOSE i \in Kept(text) : Rank(text, i) = j]]
  BY RankFacts
<1>8. r \in 1 .. Cardinality(Kept(text)) /\ (CHOOSE i \in Kept(text) : Rank(text, i) = r) = k
  BY <1>4, <1>5, <1>6
<1>9. Unspaced(text)[r] = text[CHOOSE i \in Kept(text) : Rank(text, i) = r]
  BY <1>7, <1>8
<1> QED
  BY <1>4, <1>6, <1>8, <1>9

\* A text without spaces is all kept.
LEMMA UnspacedWhole ==
    ASSUME NEW text \in Seq(Byte), \A k \in DOMAIN text : text[k] # Space
    PROVE  Cardinality(Kept(text)) = Len(text) /\ \A k \in 1 .. Len(text) : Unspaced(text)[k] = text[k]
<1>1. PICK n \in Nat : n = Len(text) /\ DOMAIN text = 1 .. n
  OBVIOUS
<1>2. Kept(text) = 1 .. n
  BY <1>1 DEF Kept
<1>3. ASSUME NEW k \in 1 .. n PROVE Rank(text, k) = k
  <2>1. KeptTo(text, k) = 1 .. k
    BY <1>2 DEF KeptTo
  <2>2. k \in Nat /\ Cardinality(1 .. k) = k
    BY FS_Interval
  <2> QED
    BY <2>1, <2>2 DEF Rank
<1>4. Cardinality(1 .. n) = n
  BY FS_Interval
<1>5. ASSUME NEW k \in 1 .. n PROVE Unspaced(text)[k] = text[k]
  BY <1>2, <1>3, UnspacedAt
<1> QED
  BY <1>1, <1>2, <1>4, <1>5

-----------------------------------------------------------------------------
(* What makeColor() makes of the digits, and whatever comes after them.    *)

LEMMA FormFacts ==
    ASSUME NEW n \in Nat, NEW d \in {3, 6, Half, Full}
    PROVE  /\ Form(d) = d
           /\ Form(n) = 3 <=> n < 6
           /\ Form(n) = 6 <=> n >= 6 /\ n < Half
           /\ Form(n) = Half <=> n >= Half /\ n < Full
           /\ Form(n) = Full <=> n >= Full
           /\ 6 < Half /\ Half < Full /\ d \in Nat
<1>1. PICK h \in Nat, f \in Nat : h = Half /\ f = Full /\ h >= 9 /\ f = 2 * h
  BY HalfSize
<1>2. \A m \in Nat : Form(m) = CASE m < 6 -> 3 [] m >= 6 /\ m < h -> 6 [] m >= h /\ m < f -> h
                                 [] m >= f -> f
  BY <1>1 DEF Form
<1>3. \A m \in Nat : /\ m < 6 => Form(m) = 3
                     /\ m >= 6 /\ m < h => Form(m) = 6
                     /\ m >= h /\ m < f => Form(m) = h
                     /\ m >= f => Form(m) = f
  BY <1>1, <1>2
<1>4. d \in Nat /\ d \in {3, 6, h, f}
  BY <1>1
<1>5. Form(d) = d
  BY <1>1, <1>3, <1>4
<1>6. /\ Form(n) = 3 <=> n < 6
      /\ Form(n) = 6 <=> n >= 6 /\ n < h
      /\ Form(n) = h <=> n >= h /\ n < f
      /\ Form(n) = f <=> n >= f
  BY <1>1, <1>3
<1> QED
  BY <1>1, <1>4, <1>5, <1>6

\* A component of a colour is made of the two characters its place has in the standard form.
MadeOf(text, c, i, j) ==
    makeColor(text, TRUE)[c + 1] = (16 * Digit(At(text, i)) + Digit(At(text, j))) % 256

LEMMA Component ==
    ASSUME NEW text \in Seq(Byte), NEW c \in 0 .. Half - 1
    PROVE  /\ Len(text) < 6 => MadeOf(text, c, ((2 * c) % 6) \div 2, ((2 * c + 1) % 6) \div 2)
           /\ Len(text) >= 6 /\ Len(text) < Half => MadeOf(text, c, (2 * c) % 6, (2 * c + 1) % 6)
           /\ Len(text) >= Half /\ Len(text) < Full =>
                 MadeOf(text, c, (2 * c) \div 2, (2 * c + 1) \div 2)
           /\ Len(text) >= Full => MadeOf(text, c, 2 * c, 2 * c + 1)
<1>1. PICK n \in Nat, h \in Nat, f \in Nat :
        n = Len(text) /\ h = Half /\ f = Full /\ f = 2 * h /\ h >= 9
  BY LenProperties, HalfSize
<1> DEFINE Source(k) == CASE n < 6 -> (k % 6) \div 2
                          [] n >= 6 /\ n < h   -> k % 6
                          [] n >= h /\ n < f -> k \div 2
                          [] n >= f -> k
<1>2. Standard(text, TRUE) = [k \in 1 .. f |-> At(text, Source(k - 1))]
  BY <1>1 DEF Standard
<1>3. /\ n < 6 => \A k : Source(k) = (k % 6) \div 2
      /\ n >= 6 /\ n < h => \A k : Source(k) = k % 6
      /\ n >= h /\ n < f => \A k : Source(k) = k \div 2
      /\ n >= f => \A k : Source(k) = k
  BY <1>1
<1> HIDE DEF Source
<1>4. PICK st : st = Standard(text, TRUE)
  OBVIOUS
<1>5. st = [k \in 1 .. f |-> At(text, Source(k - 1))]
  BY <1>2, <1>4
<1>6. Len(st) = f /\ Len(st) \div 2 = h
  BY <1>1, <1>5
<1>7. 2 * c + 1 \in 1 .. f /\ 2 * c + 2 \in 1 .. f /\ c + 1 \in 1 .. h
  BY <1>1
<1>8. st[2 * c + 1] = At(text, Source(2 * c)) /\ st[2 * c + 2] = At(text, Source(2 * c + 1))
  <2>1. (2 * c + 1) - 1 = 2 * c /\ (2 * c + 2) - 1 = 2 * c + 1
    BY <1>1
  <2> QED
    BY <1>5, <1>7, <2>1
<1>9. Pack(st)[c + 1] = (16 * Digit(st[2 * c + 1]) + Digit(st[2 * c + 2])) % 256
  <2>1. 2 * (c + 1) - 1 = 2 * c + 1 /\ 2 * (c + 1) = 2 * c + 2
    BY <1>1
  <2>2. Pack(st) = [k \in 1 .. h |-> (16 * Digit(st[2 * k - 1]) + Digit(st[2 * k])) % 256]
    BY <1>6 DEF Pack
  <2> QED
    BY <1>7, <2>1, <2>2
<1>10. MadeOf(text, c, Source(2 * c), Source(2 * c + 1))
  BY <1>4, <1>8, <1>9 DEF makeColor, MadeOf
<1>11. CASE n < 6
  BY <1>1, <1>3, <1>10, <1>11
<1>12. CASE n >= 6 /\ n < h
  BY <1>1, <1>3, <1>10, <1>12
<1>13. CASE n >= h /\ n < f
  BY <1>1, <1>3, <1>10, <1>13
<1>14. CASE n >= f
  BY <1>1, <1>3, <1>10, <1>14
<1> QED
  BY <1>1, <1>11, <1>12, <1>13, <1>14

LEMMA HexValue == \A x \in HexDigits : Digit(x) \in 0 .. 15
<1>1. \A x \in 48 .. 57 : Digit(x) \in 0 .. 15
  BY DEF Digit
<1>2. \A x \in 65 .. 70 : Digit(x) \in 0 .. 15
  BY DEF Digit
<1>3. \A x \in 97 .. 102 : Digit(x) \in 0 .. 15
  BY DEF Digit
<1> QED
  BY <1>1, <1>2, <1>3 DEF HexDigits

\* A text that begins with the digits, and has the length of their form, gives their colour.
LEMMA DigitsIntended ==
    ASSUME NEW text \in Seq(Byte), NEW digits \in Seq(HexDigits), Len(digits) \in {3, 6, Half, Full},
           Len(digits) <= Len(text), Form(Len(text)) = Len(digits),
           \A j \in 1 .. Len(digits) : text[j] = digits[j],
           NEW c \in 0 .. Half - 1
    PROVE  makeColor(text, TRUE)[c + 1] = Intended(digits, c)
<1>1. PICK n \in Nat, d \in Nat, h \in Nat, f \in Nat :
        /\ n = Len(text) /\ d = Len(digits) /\ h = Half /\ f = Full
        /\ d <= n /\ 6 < h /\ f = 2 * h /\ d \in {3, 6, h, f}
  BY HalfSize, LenProperties, FormFacts
<1>2. /\ d = 3 => n < 6
      /\ d = 6 => n >= 6 /\ n < h
      /\ d = h => n >= h /\ n < f
      /\ d = f => n >= f
  BY <1>1, FormFacts
<1> DEFINE D(k) == Digit(digits[k + 1])
<1>3. ASSUME NEW k \in 0 .. d - 1 PROVE Digit(At(text, k)) = D(k) /\ D(k) \in 0 .. 15
  <2>1. k < n /\ k + 1 \in 1 .. d
    BY <1>1
  <2>2. At(text, k) = digits[k + 1]
    BY <1>1, <2>1 DEF At
  <2>3. digits[k + 1] \in HexDigits
    BY <1>1, <2>1, ElementOfSeq
  <2> QED
    BY <2>2, <2>3, HexValue
<1> DEFINE Made == makeColor(text, TRUE)[c + 1]
<1>4. c \in Nat /\ c < h
  BY <1>1
<1> HIDE DEF Made, D
<1>5. CASE d = 3
  <2>1. PICK r \in 0 .. 2 : /\ r = c % 3 /\ ((2 * c) % 6) \div 2 = r
                             /\ ((2 * c + 1) % 6) \div 2 = r
    <3>1. ((2 * c) % 6) \div 2 = c % 3 /\ ((2 * c + 1) % 6) \div 2 = c % 3 /\ c % 3 \in 0 .. 2
      BY <1>4
    <3> QED
      BY <3>1
  <2>2. PICK v \in 0 .. 15 : v = D(r) /\ Digit(At(text, r)) = v
    <3>1. r \in 0 .. d - 1
      BY <1>5
    <3> QED
      BY <1>3, <3>1
  <2>3. Made = (16 * v + v) % 256
    <3>1. Len(text) < 6
      BY <1>1, <1>2, <1>5
    <3>2. MadeOf(text, c, r, r)
      BY <2>1, <3>1, Component
    <3> QED
      BY <2>2, <3>2 DEF Made, MadeOf
  <2>4. Made = 17 * v
    BY <2>3
  <2>5. Intended(digits, c) = 17 * D(r)
    <3>1. Intended(digits, c) = 17 * D(c % 3)
      BY <1>1, <1>5 DEF Intended, D
    <3> QED
      BY <2>1, <3>1
  <2> QED
    BY <2>2, <2>4, <2>5 DEF Made
<1>6. CASE d = 6
  <2>1. PICK r \in 0 .. 2 : r = c % 3 /\ (2 * c) % 6 = 2 * r /\ (2 * c + 1) % 6 = 2 * r + 1
    <3>1. c % 3 \in 0 .. 2 /\ (2 * c) % 6 = 2 * (c % 3) /\ (2 * c + 1) % 6 = 2 * (c % 3) + 1
      BY <1>4
    <3> QED
      BY <3>1
  <2>2. PICK v \in 0 .. 15, w \in 0 .. 15 :
          /\ v = D(2 * r) /\ Digit(At(text, 2 * r)) = v
          /\ w = D(2 * r + 1) /\ Digit(At(text, 2 * r + 1)) = w
    <3>1. 2 * r \in 0 .. d - 1 /\ 2 * r + 1 \in 0 .. d - 1
      BY <1>6
    <3> QED
      BY <1>3, <3>1
  <2>3. Made = (16 * v + w) % 256
    <3>1. Len(text) >= 6 /\ Len(text) < Half
      BY <1>1, <1>2, <1>6
    <3>2. MadeOf(text, c, 2 * r, 2 * r + 1)
      BY <2>1, <3>1, Component
    <3> QED
      BY <2>2, <3>2 DEF Made, MadeOf
  <2>4. Made = 16 * v + w
    BY <2>3
  <2>5. Intended(digits, c) = 16 * D(2 * r) + D(2 * r + 1)
    <3>1. Intended(digits, c) = 16 * D(2 * (c % 3)) + D(2 * (c % 3) + 1)
      <4>1. Len(digits) = 6 /\ Len(digits) # 3 /\ Len(digits) # Half /\ Len(digits) # Full
        BY <1>1, <1>6
      <4>2. PICK m : m = 2 * (c % 3)
        OBVIOUS
      <4>3. Intended(digits, c) = 16 * Digit(digits[m + 1]) + Digit(digits[(m + 1) + 1])
        BY <4>1, <4>2 DEF Intended
      <4> QED
        BY <4>2, <4>3 DEF D
    <3> QED
      BY <2>1, <3>1
  <2> QED
    BY <2>2, <2>4, <2>5 DEF Made
<1>7. CASE d = h
  <2>1. (2 * c) \div 2 = c /\ (2 * c + 1) \div 2 = c
    BY <1>4
  <2>2. PICK v \in 0 .. 15 : v = D(c) /\ Digit(At(text, c)) = v
    BY <1>1, <1>3, <1>4, <1>7
  <2>3. Made = (16 * v + v) % 256
    <3>1. Len(text) >= Half /\ Len(text) < Full
      BY <1>1, <1>2, <1>7
    <3>2. MadeOf(text, c, c, c)
      BY <2>1, <3>1, Component
    <3> QED
      BY <2>2, <3>2 DEF Made, MadeOf
  <2>4. Made = 17 * v
    BY <2>3
  <2>5. Intended(digits, c) = 17 * D(c)
    BY <1>1, <1>7 DEF Intended, D
  <2> QED
    BY <2>2, <2>4, <2>5 DEF Made
<1>8. CASE d = f
  <2>1. PICK v \in 0 .. 15, w \in 0 .. 15 :
          /\ v = D(2 * c) /\ Digit(At(text, 2 * c)) = v
          /\ w = D(2 * c + 1) /\ Digit(At(text, 2 * c + 1)) = w
    <3>1. 2 * c \in 0 .. d - 1 /\ 2 * c + 1 \in 0 .. d - 1
      BY <1>1, <1>4, <1>8
    <3> QED
      BY <1>3, <3>1
  <2>2. Made = (16 * v + w) % 256
    <3>1. Len(text) >= Full
      BY <1>1, <1>2, <1>8
    <3>2. MadeOf(text, c, 2 * c, 2 * c + 1)
      BY <3>1, Component
    <3> QED
      BY <2>1, <3>2 DEF Made, MadeOf
  <2>3. Made = 16 * v + w
    BY <2>2
  <2>4. Intended(digits, c) = 16 * D(2 * c) + D(2 * c + 1)
    BY <1>1, <1>8 DEF Intended, D
  <2> QED
    BY <2>1, <2>3, <2>4 DEF Made
<1> QED
  BY <1>1, <1>5, <1>6, <1>7, <1>8 DEF Made

-----------------------------------------------------------------------------
(* How the spaces are taken out, one character after the other.            *)

Whole(text) == Append(text, 0)
Digits(text) == Cardinality(Kept(text))

\* The text in argv[3] begins with the digits.
InPlace(argv, text) == \A j \in 1 .. Digits(text) : argv[j] = Unspaced(text)[j]

\* The first thread: so many digits are in place, and the rest is as the user typed it; spaces at
\* the end give one round more.
FirstPass(s, argv, text) ==
    /\ s.length = Len(text)
    /\ \/ /\ s.i + s.offset <= Len(text)
          /\ s.i = Rank(text, s.i + s.offset)
          /\ \A j \in 1 .. s.i : argv[j] = Unspaced(text)[j]
          /\ \A k \in s.i + s.offset + 1 .. Len(text) + 1 : argv[k] = Whole(text)[k]
       \/ s.i = Digits(text) + 1 /\ s.offset = Len(text) - Digits(text) /\ InPlace(argv, text)

\* Another thread, after it: the digits stay where they are, and spaces are only found among what
\* was left behind them.
LaterPass(s, argv, text) ==
    /\ InPlace(argv, text)
    /\ Digits(text) <= s.length /\ s.length <= Len(text)
    /\ argv[s.length + 1] = 0
    /\ s.i < Digits(text) => s.offset = 0
    /\ s.offset <= s.length - Digits(text)

\* Where there are no spaces nothing is moved.
NoMove(s, text) == s.length = Len(text) /\ s.offset = 0 /\ s.i <= Len(text)

\* One round for thread state s makes state r of it and argv out.
Round(s, argv, r, out) ==
    \E from \in Nat :
        /\ from = NextChar(argv, s.i + s.offset)
        /\ out = [argv EXCEPT ![s.i + 1] = argv[from + 1]]
        /\ r = [i |-> s.i + 1, offset |-> from - s.i, length |-> s.length]

LEMMA WholeFacts ==
    ASSUME NEW text \in Seq(Byte)
    PROVE  /\ Len(text) \in Nat /\ \A k \in 1 .. Len(text) : Whole(text)[k] = text[k]
           /\ Whole(text)[Len(text) + 1] = 0
           /\ Digits(text) \in Nat /\ Digits(text) <= Len(text)
  BY RankFacts DEF Whole, Digits

\* What a round finds and does in a text of n: where the characters are, and which they are.
MovedAt(s, r, n, i, o, l, from) ==
    /\ i = s.i /\ o = s.offset /\ l = s.length /\ i + o < l /\ l <= n
    /\ i + o <= from /\ from <= n
    /\ r.i = i + 1 /\ r.offset = from - i /\ r.length = l
MovedChar(argv, out, n, i, o, from) ==
    /\ argv[from + 1] # Space /\ \A j \in i + o .. from - 1 : argv[j + 1] = Space
    /\ out[i + 1] = argv[from + 1]
    /\ \A j \in 1 .. n + 1 : j # i + 1 => out[j] = argv[j]

LEMMA RoundFacts ==
    ASSUME NEW argv \in Seq(Byte), NEW s \in StripType, NEW n \in Nat, Len(argv) = n + 1, argv[n + 1] = 0,
           s.i + s.offset < s.length, s.length <= n, NEW r, NEW out, Round(s, argv, r, out)
    PROVE  \E i \in Nat, o \in Nat, l \in Nat, from \in Nat :
              MovedAt(s, r, n, i, o, l, from) /\ MovedChar(argv, out, n, i, o, from)
<1>1. PICK i \in Nat, o \in Nat, l \in Nat : i = s.i /\ o = s.offset /\ l = s.length
  BY DEF StripType
<1>2. i + o < l /\ l <= n /\ i + o \in Nat /\ i + o < Len(argv)
  BY <1>1
<1>3. PICK a \in Nat : a = i + o /\ a < Len(argv) /\ a <= n
  BY <1>2
<1>4. PICK from \in Nat :
        /\ from = NextChar(argv, a)
        /\ out = [argv EXCEPT ![i + 1] = argv[from + 1]]
        /\ r = [i |-> i + 1, offset |-> from - i, length |-> l]
  BY <1>1, <1>3 DEF Round
<1>5. /\ from \in a .. Len(argv) - 1 /\ argv[from + 1] # Space
      /\ \A j \in a .. from - 1 : argv[j + 1] = Space
  <2>1. argv[Len(argv)] = 0
    OBVIOUS
  <2> QED
    BY <1>3, <1>4, <2>1, NextCharPlace
<1>6. i + 1 \in 1 .. Len(argv) /\ argv[from + 1] \in Byte
  <2>1. from + 1 \in 1 .. Len(argv)
    BY <1>5
  <2> QED
    BY <1>2, <2>1, ElementOfSeq
<1>7. out[i + 1] = argv[from + 1] /\ \A j \in 1 .. n + 1 : j # i + 1 => out[j] = argv[j]
  BY <1>4, <1>6
<1>8. r.i = i + 1 /\ r.offset = from - i /\ r.length = l
  BY <1>4
<1>9. i + o <= from /\ from <= n /\ \A j \in i + o .. from - 1 : argv[j + 1] = Space
  BY <1>3, <1>5
<1> QED
  BY <1>1, <1>2, <1>5, <1>7, <1>8, <1>9 DEF MovedAt, MovedChar

LEMMA FirstRound ==
    ASSUME NEW text \in Seq(Byte), NEW argv \in Seq(Byte), NEW s \in StripType,
           Len(argv) = Len(text) + 1, argv[Len(text) + 1] = 0,
           FirstPass(s, argv, text), s.i + s.offset < s.length, NEW r, NEW out, Round(s, argv, r, out)
    PROVE  FirstPass(r, out, text)
<1>1. PICK n \in Nat, d \in Nat : n = Len(text) /\ d = Digits(text) /\ d <= n /\ s.length = n
  BY WholeFacts DEF FirstPass
<1>2. PICK i \in Nat, o \in Nat, l \in Nat, from \in Nat :
        MovedAt(s, r, n, i, o, l, from) /\ MovedChar(argv, out, n, i, o, from)
  <2>1. Len(argv) = n + 1 /\ argv[n + 1] = 0 /\ s.length <= n
    BY <1>1
  <2> QED
    BY <2>1, RoundFacts
<1>3. i = s.i /\ o = s.offset /\ r.i = i + 1 /\ r.offset = from - i /\ r.length = n
  BY <1>1, <1>2 DEF MovedAt
<1>4. i + o < n /\ i + o <= from /\ i <= from /\ from <= n
  <2>1. s.length = l /\ i + o < l /\ i + o <= from /\ from <= n
    BY <1>2 DEF MovedAt
  <2> QED
    BY <1>1, <2>1
<1>5. PICK a \in Nat : a = i + o /\ a < n /\ a <= from
  BY <1>4
<1>6. s.i + s.offset = a /\ ~(s.i = Digits(text) + 1 /\ s.offset = Len(text) - Digits(text))
  BY <1>1, <1>3, <1>5
<1>7. /\ i = Rank(text, a) /\ \A j \in 1 .. i : argv[j] = Unspaced(text)[j]
      /\ \A k \in a + 1 .. n + 1 : argv[k] = Whole(text)[k]
  <2>1. /\ s.i = Rank(text, s.i + s.offset) /\ \A j \in 1 .. s.i : argv[j] = Unspaced(text)[j]
        /\ \A k \in s.i + s.offset + 1 .. Len(text) + 1 : argv[k] = Whole(text)[k]
    BY <1>6 DEF FirstPass
  <2> QED
    BY <1>1, <1>3, <1>6, <2>1
<1>8. \A k \in a + 1 .. n : argv[k] = text[k]
  <2> SUFFICES ASSUME NEW k \in a + 1 .. n PROVE argv[k] = text[k]
    OBVIOUS
  <2>1. k \in a + 1 .. n + 1 /\ k \in 1 .. n
    OBVIOUS
  <2> QED
    BY <1>1, <1>7, <2>1, WholeFacts
<1>9. /\ argv[from + 1] # Space /\ \A j \in a .. from - 1 : argv[j + 1] = Space
      /\ out[i + 1] = argv[from + 1] /\ \A j \in 1 .. n + 1 : j # i + 1 => out[j] = argv[j]
  BY <1>2, <1>5 DEF MovedChar
<1>10. \A k \in a + 1 .. from : text[k] = Space
  <2> SUFFICES ASSUME NEW k \in a + 1 .. from PROVE text[k] = Space
    OBVIOUS
  <2>1. k - 1 \in a .. from - 1 /\ (k - 1) + 1 = k /\ k \in a + 1 .. n
    BY <1>4
  <2>2. argv[(k - 1) + 1] = Space
    BY <1>9, <2>1
  <2> QED
    BY <1>8, <2>1, <2>2
<1>11. /\ Rank(text, from) = i
       /\ from < n /\ text[from + 1] # Space => Rank(text, from + 1) = i + 1
  <2>1. from <= Len(text)
    BY <1>1, <1>4
  <2>2. /\ Rank(text, from) = Rank(text, a)
        /\ from < Len(text) /\ text[from + 1] # Space => Rank(text, from + 1) = Rank(text, a) + 1
    BY <1>5, <1>10, <2>1, RankGrows
  <2> QED
    BY <1>1, <1>7, <2>2
<1>12. \A j \in 1 .. i : out[j] = Unspaced(text)[j]
  <2> SUFFICES ASSUME NEW j \in 1 .. i PROVE out[j] = Unspaced(text)[j]
    OBVIOUS
  <2>1. j \in 1 .. n + 1 /\ j # i + 1
    BY <1>4
  <2> QED
    BY <1>7, <1>9, <2>1
<1>13. CASE from < n
  <2>1. argv[from + 1] = text[from + 1] /\ text[from + 1] # Space
    <3>1. from + 1 \in a + 1 .. n
      BY <1>5, <1>13
    <3> QED
      BY <1>8, <1>9, <3>1
  <2>2. Rank(text, from + 1) = i + 1
    BY <1>11, <1>13, <2>1
  <2>3. from + 1 \in Kept(text)
    BY <1>1, <1>13, <2>1 DEF Kept
  <2>4. Unspaced(text)[i + 1] = text[from + 1]
    BY <2>2, <2>3, UnspacedAt
  <2>5. out[i + 1] = Unspaced(text)[i + 1]
    BY <1>9, <2>1, <2>4
  <2>6. \A j \in 1 .. i + 1 : out[j] = Unspaced(text)[j]
    BY <1>12, <2>5
  <2>7. r.i + r.offset = from + 1
    BY <1>3
  <2>8. \A k \in from + 2 .. n + 1 : out[k] = Whole(text)[k]
    <3> SUFFICES ASSUME NEW k \in from + 2 .. n + 1 PROVE out[k] = Whole(text)[k]
      OBVIOUS
    <3>1. k \in 1 .. n + 1 /\ k # i + 1 /\ k \in a + 1 .. n + 1
      BY <1>4, <1>5
    <3> QED
      BY <1>7, <1>9, <3>1
  <2>9. from + 1 <= n /\ (from + 1) + 1 = from + 2
    BY <1>13
  <2> QED
    BY <1>1, <1>3, <2>2, <2>6, <2>7, <2>8, <2>9 DEF FirstPass
<1>14. CASE from = n
  <2>1. i = d
    BY <1>1, <1>11, <1>14, RankFacts DEF Digits
  <2>2. InPlace(out, text)
    BY <1>1, <1>12, <2>1 DEF InPlace
  <2> QED
    BY <1>1, <1>3, <1>14, <2>1, <2>2 DEF FirstPass
<1> QED
  BY <1>4, <1>13, <1>14

LEMMA LaterRound ==
    ASSUME NEW text \in Seq(Byte), NEW argv \in Seq(Byte), NEW s \in StripType,
           Len(argv) = Len(text) + 1, argv[Len(text) + 1] = 0,
           \A j \in 1 .. Digits(text) : Unspaced(text)[j] # Space,
           LaterPass(s, argv, text), s.i + s.offset < s.length, NEW r, NEW out, Round(s, argv, r, out)
    PROVE  LaterPass(r, out, text)
<1>1. PICK n \in Nat, d \in Nat : n = Len(text) /\ d = Digits(text) /\ d <= n
  BY WholeFacts
<1>2. PICK i \in Nat, o \in Nat, l \in Nat, from \in Nat :
        MovedAt(s, r, n, i, o, l, from) /\ MovedChar(argv, out, n, i, o, from)
  <2>1. Len(argv) = n + 1 /\ argv[n + 1] = 0 /\ s.length <= n
    BY <1>1 DEF LaterPass
  <2> QED
    BY <2>1, RoundFacts
<1>3. i = s.i /\ o = s.offset /\ l = s.length /\ r.i = i + 1 /\ r.offset = from - i /\ r.length = l
  BY <1>2 DEF MovedAt
<1>4. i + o < l /\ i < l /\ l <= n /\ i + o <= from /\ i <= from /\ from <= n
  <2>1. i + o < l /\ l <= n /\ i + o <= from /\ from <= n
    BY <1>2 DEF MovedAt
  <2> QED
    BY <2>1
<1>5. d <= l /\ argv[l + 1] = 0 /\ (i < d => o = 0) /\ o <= l - d
  BY <1>1, <1>3 DEF LaterPass
<1>6. \A j \in 1 .. d : argv[j] = Unspaced(text)[j] /\ argv[j] # Space
  BY <1>1 DEF LaterPass, InPlace
<1>7. /\ argv[from + 1] # Space /\ \A j \in i + o .. from - 1 : argv[j + 1] = Space
      /\ out[i + 1] = argv[from + 1] /\ \A j \in 1 .. n + 1 : j # i + 1 => out[j] = argv[j]
  BY <1>2 DEF MovedChar
<1>8. from <= l
  <2>1. ASSUME l < from PROVE FALSE
    <3>1. l \in i + o .. from - 1
      BY <1>4, <2>1
    <3>2. argv[l + 1] = Space /\ argv[l + 1] = 0
      BY <1>5, <1>7, <3>1
    <3> QED
      BY <3>2 DEF Space
  <2> QED
    BY <2>1
<1>9. out[l + 1] = 0
  <2>1. l + 1 \in 1 .. n + 1 /\ l + 1 # i + 1
    BY <1>4
  <2> QED
    BY <1>5, <1>7, <2>1
<1>10. InPlace(out, text)
  <2> SUFFICES ASSUME NEW j \in 1 .. d PROVE out[j] = argv[j]
    BY <1>1, <1>6 DEF InPlace
  <2>1. j \in 1 .. n + 1
    BY <1>1
  <2>2. CASE j # i + 1
    BY <1>7, <2>1, <2>2
  <2>3. CASE j = i + 1
    <3>1. i < d /\ o = 0
      BY <1>5, <2>3
    <3>2. ASSUME i < from PROVE FALSE
      <4>1. i \in i + o .. from - 1 /\ i + 1 \in 1 .. d
        BY <3>1, <3>2
      <4> QED
        BY <1>6, <1>7, <4>1
    <3>3. from = i
      BY <1>4, <3>2
    <3> QED
      BY <1>7, <2>3, <3>3
  <2> QED
    BY <2>2, <2>3
<1>11. (r.i < d => r.offset = 0) /\ r.offset <= l - d
  <2>1. CASE i < d
    <3>1. o = 0
      BY <1>5, <2>1
    <3>2. ASSUME i < from PROVE FALSE
      <4>1. i \in i + o .. from - 1 /\ i + 1 \in 1 .. d
        BY <2>1, <3>1, <3>2
      <4> QED
        BY <1>6, <1>7, <4>1
    <3>3. from = i
      BY <1>4, <3>2
    <3> QED
      BY <1>3, <1>5, <3>3
  <2>2. CASE ~(i < d)
    BY <1>3, <1>8, <2>2
  <2> QED
    BY <2>1, <2>2
<1> QED
  BY <1>1, <1>3, <1>4, <1>5, <1>9, <1>10, <1>11 DEF LaterPass

LEMMA StillRound ==
    ASSUME NEW text \in Seq(Byte), \A k \in DOMAIN text : text[k] # Space, NEW s \in StripType,
           NoMove(s, text), s.i + s.offset < s.length, NEW r, NEW out, Round(s, Whole(text), r, out)
    PROVE  NoMove(r, text) /\ out = Whole(text)
<1>1. PICK n \in Nat : n = Len(text) /\ DOMAIN text = 1 .. n
  OBVIOUS
<1>2. PICK argv \in Seq(Byte) : argv = Whole(text) /\ Len(argv) = n + 1 /\ argv[n + 1] = 0
                               /\ \A k \in 1 .. n : argv[k] = text[k]
  <2>1. 0 \in Byte
    BY DEF Byte
  <2>2. Whole(text) \in Seq(Byte) /\ Len(Whole(text)) = n + 1
    BY <1>1, <2>1, AppendProperties DEF Whole
  <2> QED
    BY <1>1, <2>2, WholeFacts
<1>3. PICK i \in Nat, o \in Nat, l \in Nat, from \in Nat :
        MovedAt(s, r, n, i, o, l, from) /\ MovedChar(argv, out, n, i, o, from)
  <2>1. s.length <= n
    BY <1>1 DEF NoMove
  <2>2. Round(s, argv, r, out)
    BY <1>2
  <2> QED
    BY <1>2, <2>1, <2>2, RoundFacts
<1>4. i = s.i /\ o = s.offset /\ l = s.length /\ r.i = i + 1 /\ r.offset = from - i /\ r.length = l
  BY <1>3 DEF MovedAt
<1>5. o = 0 /\ l = n /\ i < n /\ i <= from
  <2>1. o = 0 /\ l = n
    BY <1>1, <1>4 DEF NoMove
  <2>2. i + o < l /\ i + o <= from
    BY <1>3 DEF MovedAt
  <2> QED
    BY <2>1, <2>2
<1>6. from = i
  <2>1. ASSUME i < from PROVE FALSE
    <3>1. i \in i + o .. from - 1 /\ i + 1 \in 1 .. n
      BY <1>5, <2>1
    <3>2. argv[i + 1] = Space
      BY <1>3, <3>1 DEF MovedChar
    <3> QED
      BY <1>1, <1>2, <3>1, <3>2
  <2> QED
    BY <1>5, <2>1
<1>7. out = argv
  <2>1. PICK q \in Nat :
          /\ out = [argv EXCEPT ![s.i + 1] = argv[q + 1]]
          /\ r = [i |-> s.i + 1, offset |-> q - s.i, length |-> s.length]
    BY <1>2 DEF Round
  <2>2. r.offset = q - i
    BY <1>4, <2>1
  <2>3. q = i
    BY <1>4, <1>6, <2>2
  <2>4. out = [argv EXCEPT ![i + 1] = argv[i + 1]]
    BY <1>4, <2>1, <2>3
  <2> QED
    BY <1>2, <2>4
<1> QED
  BY <1>1, <1>2, <1>4, <1>5, <1>6, <1>7 DEF NoMove

LEMMA FirstEnd ==
    ASSUME NEW text \in Seq(Byte), NEW argv, NEW s \in StripType, FirstPass(s, argv, text),
           s.i + s.offset >= s.length
    PROVE  InPlace(argv, text) /\ s.length - s.offset = Digits(text)
<1>1. PICK n \in Nat, d \in Nat, i \in Nat, o \in Nat :
        n = Len(text) /\ d = Digits(text) /\ i = s.i /\ o = s.offset /\ s.length = n /\ i + o >= n
  BY WholeFacts DEF FirstPass, StripType
<1>2. CASE i = d + 1 /\ o = n - d /\ InPlace(argv, text)
  BY <1>1, <1>2
<1>3. CASE i + o <= n /\ i = Rank(text, i + o) /\ \A j \in 1 .. i : argv[j] = Unspaced(text)[j]
  <2>1. i + o = n
    BY <1>1, <1>3
  <2>2. i = d
    BY <1>1, <1>3, <2>1, RankFacts DEF Digits
  <2> QED
    BY <1>1, <1>3, <2>1, <2>2 DEF InPlace
<1> QED
  BY <1>1, <1>2, <1>3 DEF FirstPass

\* The characters of a colour the user typed, and their number.
LEMMA TypedDigits ==
    ASSUME NEW text \in Seq(Byte), Range(Unspaced(text)) \subseteq HexDigits
    PROVE  /\ Unspaced(text) \in Seq(HexDigits) /\ Len(Unspaced(text)) = Digits(text)
           /\ \A j \in 1 .. Digits(text) : Unspaced(text)[j] # Space /\ Unspaced(text)[j] # 0
<1>1. PICK d \in Nat : d = Digits(text)
  BY WholeFacts
<1>2. PICK t : t = Unspaced(text)
  OBVIOUS
<1>3. t = [j \in 1 .. d |-> t[j]] /\ DOMAIN t = 1 .. d
  BY <1>1, <1>2, RankFacts DEF Digits
<1>4. \A j \in 1 .. d : t[j] \in HexDigits
  BY <1>2, <1>3 DEF Range
<1>5. t \in Seq(HexDigits) /\ Len(t) = d
  BY <1>3, <1>4
<1>6. \A x \in HexDigits : x # Space /\ x # 0
  BY DEF HexDigits, Space
<1> QED
  BY <1>1, <1>2, <1>4, <1>5, <1>6

\* With the digits in place, followed by no more than their form takes, the colour is right.
LEMMA PlaceIntended ==
    ASSUME NEW text \in Seq(Byte), NEW argv \in Seq(Byte), Len(argv) = Len(text) + 1,
           InPlace(argv, text), Range(Unspaced(text)) \subseteq HexDigits,
           Digits(text) \in {3, 6, Half, Full},
           NEW length \in Int, Digits(text) <= length, length <= Len(text),
           length = Digits(text) \/ Form(Len(text)) = Digits(text)
    PROVE  \A c \in 0 .. Half - 1 :
              makeColor(SubSeq(argv, 1, length), TRUE)[c + 1] = Intended(Unspaced(text), c)
<1>1. PICK n \in Nat, d \in Nat, h \in Nat, f \in Nat :
        /\ n = Len(text) /\ d = Digits(text) /\ h = Half /\ f = Full
        /\ d <= length /\ length <= n /\ Len(argv) = n + 1 /\ length \in Nat /\ d >= 3
  <2>1. /\ Len(text) \in Nat /\ Digits(text) \in Nat
        /\ Half \in Nat /\ Full \in Nat /\ Half >= 9 /\ Full = 2 * Half
    BY WholeFacts, HalfSize
  <2>2. Digits(text) >= 3
    BY <2>1
  <2> QED
    BY <2>1, <2>2
<1>2. Form(length) = d
  <2>1. Form(d) = d
    BY <1>1, FormFacts
  <2>2. CASE Form(n) = d
    <3>1. d = 3 \/ d = 6 \/ d = h \/ d = f
      BY <1>1
    <3>2. CASE d = 3
      <4>1. n < 6 /\ length < 6
        BY <1>1, <2>2, <3>2, FormFacts
      <4> QED
        BY <1>1, <3>2, <4>1, FormFacts
    <3>3. CASE d = 6
      <4>1. n < h /\ length < h /\ length >= 6
        BY <1>1, <2>2, <3>3, FormFacts
      <4> QED
        BY <1>1, <3>3, <4>1, FormFacts
    <3>4. CASE d = h
      <4>1. n < f /\ length < f /\ length >= h
        BY <1>1, <2>2, <3>4, FormFacts
      <4> QED
        BY <1>1, <3>4, <4>1, FormFacts
    <3>5. CASE d = f
      BY <1>1, <3>5, FormFacts
    <3> QED
      BY <3>1, <3>2, <3>3, <3>4, <3>5
  <2> QED
    BY <1>1, <2>1, <2>2
<1>3. PICK taken \in Seq(Byte) : /\ taken = SubSeq(argv, 1, length) /\ Len(taken) = length
                                 /\ \A j \in 1 .. length : taken[j] = argv[j]
  <2>1. length \in 1 .. Len(argv)
    BY <1>1
  <2>2. SubSeq(argv, 1, length) \in Seq(Byte) /\ Len(SubSeq(argv, 1, length)) = length
    BY <2>1
  <2>3. \A j \in 1 .. length : SubSeq(argv, 1, length)[j] = argv[j]
    BY <2>1
  <2> QED
    BY <2>2, <2>3
<1>4. PICK digits \in Seq(HexDigits) : /\ digits = Unspaced(text) /\ Len(digits) = d
                                        /\ \A j \in 1 .. d : argv[j] = digits[j]
  BY <1>1, TypedDigits DEF InPlace
<1>5. \A j \in 1 .. d : taken[j] = digits[j]
  BY <1>1, <1>3, <1>4
<1>6. Len(digits) \in {3, 6, Half, Full} /\ Len(digits) <= Len(taken) /\ Form(Len(taken)) = Len(digits)
  BY <1>1, <1>2, <1>3, <1>4
<1>7. \A c \in 0 .. Half - 1 : makeColor(taken, TRUE)[c + 1] = Intended(digits, c)
  BY <1>4, <1>5, <1>6, DigitsIntended
<1> QED
  BY <1>3, <1>4, <1>7

-----------------------------------------------------------------------------
(* The colour that was typed.                                              *)

ColorTyped ==
    /\ cmd.word \in {"color", "fade"} /\ Never("same_string")
    /\ Range(Unspaced(cmd.text)) \subseteq HexDigits
    /\ Len(Unspaced(cmd.text)) \in {3, 6, Half, Full}
    /\ Len(handle) = 1 \/ Form(Len(cmd.text)) = Len(Unspaced(cmd.text))

Typed(colour) == \A c \in 0 .. Half - 1 : colour[c + 1] = Intended(Unspaced(cmd.text), c)

\* Where the threads are with the text: with spaces in it, one at a time.
OneStrips == \A s, t \in Threads : Stripping(s) /\ Stripping(t) => s = t
Pass(t) == \/ FirstPass(strip[t], argv3, cmd.text)
           \/ LaterPass(strip[t], argv3, cmd.text) /\ Len(handle) # 1
StripText ==
    IF Spaces
    THEN /\ OneStrips
         /\ (\A t \in Threads : ~Stripping(t)) =>
               \/ argv3 = Whole(cmd.text)
               \/ InPlace(argv3, cmd.text)
         /\ \A t \in Threads : Stripping(t) => Pass(t)
    ELSE /\ argv3 = Whole(cmd.text)
         /\ \A t \in Threads : Stripping(t) => NoMove(strip[t], cmd.text)

\* The colours of a thread that has its own.
ColorDone(t) ==
    /\ pc[t] # "lines"
    /\ pc[t] \in {"show", "fading"} => Typed(shades[t].to)
    /\ pc[t] \in {"close", "ended"} => Typed(unit[handle[t]].shown)

ColorInv ==
    /\ (\A t \in Threads : pc[t] \in {"none", "begin"}) => argv3 = Whole(cmd.text)
    /\ ColorTyped => StripText /\ \A t \in Threads : ColorDone(t)

\* No thread has begun.
LEMMA ColorBefore ==
    ASSUME \A t \in Threads : pc[t] \in {"none", "begin"}, argv3 = Whole(cmd.text)
    PROVE  ColorInv
  BY DEF ColorInv, StripText, OneStrips, ColorDone, Stripping, At_

LEMMA ColorInit == ASSUME Init PROVE ColorInv
<1>1. (\A t \in Threads : pc[t] \in {"none", "begin"}) /\ argv3 = Whole(cmd.text)
  BY DEF Init, Whole
<1> QED
  BY <1>1, ColorBefore

\* Nothing a thread knows changes.
LEMMA ColorSame ==
    ASSUME ColorInv, cmd' = cmd, handle' = handle, Never("same_string")' => Never("same_string"),
           argv3' = argv3, strip' = strip, shades' = shades, unit' = unit, pc' = pc
    PROVE  ColorInv'
  BY DEF ColorInv, ColorTyped, StripText, OneStrips, Pass, ColorDone, Typed, Stripping, At_, Spaces

\* main only starts threads.
LEMMA ColorMain == ASSUME SelectInv, TypeInv, ColorInv, Main PROVE ColorInv'
<1>1. /\ cmd' = cmd /\ argv3' = argv3 /\ strip' = strip /\ shades' = shades /\ unit' = unit
      /\ happened \subseteq happened'
      /\ handle' = handle \/ \A t \in Threads : pc[t] = "none"
      /\ \A t \in Threads : pc'[t] = pc[t] \/ (pc[t] = "none" /\ pc'[t] \in {"none", "begin"})
  BY MainThreads
<1>2. CASE \A t \in Threads : pc[t] \in {"none", "begin"}
  <2>1. \A t \in Threads : pc'[t] \in {"none", "begin"}
    BY <1>1, <1>2
  <2>2. argv3' = Whole(cmd'.text)
    BY <1>1, <1>2 DEF ColorInv
  <2>3. \A t \in Threads : ~Stripping(t)'
    BY <2>1 DEF Stripping, At_
  <2>4. StripText'
    BY <2>2, <2>3 DEF StripText, OneStrips
  <2>5. \A t \in Threads : ColorDone(t)'
    BY <2>1 DEF ColorDone
  <2> QED
    BY <2>2, <2>4, <2>5 DEF ColorInv
<1>3. CASE ~\A t \in Threads : pc[t] \in {"none", "begin"}
  <2>1. handle' = handle /\ ~\A t \in Threads : pc'[t] \in {"none", "begin"}
    BY <1>1, <1>3
  <2>2. ColorTyped' => ColorTyped
    BY <1>1, <2>1 DEF ColorTyped, Never
  <2>3. ASSUME ColorTyped PROVE StripText' /\ \A t \in Threads : ColorDone(t)'
    <3>1. \A t \in Threads : Stripping(t)' <=> Stripping(t)
      BY <1>1 DEF Stripping, At_
    <3>2. StripText /\ \A t \in Threads : ColorDone(t)
      BY <2>3 DEF ColorInv
    <3>3. StripText'
      BY <1>1, <2>1, <3>1, <3>2 DEF StripText, OneStrips, Pass, Spaces
    <3>4. \A t \in Threads : ColorDone(t)'
      BY <1>1, <2>1, <3>2 DEF ColorDone, Typed
    <3> QED
      BY <3>3, <3>4
  <2> QED
    BY <2>1, <2>2, <2>3 DEF ColorInv
<1> QED
  BY <1>2, <1>3

\* Thread t takes a step; of the others nothing changes but the text.
LEMMA ColorMove ==
    ASSUME SelectInv, TypeInv, ColorInv, NEW t \in Threads, pc[t] # "none",
           cmd' = cmd, handle' = handle, happened \subseteq happened',
           NEW stage, stage \notin {"none", "begin"}, pc' = [pc EXCEPT ![t] = stage],
           \A s \in Threads \ {t} : shades'[s] = shades[s],
           \A u \in Units \ {handle[t]} : unit'[u] = unit[u],
           ColorTyped /\ ColorTyped' => StripText' /\ ColorDone(t)'
    PROVE  ColorInv'
<1>1. pc'[t] = stage /\ \A s \in Threads \ {t} : pc'[s] = pc[s]
  BY DEF TypeInv, ThreadTypes, StageOK
<1>2. ColorTyped' => ColorTyped
  BY DEF ColorTyped, Never
<1>3. ASSUME ColorTyped, NEW s \in Threads \ {t} PROVE ColorDone(s)'
  <2>1. ColorDone(s) /\ pc'[s] = pc[s] /\ shades'[s] = shades[s]
    BY <1>1, <1>3 DEF ColorInv
  <2>2. pc[s] # "none" => unit'[handle[s]] = unit[handle[s]]
    BY OtherUnit DEF TypeInv, ThreadTypes
  <2> QED
    BY <2>1, <2>2 DEF ColorDone, Typed
<1> QED
  BY <1>1, <1>2, <1>3 DEF ColorInv

\* The text is left alone by a thread that does not strip it.
LEMMA TextKept ==
    ASSUME TypeInv, StripText, NEW t \in Threads, ~Stripping(t), cmd' = cmd, handle' = handle,
           argv3' = argv3, strip' = strip, NEW stage, stage # "strip", pc' = [pc EXCEPT ![t] = stage]
    PROVE  StripText'
<1>1. \A s \in Threads : Stripping(s)' <=> Stripping(s)
  BY DEF Stripping, At_, TypeInv, ThreadTypes, StageOK
<1> QED
  BY <1>1 DEF StripText, OneStrips, Pass, Spaces

\* A step that only other commands take.
LEMMA ColorOther ==
    ASSUME ColorInv, NEW t \in Threads, cmd' = cmd, handle' = handle, happened \subseteq happened',
           ~ColorTyped, pc'[t] \notin {"none", "begin"}
    PROVE  ColorInv'
  BY DEF ColorInv, ColorTyped, Never

LEMMA ColorUploads ==
    ASSUME TypeInv, ColorInv, NEW t \in Threads,
           \/ Simple(t) \/ BeginUpload(t) \/ UploadVersion(t) \/ UploadHeader(t) \/ UploadSlot(t)
           \/ UploadEnd(t)
    PROVE  ColorInv'
<1> USE DEF frame, args, mainVars, Goto, At_
<1>1. cmd' = cmd /\ handle' = handle /\ happened \subseteq happened'
  BY DEF Simple, BeginUpload, UploadVersion, UploadHeader, UploadSlot, UploadEnd, LoadLine, Happens
<1>2. pc'[t] \notin {"none", "begin"}
  BY DEF Simple, BeginUpload, UploadVersion, UploadHeader, UploadSlot, UploadEnd, AtLine,
         TypeInv, ThreadTypes, StageOK
<1>3. ~ColorTyped
  <2>1. CASE Simple(t) \/ BeginUpload(t)
    BY <2>1 DEF Simple, BeginUpload, Uploading, ColorTyped
  <2>2. CASE UploadVersion(t) \/ UploadHeader(t) \/ UploadSlot(t) \/ UploadEnd(t)
    BY <2>2 DEF UploadVersion, UploadHeader, UploadSlot, UploadEnd, AtLine, ColorInv, ColorDone
  <2> QED
    BY <2>1, <2>2
<1> QED
  BY <1>1, <1>2, <1>3, ColorOther

\* The unit shows the colour it is given.
LEMMA SetColorShown ==
    ASSUME TypeInv, SelectInv, NEW t \in Threads, pc[t] # "none", NEW color, setColor(t, color)
    PROVE  unit'[handle[t]].shown = color /\ \A u \in Units \ {handle[t]} : unit'[u] = unit[u]
<1>1. PICK h \in Units : h = handle[t]
  BY ThreadUnit DEF TypeInv, ThreadTypes
<1>2. PICK level : level = Level(t)
  OBVIOUS
<1>3. unit \in [Units -> UnitType]
  BY DEF TypeInv
<1>4. PICK v \in UnitType : v = unit[h]
  BY <1>1, <1>3
<1>5. unit' = [unit EXCEPT ![h] = [v EXCEPT !.shown = color, !.level = level]]
  <2>1. unit' = [unit EXCEPT ![h].shown = color, ![h].level = level]
    BY <1>1, <1>2 DEF setColor
  <2> QED
    BY <1>3, <1>4, <2>1
<1>6. [v EXCEPT !.shown = color, !.level = level].shown = color
  BY DEF UnitType
<1> QED
  BY <1>1, <1>3, <1>5, <1>6

LEMMA ColorShow == ASSUME SelectInv, TypeInv, ColorInv, NEW t \in Threads, Show(t) PROVE ColorInv'
<1>1. /\ pc[t] = "show" /\ setColor(t, shades[t].to) /\ pc' = [pc EXCEPT ![t] = "close"]
      /\ cmd' = cmd /\ handle' = handle /\ happened' = happened /\ shades' = shades
      /\ argv3' = argv3 /\ strip' = strip
  BY DEF Show, At_, Goto, frame, args, mainVars
<1>2. unit'[handle[t]].shown = shades[t].to /\ \A u \in Units \ {handle[t]} : unit'[u] = unit[u]
  BY <1>1, SetColorShown
<1>3. ASSUME ColorTyped PROVE StripText' /\ ColorDone(t)'
  <2>1. StripText'
    BY <1>1, <1>3, TextKept DEF ColorInv, Stripping, At_
  <2>2. ColorDone(t) /\ pc'[t] = "close"
    BY <1>1, <1>3 DEF ColorInv, TypeInv, ThreadTypes, StageOK
  <2>3. ColorDone(t)'
    BY <1>1, <1>2, <2>2 DEF ColorDone, Typed
  <2> QED
    BY <2>1, <2>3
<1> QED
  BY <1>1, <1>2, <1>3, ColorMove

LEMMA ColorClose == ASSUME SelectInv, TypeInv, ColorInv, NEW t \in Threads, Close(t) PROVE ColorInv'
<1>1. /\ pc[t] = "close" /\ pc' = [pc EXCEPT ![t] = "ended"] /\ unit' = unit
      /\ cmd' = cmd /\ handle' = handle /\ happened' = happened /\ shades' = shades
      /\ argv3' = argv3 /\ strip' = strip
  BY DEF Close, At_, Goto, frame, args, mainVars
<1>2. ASSUME ColorTyped PROVE StripText' /\ ColorDone(t)'
  <2>1. StripText'
    BY <1>1, <1>2, TextKept DEF ColorInv, Stripping, At_
  <2>2. ColorDone(t) /\ pc'[t] = "ended"
    BY <1>1, <1>2 DEF ColorInv, TypeInv, ThreadTypes, StageOK
  <2>3. ColorDone(t)'
    BY <1>1, <2>2 DEF ColorDone, Typed
  <2> QED
    BY <2>1, <2>3
<1> QED
  BY <1>1, <1>2, ColorMove

\* The last colour of a fade is the one typed.
LEMMA ColorFade == ASSUME SelectInv, TypeInv, ColorInv, NEW t \in Threads, FadeStep(t) PROVE ColorInv'
<1>1. /\ pc[t] = "fading" /\ cmd' = cmd /\ handle' = handle /\ happened' = happened
      /\ argv3' = argv3 /\ strip' = strip
  BY DEF FadeStep, At_, frame, args, mainVars
<1>2. PICK from, to : from = shades[t].from /\ to = shades[t].to
  OBVIOUS
<1>3. PICK steps \in Nat, n \in Nat : steps = FadeSteps(cmd.time) /\ n = shades[t].step + 1
  BY FadeMove DEF ShadeType
<1>4. /\ shades' = [shades EXCEPT ![t] = [from |-> from, to |-> to, step |-> n]]
      /\ setColor(t, FadeColor(from, to, steps, n))
      /\ pc' = [pc EXCEPT ![t] = IF n = steps THEN "close" ELSE "fading"]
  BY <1>2, <1>3, FadeMove
<1>5. PICK stage \in {"close", "fading"} :
        stage = (IF n = steps THEN "close" ELSE "fading") /\ pc' = [pc EXCEPT ![t] = stage]
  BY <1>4
<1>6. /\ unit'[handle[t]].shown = FadeColor(from, to, steps, n)
      /\ \A u \in Units \ {handle[t]} : unit'[u] = unit[u]
  BY <1>1, <1>4, SetColorShown
<1>7. shades'[t].to = to /\ \A s \in Threads \ {t} : shades'[s] = shades[s]
  <2>1. shades \in [Threads -> ShadeType]
    BY DEF TypeInv, ThreadTypes, ShadesOK
  <2>2. shades'[t] = [from |-> from, to |-> to, step |-> n]
    BY <1>4, <2>1
  <2>3. [from |-> from, to |-> to, step |-> n].to = to
    OBVIOUS
  <2> QED
    BY <1>4, <2>1, <2>2, <2>3
<1>8. ASSUME ColorTyped PROVE StripText' /\ ColorDone(t)'
  <2>1. StripText'
    BY <1>1, <1>5, <1>8, TextKept DEF ColorInv, Stripping, At_
  <2>2. Typed(to) /\ pc'[t] = stage
    BY <1>1, <1>2, <1>5, <1>8 DEF ColorInv, ColorDone, TypeInv, ThreadTypes, StageOK
  <2>3. stage = "close" => FadeColor(from, to, steps, n) = to
    BY <1>5 DEF FadeColor
  <2>4. ColorDone(t)'
    BY <1>1, <1>5, <1>6, <1>7, <2>2, <2>3 DEF ColorDone, Typed
  <2> QED
    BY <2>1, <2>4
<1> QED
  BY <1>1, <1>5, <1>6, <1>7, <1>8, ColorMove

-----------------------------------------------------------------------------
(* The text is stripped.                                                   *)

LEMMA TextType ==
    ASSUME TypeInv
    PROVE  /\ cmd.text \in Seq(Byte) /\ argv3 \in Seq(Byte) /\ strip \in [Threads -> StripType]
           /\ Len(argv3) = Len(cmd.text) + 1 /\ argv3[Len(cmd.text) + 1] = 0
           /\ \A k \in 1 .. Len(cmd.text) : cmd.text[k] # 0
<1>1. cmd.text \in Seq(Byte \ {0})
  BY CommandAssumption DEF TypeInv, MainTypes
<1>2. \A k \in 1 .. Len(cmd.text) : cmd.text[k] # 0
  BY <1>1, ElementOfSeq
<1>3. cmd.text \in Seq(Byte)
  BY <1>1
<1> QED
  BY <1>2, <1>3, TextFacts DEF TypeInv, ThreadTypes, StripOK

\* What ColorTyped says of the digits.
LEMMA TypedFacts ==
    ASSUME TypeInv, ColorTyped
    PROVE  /\ Digits(cmd.text) \in {3, 6, Half, Full}
           /\ \A j \in 1 .. Digits(cmd.text) : /\ Unspaced(cmd.text)[j] # Space
                                               /\ Unspaced(cmd.text)[j] # 0
           /\ Len(handle) = 1 \/ Form(Len(cmd.text)) = Digits(cmd.text)
<1>1. cmd.text \in Seq(Byte) /\ Range(Unspaced(cmd.text)) \subseteq HexDigits
  BY TextType DEF ColorTyped
<1>2. /\ Len(Unspaced(cmd.text)) = Digits(cmd.text)
      /\ \A j \in 1 .. Digits(cmd.text) : /\ Unspaced(cmd.text)[j] # Space
                                          /\ Unspaced(cmd.text)[j] # 0
  BY <1>1, TypedDigits
<1> QED
  BY <1>2 DEF ColorTyped

\* One unit has one thread, which begins with the text as it was typed.
LEMMA FirstFresh ==
    ASSUME TypeInv, ColorInv, NEW t \in Threads, pc[t] = "begin", Len(handle) = 1
    PROVE  argv3 = Whole(cmd.text)
<1>1. ASSUME NEW s \in Threads, s # t PROVE pc[s] = "none"
  <2>1. s \in Nat /\ t \in Nat /\ s >= 1 /\ t >= 1
    BY MaxAssumption DEF Threads
  <2>2. t <= 1 /\ (pc[s] # "none" => s <= 1)
    BY DEF TypeInv, ThreadTypes, StageOK
  <2> QED
    BY <1>1, <2>1, <2>2
<1> QED
  BY <1>1 DEF ColorInv

LEMMA BeginText ==
    ASSUME SelectInv, TypeInv, ColorInv, NEW t \in Threads, BeginColor(t), ColorTyped, ColorTyped'
    PROVE  StripText'
<1>1. /\ pc[t] = "begin" /\ pc' = [pc EXCEPT ![t] = "strip"] /\ cmd' = cmd /\ handle' = handle
      /\ argv3' = argv3 /\ strip' = [strip EXCEPT ![t] = [NoStrip EXCEPT !.length = TextLength]]
  BY DEF BeginColor, At_, Goto, frame, args, mainVars
<1>2. PICK n \in Nat, d \in Nat, length \in Nat :
        /\ n = Len(cmd.text) /\ d = Digits(cmd.text) /\ length = TextLength
        /\ length <= n /\ argv3[length + 1] = 0 /\ d <= n
  BY TextFacts, TextType, WholeFacts
<1>3. PICK s : s = [i |-> 0, offset |-> 0, length |-> length]
  OBVIOUS
<1>4. strip' = [strip EXCEPT ![t] = s] /\ strip'[t] = s
  <2>1. [NoStrip EXCEPT !.length = length] = s
    BY <1>3 DEF NoStrip
  <2> QED
    BY <1>1, <1>2, <2>1, TextType
<1>5. s.i = 0 /\ s.offset = 0 /\ s.length = length
  BY <1>3
<1>6. \A u \in Threads : Stripping(u)' <=> u = t \/ Stripping(u)
  BY <1>1 DEF Stripping, At_, TypeInv, ThreadTypes, StageOK
<1>7. ASSUME argv3 = Whole(cmd.text) PROVE length = n
  <2>1. ASSUME length < n PROVE FALSE
    <3>1. length + 1 \in 1 .. n
      BY <1>2, <2>1
    <3> QED
      BY <1>2, <1>7, <3>1, TextType, WholeFacts
  <2> QED
    BY <1>2, <2>1
<1>8. CASE ~Spaces
  <2>1. argv3 = Whole(cmd.text) /\ \A u \in Threads : Stripping(u) => NoMove(strip[u], cmd.text)
    BY <1>8 DEF ColorInv, StripText
  <2>2. NoMove(s, cmd.text)
    BY <1>2, <1>5, <1>7, <2>1 DEF NoMove
  <2>3. \A u \in Threads : Stripping(u)' => NoMove(strip'[u], cmd.text)
    BY <1>4, <1>6, <2>1, <2>2, TextType
  <2> QED
    BY <1>1, <1>8, <2>1, <2>3 DEF StripText, Spaces
<1>9. CASE Spaces
  <2>1. \A u \in Threads : ~Stripping(u)
    <3>1. ASSUME NEW u \in Threads \ {t}, Stripping(u) PROVE FALSE
      <4>1. "same_string" \in happened'
        BY <1>9, <3>1 DEF BeginColor, Happens
      <4> QED
        BY <4>1 DEF ColorTyped, Never
    <3> QED
      BY <1>1, <3>1 DEF Stripping, At_
  <2>2. argv3 = Whole(cmd.text) \/ InPlace(argv3, cmd.text)
    BY <1>9, <2>1 DEF ColorInv, StripText
  <2>3. CASE argv3 = Whole(cmd.text)
    <3>1. s.length = Len(cmd.text) /\ s.i + s.offset = 0
      BY <1>2, <1>5, <1>7, <2>3
    <3>2. Rank(cmd.text, 0) = 0
      BY TextType, RankFacts
    <3> QED
      <4>1. FirstPass(s, argv3, cmd.text)
        BY <1>2, <1>5, <2>3, <3>1, <3>2 DEF FirstPass
      <4> QED
        BY <1>1, <1>4, <1>6, <1>9, <2>1, <4>1 DEF StripText, OneStrips, Pass, Spaces
  <2>4. CASE argv3 # Whole(cmd.text)
    <3>1. Len(handle) # 1
      BY <1>1, <2>4, FirstFresh
    <3>2. d <= length
      <4>1. ASSUME length < d PROVE FALSE
        <5>1. length + 1 \in 1 .. d
          BY <1>2, <4>1
        <5>2. argv3[length + 1] = Unspaced(cmd.text)[length + 1] /\ argv3[length + 1] # 0
          BY <1>2, <2>2, <2>4, <5>1, TypedFacts DEF InPlace
        <5> QED
          BY <1>2, <5>2
      <4> QED
        BY <1>2, <4>1
    <3>3. LaterPass(s, argv3, cmd.text)
      BY <1>2, <1>5, <2>2, <2>4, <3>2 DEF LaterPass
    <3> QED
      BY <1>1, <1>4, <1>6, <1>9, <2>1, <3>1, <3>3 DEF StripText, OneStrips, Pass, Spaces
  <2> QED
    BY <2>3, <2>4
<1> QED
  BY <1>8, <1>9

LEMMA ColorBegin ==
    ASSUME SelectInv, TypeInv, ColorInv, NEW t \in Threads, BeginColor(t) PROVE ColorInv'
<1>1. /\ pc[t] = "begin" /\ pc' = [pc EXCEPT ![t] = "strip"] /\ cmd' = cmd /\ handle' = handle
      /\ happened \subseteq happened' /\ unit' = unit
  BY DEF BeginColor, At_, Goto, Happens, frame, args, mainVars
<1>2. \A s \in Threads \ {t} : shades'[s] = shades[s]
  BY DEF BeginColor, TypeInv, ThreadTypes, ShadesOK
<1>3. ColorDone(t)'
  BY <1>1 DEF ColorDone, TypeInv, ThreadTypes, StageOK
<1> QED
  BY <1>1, <1>2, <1>3, BeginText, ColorMove

LEMMA StripStepText ==
    ASSUME TypeInv, ColorInv, NEW t \in Threads, StripStep(t), ColorTyped PROVE StripText'
<1>1. /\ Stripping(t) /\ pc' = pc /\ cmd' = cmd /\ handle' = handle
      /\ strip[t].i + strip[t].offset < strip[t].length
  BY DEF StripStep, frame, args, mainVars
<1>2. /\ Round(strip[t], argv3, strip'[t], argv3')
      /\ \A u \in Threads \ {t} : strip'[u] = strip[u]
  BY StripMove, TextType DEF Round
<1>3. \A u \in Threads : Stripping(u)' <=> Stripping(u)
  BY <1>1 DEF Stripping, At_
<1>4. /\ cmd.text \in Seq(Byte) /\ argv3 \in Seq(Byte) /\ strip[t] \in StripType
      /\ Len(argv3) = Len(cmd.text) + 1 /\ argv3[Len(cmd.text) + 1] = 0
  BY TextType
<1>5. CASE ~Spaces
  <2>1. argv3 = Whole(cmd.text) /\ \A u \in Threads : Stripping(u) => NoMove(strip[u], cmd.text)
    BY <1>5 DEF ColorInv, StripText
  <2>2. \A k \in DOMAIN cmd.text : cmd.text[k] # Space
    BY <1>5 DEF Spaces
  <2>3. NoMove(strip'[t], cmd.text) /\ argv3' = Whole(cmd.text)
    BY <1>1, <1>2, <1>4, <2>1, <2>2, StillRound
  <2> QED
    BY <1>1, <1>2, <1>3, <1>5, <2>1, <2>3 DEF StripText, Spaces
<1>6. CASE Spaces
  <2>1. OneStrips /\ Pass(t)
    BY <1>1, <1>6 DEF ColorInv, StripText
  <2>2. FirstPass(strip[t], argv3, cmd.text) => FirstPass(strip'[t], argv3', cmd.text)
    BY <1>1, <1>2, <1>4, FirstRound
  <2>3. LaterPass(strip[t], argv3, cmd.text) => LaterPass(strip'[t], argv3', cmd.text)
    BY <1>1, <1>2, <1>4, TypedFacts, LaterRound
  <2>4. Pass(t)'
    BY <1>1, <2>1, <2>2, <2>3 DEF Pass
  <2>5. \A u \in Threads : Stripping(u) => u = t
    BY <1>1, <2>1 DEF OneStrips
  <2> QED
    BY <1>1, <1>3, <1>6, <2>1, <2>4, <2>5 DEF StripText, OneStrips, Spaces
<1> QED
  BY <1>5, <1>6

LEMMA ColorStrip ==
    ASSUME SelectInv, TypeInv, ColorInv, NEW t \in Threads, StripStep(t) PROVE ColorInv'
<1>1. /\ pc[t] = "strip" /\ pc' = pc /\ cmd' = cmd /\ handle' = handle
      /\ happened' = happened /\ unit' = unit /\ shades' = shades
  BY DEF StripStep, Stripping, At_, frame, args, mainVars
<1>2. pc' = [pc EXCEPT ![t] = "strip"]
  BY <1>1 DEF TypeInv, ThreadTypes, StageOK
<1>3. ColorDone(t)'
  BY <1>1 DEF ColorDone
<1> QED
  BY <1>1, <1>2, <1>3, StripStepText, ColorMove

\* At the end the digits are in place, and as many characters are taken as their form has room for.
LEMMA StripEndText ==
    ASSUME TypeInv, ColorInv, NEW t \in Threads, StripEnd(t), ColorTyped
    PROVE  /\ Typed(TypedColor(t))
           /\ InPlace(argv3, cmd.text)
<1>1. PICK n \in Nat, d \in Nat, i \in Nat, o \in Nat, l \in Nat :
        /\ n = Len(cmd.text) /\ d = Digits(cmd.text) /\ d <= n
        /\ i = strip[t].i /\ o = strip[t].offset /\ l = strip[t].length /\ i + o >= l
  <2>1. strip[t].i \in Nat /\ strip[t].offset \in Nat /\ strip[t].length \in Nat
    BY TextType DEF StripType
  <2>2. strip[t].i + strip[t].offset >= strip[t].length
    BY DEF StripEnd
  <2> QED
    BY <2>1, <2>2, TextType, WholeFacts
<1>2. /\ Stripping(t) /\ cmd.text \in Seq(Byte) /\ argv3 \in Seq(Byte) /\ strip[t] \in StripType
      /\ Len(argv3) = Len(cmd.text) + 1
  BY TextType DEF StripEnd
<1>3. /\ InPlace(argv3, cmd.text) /\ d <= l - o /\ l - o <= n
      /\ l - o = d \/ Len(handle) # 1
  <2>1. CASE ~Spaces
    <3>1. argv3 = Whole(cmd.text) /\ NoMove(strip[t], cmd.text)
      BY <1>2, <2>1 DEF ColorInv, StripText
    <3>2. \A k \in DOMAIN cmd.text : cmd.text[k] # Space
      BY <2>1 DEF Spaces
    <3>3. d = n /\ \A k \in 1 .. n : Unspaced(cmd.text)[k] = cmd.text[k]
      BY <1>1, <1>2, <3>2, UnspacedWhole DEF Digits
    <3>4. InPlace(argv3, cmd.text)
      BY <1>1, <1>2, <3>1, <3>3, WholeFacts DEF InPlace
    <3>5. l = n /\ o = 0
      BY <1>1, <3>1 DEF NoMove
    <3> QED
      BY <1>1, <3>3, <3>4, <3>5
  <2>2. CASE Spaces
    <3>1. Pass(t)
      BY <1>2, <2>2 DEF ColorInv, StripText
    <3>2. CASE FirstPass(strip[t], argv3, cmd.text)
      <4>1. InPlace(argv3, cmd.text) /\ strip[t].length - strip[t].offset = Digits(cmd.text)
        BY <1>1, <1>2, <3>2, FirstEnd
      <4> QED
        BY <1>1, <4>1
    <3>3. CASE LaterPass(strip[t], argv3, cmd.text) /\ Len(handle) # 1
      BY <1>1, <3>3 DEF LaterPass
    <3> QED
      BY <3>1, <3>2, <3>3 DEF Pass
  <2> QED
    BY <2>1, <2>2
<1>4. PICK length \in Int : length = l - o
  BY <1>1
<1>5. \A c \in 0 .. Half - 1 :
         makeColor(SubSeq(argv3, 1, length), TRUE)[c + 1] = Intended(Unspaced(cmd.text), c)
  <2>1. Digits(cmd.text) <= length /\ length <= Len(cmd.text)
    BY <1>1, <1>3, <1>4
  <2>2. length = Digits(cmd.text) \/ Form(Len(cmd.text)) = Digits(cmd.text)
    BY <1>1, <1>3, <1>4, TypedFacts
  <2>3. Range(Unspaced(cmd.text)) \subseteq HexDigits
    BY DEF ColorTyped
  <2> QED
    BY <1>2, <1>3, <2>1, <2>2, <2>3, TypedFacts, PlaceIntended
<1> QED
  BY <1>1, <1>3, <1>4, <1>5 DEF Typed, TypedColor

LEMMA ColorEnd == ASSUME SelectInv, TypeInv, ColorInv, NEW t \in Threads, StripEnd(t) PROVE ColorInv'
<1>1. PICK stage \in {"fading", "show"} :
        /\ Stripping(t) /\ pc' = [pc EXCEPT ![t] = stage] /\ cmd' = cmd /\ handle' = handle
        /\ happened' = happened /\ unit' = unit /\ argv3' = argv3 /\ strip' = strip
  BY DEF StripEnd, Goto, frame, args, mainVars
<1>2. shades'[t].to = TypedColor(t) /\ \A s \in Threads \ {t} : shades'[s] = shades[s]
  <2>1. PICK to : to = TypedColor(t)
    OBVIOUS
  <2>2. PICK shade \in ShadeType : shade = shades[t]
    BY DEF TypeInv, ThreadTypes, ShadesOK
  <2>3. PICK from : from = IF cmd.word = "fade" THEN makeColor(shade.from, TRUE) ELSE shade.from
    OBVIOUS
  <2>4. shades \in [Threads -> ShadeType]
    BY DEF TypeInv, ThreadTypes, ShadesOK
  <2>5. shades' = [shades EXCEPT ![t] = [[shade EXCEPT !.to = to] EXCEPT !.from = from]]
    <3>1. shades' = [shades EXCEPT ![t].to = to,
                       ![t].from = IF cmd.word = "fade" THEN makeColor(@, TRUE) ELSE @]
      BY <2>1 DEF StripEnd
    <3> QED
      BY <2>2, <2>3, <2>4, <3>1 DEF ShadeType
  <2>6. [[shade EXCEPT !.to = to] EXCEPT !.from = from].to = to
    BY DEF ShadeType
  <2> QED
    BY <2>1, <2>4, <2>5, <2>6
<1>3. ASSUME ColorTyped PROVE StripText' /\ ColorDone(t)'
  <2>1. pc'[t] = stage /\ \A s \in Threads : Stripping(s)' <=> Stripping(s) /\ s # t
    BY <1>1 DEF Stripping, At_, TypeInv, ThreadTypes, StageOK
  <2>2. Typed(TypedColor(t)) /\ InPlace(argv3, cmd.text)
    BY <1>3, StripEndText
  <2>3. StripText'
    <3>1. StripText
      BY <1>3 DEF ColorInv
    <3>2. CASE ~Spaces
      BY <1>1, <2>1, <3>1, <3>2 DEF StripText, Spaces
    <3>3. CASE Spaces
      <4>1. \A s \in Threads : ~Stripping(s)'
        BY <1>1, <2>1, <3>1, <3>3 DEF StripText, OneStrips
      <4>2. InPlace(argv3', cmd'.text)
        BY <1>1, <2>2
      <4>3. OneStrips' /\ Spaces'
        BY <1>1, <3>3, <4>1 DEF OneStrips, Spaces
      <4> QED
        BY <4>1, <4>2, <4>3 DEF StripText
    <3> QED
      BY <3>1, <3>2, <3>3
  <2>4. ColorDone(t)'
    BY <1>1, <1>2, <2>1, <2>2 DEF ColorDone, Typed
  <2> QED
    BY <2>3, <2>4
<1>4. pc[t] # "none"
  BY <1>1 DEF Stripping, At_
<1> QED
  BY <1>1, <1>2, <1>3, <1>4, ColorMove

LEMMA ColorAlways == Spec => []ColorInv
<1>1. Init => ColorInv
  BY ColorInit
<1>2. SelectInv /\ TypeInv /\ ColorInv /\ [Next]_vars => ColorInv'
  <2> SUFFICES ASSUME SelectInv, TypeInv, ColorInv, [Next]_vars PROVE ColorInv'
    OBVIOUS
  <2>1. CASE Main
    BY <2>1, ColorMain
  <2>2. ASSUME NEW t \in Threads, Run(t) PROVE ColorInv'
    <3>1. CASE \/ Simple(t) \/ BeginUpload(t) \/ UploadVersion(t) \/ UploadHeader(t)
               \/ UploadSlot(t) \/ UploadEnd(t)
      BY <3>1, ColorUploads
    <3>2. CASE BeginColor(t)
      BY <3>2, ColorBegin
    <3>3. CASE StripStep(t)
      BY <3>3, ColorStrip
    <3>4. CASE StripEnd(t)
      BY <3>4, ColorEnd
    <3>5. CASE Show(t)
      BY <3>5, ColorShow
    <3>6. CASE FadeStep(t)
      BY <3>6, ColorFade
    <3>7. CASE Close(t)
      BY <3>7, ColorClose
    <3> QED
      BY <2>2, <3>1, <3>2, <3>3, <3>4, <3>5, <3>6, <3>7 DEF Run
  <2>3. CASE UNCHANGED vars
    BY <2>3, ColorSame DEF vars, args, mainVars, threadVars, Never
  <2> QED
    BY <2>1, <2>2, <2>3 DEF Next
<1> QED
  BY <1>1, <1>2, SelectAlways, TypeAlways, PTL DEF Spec

\* Every unit shows the colour that was typed, in whichever form and with whatever spaces, once
\* its thread is through with it: however the threads were interleaved where the text has no
\* spaces, and one thread after the other where it has (makeColor(), ptrim-lib.cc:222-300).
THEOREM TypedColorShown == Spec => []ColorAsTyped
<1>1. SelectInv /\ TypeInv /\ ColorInv => ColorAsTyped
  <2> SUFFICES ASSUME SelectInv, TypeInv, ColorInv, ColorTyped,
                      NEW t \in 1 .. Len(handle), pc[t] \in {"close", "ended"}
               PROVE  Typed(unit[handle[t]].shown)
    BY DEF ColorAsTyped, ColorTyped, Typed
  <2>1. t \in Threads
    <3>1. Len(handle) \in Nat /\ Len(path_list) \in Nat /\ Len(handle) + Len(path_list) <= MAX_DEVICES
      BY DEF SelectInv, SelectTypes
    <3> QED
      BY <3>1, MaxAssumption DEF Threads
  <2> QED
    BY <2>1 DEF ColorInv, ColorDone
<1> QED
  BY <1>1, ColorAlways, SelectAlways, TypeAlways, PTL

=============================================================================
