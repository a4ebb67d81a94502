---------------------------- MODULE GatewayProofs ----------------------------
(***************************************************************************)
(* Safety of the console's view of LiteLLM: of the key page, for any       *)
(* number of keys, any size of LiteLLM's pages and any interleaving of     *)
(* listings, deletions and generations; and, after it, of the usage on the *)
(* Monitoring page, for any keys, models, window and failures.  The two    *)
(* are separate systems that share no variable: a theorem is about the one *)
(* or the other.                                                           *)
(***************************************************************************)
EXTENDS GatewayKeys, Monitoring, SequenceTheorems, TLAPS

Listed == [stage : {"idle", "paging", "answered"}, full : BOOLEAN, number : Nat,
           keys : SUBSET (1..minted), atStart : SUBSET (1..minted), quiet : BOOLEAN,
           old : BOOLEAN]
Queried == [rows : SUBSET (1..minted), loaded : BOOLEAN, failed : BOOLEAN,
            old : BOOLEAN]

(* Types, of the part of the state the properties are about.                 *)
KeyTypes ==
  /\ minted \in Nat /\ live \in Seq(1..minted)
  /\ query \in Queried /\ list \in Listed
  /\ del \in [stage : {"idle", "sent", "done"}, key : 0..minted]
  /\ deleted \subseteq 1..minted

(* LiteLLM lists a key once.                                                 *)
Distinct == \A i, j \in 1..Len(live) : live[i] = live[j] => i = j

(* What was deleted is not in LiteLLM, nor in a list under way, unless that  *)
(* began before the deletion and was not restarted.  A deletion is of a row, *)
(* so the list has been loaded by then, and its success restarts the fetch   *)
(* if the page is on show.                                                   *)
DeletedInv ==
  /\ del.stage # "idle" => query.loaded
  /\ del.stage = "done" => del.key \notin LiveKeys
  /\ del.stage # "idle" => del.key # 0
  /\ deleted \cap LiveKeys = {}
  /\ list.stage = "idle" => list.keys = {}
  /\ ~list.old => deleted \cap list.keys = {}

(* Unless a key was deleted since, the keys there were at the beginning are  *)
(* still there, and have been read or are on this page or a later one.       *)
Ahead(key) ==
  \E i \in 1..Len(live) : live[i] = key /\ (i - 1) \div PageSize >= list.number - 1

ListingInv ==
  list.stage = "paging" =>
    /\ list.number # 0
    /\ list.quiet => /\ list.atStart \subseteq LiveKeys
                     /\ \A key \in list.atStart : key \in list.keys \/ Ahead(key)

IInv == /\ KeyTypes /\ Distinct
        /\ DeletedInv /\ DeletedStaysGone
        /\ ListingInv /\ ListComplete

-----------------------------------------------------------------------------
(* Taking an element out of a sequence: who is left and where.               *)
LEMMA RemoveAtProperties ==
  ASSUME NEW S, NEW s \in Seq(S), NEW i \in 1..Len(s)
  PROVE  /\ RemoveAt(s, i) \in Seq(S)
         /\ Len(RemoveAt(s, i)) = Len(s) - 1
         /\ \A j \in 1..Len(s) - 1 :
              RemoveAt(s, i)[j] = IF j < i THEN s[j] ELSE s[j + 1]
<1>. DEFINE front == SubSeq(s, 1, i - 1)
            back == SubSeq(s, i + 1, Len(s))
<1>1. Len(s) \in Nat /\ \A j \in 1..Len(s) : s[j] \in S
  BY LenProperties, ElementOfSeq
<1>2. /\ front \in Seq(S) /\ Len(front) = i - 1
      /\ \A j \in 1..i - 1 : front[j] = s[j]
  <2>. HIDE DEF front
  <2>1. \A j \in 1..i - 1 : s[j] \in S
    BY <1>1
  <2>. QED
    BY <1>1, <2>1, SubSeqProperties DEF front
<1>3. /\ back \in Seq(S) /\ Len(back) = Len(s) - i
      /\ \A j \in 1..Len(s) - i : back[j] = s[j + i]
  <2>1. \A j \in i + 1..Len(s) : s[j] \in S
    BY <1>1
  <2>2. /\ back \in Seq(S)
        /\ Len(back) = IF i + 1 <= Len(s) THEN Len(s) - (i + 1) + 1 ELSE 0
        /\ \A j \in 1..Len(s) - (i + 1) + 1 : back[j] = s[i + 1 + j - 1]
    BY <1>1, <2>1, SubSeqProperties
  <2>. HIDE DEF back
  <2>. QED
    BY <1>1, <2>2
<1>. HIDE DEF front, back
<1>4. /\ front \o back \in Seq(S)
      /\ Len(front \o back) = Len(front) + Len(back)
      /\ \A j \in 1..Len(front) + Len(back) :
           (front \o back)[j] = IF j <= Len(front) THEN front[j] ELSE back[j - Len(front)]
  BY <1>2, <1>3, ConcatProperties
<1>5. RemoveAt(s, i) = front \o back
  BY DEF RemoveAt, front, back
<1>6. Len(front) + Len(back) = Len(s) - 1
  BY <1>1, <1>2, <1>3
<1>7. ASSUME NEW j \in 1..Len(s) - 1
      PROVE  RemoveAt(s, i)[j] = IF j < i THEN s[j] ELSE s[j + 1]
  <2>1. CASE j < i
    <3>1. j \in 1..i - 1 /\ j \in 1..Len(front) + Len(back) /\ j <= Len(front)
      BY <1>1, <1>2, <1>6, <2>1
    <3>. QED
      BY <1>2, <1>4, <1>5, <2>1, <3>1
  <2>2. CASE ~(j < i)
    <3>1. /\ j - Len(front) \in 1..Len(s) - i /\ j \in 1..Len(front) + Len(back)
          /\ ~(j <= Len(front)) /\ j - Len(front) + i = j + 1
      BY <1>1, <1>2, <1>6, <2>2
    <3>2. RemoveAt(s, i)[j] = back[j - Len(front)]
      BY <1>4, <1>5, <3>1
    <3>. QED
      BY <1>3, <2>2, <3>1, <3>2
  <2>. QED
    BY <2>1, <2>2
<1>. QED
  BY <1>4, <1>5, <1>6, <1>7

(* Putting an element into a sequence.                                       *)
LEMMA InsertAtProperties ==
  ASSUME NEW S, NEW s \in Seq(S), NEW i \in 1..Len(s) + 1, NEW e \in S
  PROVE  /\ InsertAt(s, i, e) \in Seq(S)
         /\ Len(InsertAt(s, i, e)) = Len(s) + 1
         /\ \A j \in 1..Len(s) + 1 :
              InsertAt(s, i, e)[j] = IF j < i THEN s[j] ELSE IF j = i THEN e ELSE s[j - 1]
<1>. DEFINE front == SubSeq(s, 1, i - 1)
            middle == <<e>>
            back == SubSeq(s, i, Len(s))
<1>1. Len(s) \in Nat /\ \A j \in 1..Len(s) : s[j] \in S
  BY LenProperties, ElementOfSeq
<1>2. /\ front \in Seq(S) /\ Len(front) = i - 1
      /\ \A j \in 1..i - 1 : front[j] = s[j]
  <2>. HIDE DEF front
  <2>1. \A j \in 1..i - 1 : s[j] \in S
    BY <1>1
  <2>. QED
    BY <1>1, <2>1, SubSeqProperties DEF front
<1>3. /\ back \in Seq(S) /\ Len(back) = Len(s) - i + 1
      /\ \A j \in 1..Len(s) - i + 1 : back[j] = s[j + i - 1]
  <2>1. \A j \in i..Len(s) : s[j] \in S
    BY <1>1
  <2>2. /\ back \in Seq(S)
        /\ Len(back) = IF i <= Len(s) THEN Len(s) - i + 1 ELSE 0
        /\ \A j \in 1..Len(s) - i + 1 : back[j] = s[i + j - 1]
    BY <1>1, <2>1, SubSeqProperties
  <2>. HIDE DEF back
  <2>. QED
    BY <1>1, <2>2
<1>4. middle \in Seq(S) /\ Len(middle) = 1 /\ middle[1] = e
  OBVIOUS
<1>. HIDE DEF front, middle, back
<1>5. /\ front \o middle \in Seq(S)
      /\ Len(front \o middle) = i
      /\ \A j \in 1..i : (front \o middle)[j] = IF j < i THEN s[j] ELSE e
  <2>1. /\ front \o middle \in Seq(S)
        /\ Len(front \o middle) = Len(front) + Len(middle)
        /\ \A j \in 1..Len(front) + Len(middle) :
             (front \o middle)[j] = IF j <= Len(front) THEN front[j]
                                   ELSE middle[j - Len(front)]
    BY <1>2, <1>4, ConcatProperties
  <2>2. Len(front) + Len(middle) = i
    BY <1>1, <1>2, <1>4
  <2>3. \A j \in 1..i : IF j < i THEN j <= Len(front) /\ j \in 1..i - 1
                         ELSE ~(j <= Len(front)) /\ j - Len(front) = 1
    BY <1>1, <1>2
  <2>. QED
    BY <1>2, <1>4, <2>1, <2>2, <2>3
<1>6. /\ (front \o middle) \o back \in Seq(S)
      /\ Len((front \o middle) \o back) = i + Len(back)
      /\ \A j \in 1..i + Len(back) :
           ((front \o middle) \o back)[j] =
             IF j <= i THEN (front \o middle)[j] ELSE back[j - i]
  BY <1>3, <1>5, ConcatProperties
<1>7. InsertAt(s, i, e) = (front \o middle) \o back
  BY DEF InsertAt, front, middle, back
<1>. QED
  BY <1>1, <1>3, <1>5, <1>6, <1>7

(* Positions and pages: the pages of a list follow one another without gap.  *)
LEMMA Pages ==
  ASSUME NEW i \in Nat, NEW n \in Nat, NEW p \in Nat \ {0}
  PROVE  /\ i \div p \in Nat
         /\ \A j \in Nat : i <= j => i \div p <= j \div p
         /\ (i + p) \div p = i \div p + 1
         /\ (n * p) \div p = n
         /\ n <= i \div p => n * p <= i
<1>1. i \div p \in Nat
  OBVIOUS
<1>2. \A j \in Nat : i <= j => i \div p <= j \div p
  OBVIOUS
<1>3. (i + p) \div p = i \div p + 1
  OBVIOUS
<1>4. (n * p) \div p = n
  OBVIOUS
<1>5. n <= i \div p => n * p <= i
  OBVIOUS
<1>. QED
  BY <1>1, <1>2, <1>3, <1>4, <1>5
-----------------------------------------------------------------------------
(* The keys of LiteLLM are the elements of a sequence without repetitions.   *)
LEMMA LiveFacts ==
  ASSUME KeyTypes
  PROVE  /\ Len(live) \in Nat /\ DOMAIN live = 1..Len(live)
         /\ \A i \in 1..Len(live) : live[i] \in 1..minted
         /\ LiveKeys = {live[i] : i \in 1..Len(live)}
         /\ LiveKeys \subseteq 1..minted
<1>1. Len(live) \in Nat /\ DOMAIN live = 1..Len(live)
  BY LenProperties DEF KeyTypes
<1>2. \A i \in 1..Len(live) : live[i] \in 1..minted
  BY ElementOfSeq DEF KeyTypes
<1>. QED
  BY <1>1, <1>2 DEF LiveKeys, ToSet

(* A deletion takes a key out, if it is there, and leaves the others.        *)
LEMMA RemovedLeaves ==
  ASSUME KeyTypes, Distinct, NEW key, Removed(key), minted' = minted
  PROVE  /\ live' \in Seq(1..minted') /\ Distinct'
         /\ LiveKeys' = LiveKeys \ {key}
         /\ list' = [list EXCEPT !.quiet = FALSE, !.atStart = {}]
<1>1. CASE key \notin LiveKeys /\ live' = live
  <2>1. live' \in Seq(1..minted') /\ Distinct' /\ LiveKeys' = LiveKeys
    BY <1>1 DEF KeyTypes, Distinct, LiveKeys
  <2>. QED
    BY <1>1, <2>1 DEF Removed
<1>2. ASSUME NEW i \in DOMAIN live, live[i] = key, live' = RemoveAt(live, i)
      PROVE  live' \in Seq(1..minted') /\ Distinct' /\ LiveKeys' = LiveKeys \ {key}
  <2>1. i \in 1..Len(live) /\ Len(live) \in Nat
    BY LiveFacts
  <2>2. /\ live' \in Seq(1..minted) /\ Len(live') = Len(live) - 1
        /\ \A j \in 1..Len(live) - 1 : live'[j] = IF j < i THEN live[j] ELSE live[j + 1]
    <3>1. live \in Seq(1..minted)
      BY DEF KeyTypes
    <3>2. /\ RemoveAt(live, i) \in Seq(1..minted)
          /\ Len(RemoveAt(live, i)) = Len(live) - 1
          /\ \A j \in 1..Len(live) - 1 :
               RemoveAt(live, i)[j] = IF j < i THEN live[j] ELSE live[j + 1]
      BY <2>1, <3>1, RemoveAtProperties
    <3>. QED
      BY <1>2, <3>2
  <2>3. Distinct'
    <3>1. \A j \in 1..Len(live) - 1 :
            \E k \in 1..Len(live) : live'[j] = live[k] /\ k = IF j < i THEN j ELSE j + 1
      BY <2>1, <2>2
    <3>. QED
      BY <2>1, <2>2, <3>1 DEF Distinct
  <2>4. LiveKeys' = {live'[j] : j \in 1..Len(live) - 1}
    <3>1. DOMAIN live' = 1..Len(live')
      BY <2>2, LenProperties
    <3>. QED
      BY <2>2, <3>1 DEF LiveKeys, ToSet
  <2>5. \A j \in 1..Len(live) - 1 : live'[j] \in LiveKeys \ {key}
    <3>1. \A j \in 1..Len(live) - 1 :
            \E k \in 1..Len(live) : k # i /\ live'[j] = live[k]
      BY <2>1, <2>2
    <3>. QED
      BY <1>2, <2>1, <3>1, LiveFacts DEF Distinct
  <2>6. ASSUME NEW k \in 1..Len(live), k # i
        PROVE  \E j \in 1..Len(live) - 1 : live'[j] = live[k]
    <3>1. CASE k < i
      BY <2>1, <2>2, <3>1
    <3>2. CASE k > i
      <4>1. k - 1 \in 1..Len(live) - 1 /\ ~(k - 1 < i) /\ k - 1 + 1 = k
        BY <2>1, <3>2
      <4>. QED
        BY <2>2, <4>1
    <3>. QED
      BY <2>1, <2>6, <3>1, <3>2
  <2>7. \A other \in LiveKeys \ {key} : other \in LiveKeys'
    BY <1>2, <2>4, <2>6, LiveFacts
  <2>. QED
    BY <2>2, <2>3, <2>4, <2>5, <2>7
<1>. QED
  BY <1>1, <1>2 DEF Removed

(* A key that is minted is new, and moves no other forward.                  *)
LEMMA MintAdds ==
  ASSUME KeyTypes, Distinct, Mint
  PROVE  /\ minted' = minted + 1 /\ minted' \in Nat
         /\ live' \in Seq(1..minted') /\ Distinct'
         /\ LiveKeys' = LiveKeys \cup {minted'}
         /\ \A k \in 1..Len(live) :
              \E j \in 1..Len(live') : k <= j /\ live'[j] = live[k]
<1>1. minted' = minted + 1 /\ minted' \in Nat /\ minted \in Nat
  BY DEF Mint, KeyTypes
<1>2. PICK i \in 1..Len(live) + 1 : live' = InsertAt(live, i, minted')
  BY DEF Mint
<1>3. Len(live) \in Nat /\ \A j \in 1..Len(live) : live[j] \in 1..minted
  BY LiveFacts
<1>4. live \in Seq(1..minted') /\ minted' \in 1..minted'
  <2>1. 1..minted \subseteq 1..minted'
    BY <1>1
  <2>. QED
    BY <1>1, <2>1, SeqMonotonic DEF KeyTypes
<1>5. /\ live' \in Seq(1..minted') /\ Len(live') = Len(live) + 1
      /\ \A j \in 1..Len(live) + 1 :
           live'[j] = IF j < i THEN live[j] ELSE IF j = i THEN minted' ELSE live[j - 1]
  <2>. DEFINE new == minted'
              keys == 1..minted'
  <2>1. live \in Seq(keys) /\ new \in keys
    BY <1>4
  <2>2. live' = InsertAt(live, i, new)
    BY <1>2
  <2>. HIDE DEF new, keys
  <2>3. /\ InsertAt(live, i, new) \in Seq(keys)
        /\ Len(InsertAt(live, i, new)) = Len(live) + 1
        /\ \A j \in 1..Len(live) + 1 :
             InsertAt(live, i, new)[j] =
               IF j < i THEN live[j] ELSE IF j = i THEN new ELSE live[j - 1]
    BY <2>1, InsertAtProperties
  <2>. QED
    BY <2>2, <2>3 DEF new, keys
<1>6. \A j \in 1..Len(live) + 1 :
        IF j = i THEN live'[j] = minted'
        ELSE \E k \in 1..Len(live) : /\ k = IF j < i THEN j ELSE j - 1
                                     /\ live'[j] = live[k] /\ live[k] # minted'
  BY <1>1, <1>3, <1>5
<1>7. Distinct'
  BY <1>3, <1>5, <1>6 DEF Distinct
<1>8. \A k \in 1..Len(live) :
        \E j \in 1..Len(live') : k <= j /\ live'[j] = live[k]
  <2>. SUFFICES ASSUME NEW k \in 1..Len(live)
                PROVE  \E j \in 1..Len(live') : k <= j /\ live'[j] = live[k]
    OBVIOUS
  <2>1. CASE k < i
    BY <1>3, <1>5, <2>1
  <2>2. CASE ~(k < i)
    <3>1. k + 1 \in 1..Len(live) + 1 /\ ~(k + 1 < i) /\ k + 1 # i /\ k + 1 - 1 = k /\ k <= k + 1
      BY <1>3, <2>2
    <3>2. live'[k + 1] = live[k] /\ k + 1 \in 1..Len(live')
      BY <1>5, <3>1
    <3>. QED
      BY <3>1, <3>2
  <2>. QED
    BY <2>1, <2>2
<1>9. LiveKeys' = LiveKeys \cup {minted'}
  <2>1. LiveKeys' = {live'[j] : j \in 1..Len(live) + 1}
    <3>1. DOMAIN live' = 1..Len(live')
      BY <1>5, LenProperties
    <3>. QED
      BY <1>5, <3>1 DEF LiveKeys, ToSet
  <2>2. \A j \in 1..Len(live) + 1 : live'[j] \in LiveKeys \cup {minted'}
    BY <1>6, LiveFacts
  <2>3. i \in 1..Len(live) + 1 /\ live'[i] = minted'
    BY <1>6
  <2>4. LiveKeys \subseteq LiveKeys'
    BY <1>5, <1>8, <2>1, LiveFacts
  <2>. QED
    BY <2>1, <2>2, <2>3, <2>4
<1>. QED
  BY <1>1, <1>5, <1>7, <1>8, <1>9

LEMMA InitInv == Init => IInv
<1>. SUFFICES ASSUME Init PROVE IInv
  OBVIOUS
<1>1. live = <<>> /\ minted = 0 /\ Len(live) = 0 /\ live \in Seq(1..minted)
  BY EmptySeq DEF Init
<1>2. KeyTypes
  BY <1>1 DEF Init, KeyTypes, Queried, Listed, NoList, NoDel
<1>3. LiveKeys = {}
  BY <1>1, <1>2, LiveFacts
<1>. QED
  BY <1>1, <1>2, <1>3
  DEF Init, IInv, Distinct, DeletedInv, DeletedStaysGone, ListingInv, ListComplete,
      NoList, NoDel, Rows

(* A list that begins has everything ahead.                                  *)
LEMMA ListStarts ==
  ASSUME KeyTypes, list' = StartedList, UNCHANGED gateway
  PROVE  /\ list' \in Listed' /\ list'.stage = "paging" /\ list'.keys = {}
         /\ ListingInv' /\ ListComplete' /\ DeletedStaysGone'
<1>1. minted' = minted /\ live' = live
  BY DEF gateway
<1>2. /\ list'.stage = "paging" /\ list'.keys = {} /\ list'.number = 1
      /\ list'.atStart = LiveKeys
      /\ list' \in Listed'
  BY <1>1, LiveFacts DEF StartedList, Listed
<1>3. ASSUME NEW key \in LiveKeys PROVE Ahead(key)'
  <2>1. PICK i \in 1..Len(live) : live[i] = key
    BY LiveFacts
  <2>2. i - 1 \in Nat /\ i \in Nat
    BY LiveFacts
  <2>3. (i - 1) \div PageSize \in Nat
    BY <2>2, Pages, BoundsAssumption
  <2>. QED
    BY <1>1, <1>2, <2>1, <2>3 DEF Ahead
<1>4. LiveKeys' = LiveKeys
  BY <1>1 DEF LiveKeys
<1>. QED
  BY <1>2, <1>3, <1>4 DEF ListingInv, ListComplete, DeletedStaysGone

(* What a listing leaves alone.                                              *)
LEMMA ListingLeaves ==
  ASSUME IInv, UNCHANGED <<gateway, del, deleted>>,
         list' \in Listed', list'.keys \subseteq list.keys \cup LiveKeys,
         list'.stage = "idle" => list'.keys = {},
         list.old => list'.old \/ list'.keys = {},
         query' \in Queried', query.loaded => query'.loaded
  PROVE  KeyTypes' /\ Distinct' /\ DeletedInv'
<1>1. live' = live /\ minted' = minted /\ del' = del /\ deleted' = deleted
  BY DEF gateway
<1>2. KeyTypes' /\ LiveKeys' = LiveKeys
  BY <1>1 DEF IInv, KeyTypes, LiveKeys
<1>3. Distinct'
  BY <1>1 DEF IInv, Distinct
<1>4. DeletedInv'
  BY <1>1, <1>2 DEF IInv, DeletedInv, KeyTypes, Listed
<1>. QED
  BY <1>2, <1>3, <1>4

(* The key there was at the beginning is on the page read now or later.      *)
LEMMA PageRead ==
  ASSUME IInv, list.stage = "paging", list.quiet,
         NEW key \in list.atStart, key \notin list.keys \cup KeyPage(list.number)
  PROVE  /\ KeyPage(list.number) # {} /\ list.number < TotalPages
         /\ \E i \in 1..Len(live) :
              live[i] = key /\ (i - 1) \div PageSize >= list.number
<1>. DEFINE p == PageSize
            n == list.number
<1>1. /\ Len(live) \in Nat /\ p \in Nat \ {0} /\ n \in Nat \ {0}
  BY LiveFacts, BoundsAssumption DEF IInv, KeyTypes, Listed, ListingInv
<1>2. PICK i \in 1..Len(live) : live[i] = key /\ (i - 1) \div p >= n - 1
  BY DEF IInv, ListingInv, Ahead
<1>3. i \in Nat \ {0} /\ i - 1 \in Nat /\ i <= Len(live)
  BY <1>1, <1>2
<1>4. (i - 1) \div p \in Nat
  BY <1>1, <1>3, Pages
<1>5. (i - 1) \div p # n - 1
  BY <1>2 DEF KeyPage
<1>6. (i - 1) \div p >= n
  BY <1>1, <1>2, <1>4, <1>5
<1>7. KeyPage(n) # {}
  <2>. DEFINE j == (n - 1) * p
  <2>1. n - 1 \in Nat /\ j \in Nat /\ j \div p = n - 1
    <3>1. PICK m \in Nat : m = n - 1
      BY <1>1
    <3>2. m * p \in Nat /\ (m * p) \div p = m
      BY <1>1, Pages
    <3>. QED
      BY <3>1, <3>2
  <2>2. j <= i - 1
    <3>1. n - 1 <= (i - 1) \div p
      BY <1>1, <1>4, <1>6
    <3>. QED
      BY <1>1, <1>3, <2>1, <3>1, Pages
  <2>. HIDE DEF j
  <2>3. j + 1 \in 1..Len(live) /\ (j + 1) - 1 = j
    BY <1>1, <1>3, <2>1, <2>2
  <2>4. j + 1 \in {k \in 1..Len(live) : (k - 1) \div p = n - 1}
    BY <2>1, <2>3
  <2>. QED
    BY <2>4 DEF KeyPage
<1>8. n < TotalPages
  <2>1. (i - 1 + p) \div p = (i - 1) \div p + 1
    BY <1>1, <1>3, Pages
  <2>2. /\ Len(live) + p - 1 \in Nat /\ i - 1 + p \in Nat
        /\ i - 1 + p <= Len(live) + p - 1
    BY <1>1, <1>3
  <2>3. (i - 1 + p) \div p <= (Len(live) + p - 1) \div p
    <3>1. PICK a \in Nat, b \in Nat : a = i - 1 + p /\ b = Len(live) + p - 1
      BY <2>2
    <3>2. a <= b /\ p \in Nat \ {0}
      BY <1>1, <2>2, <3>1
    <3>. HIDE DEF p
    <3>3. a \div p <= b \div p
      BY <3>2
    <3>. QED
      BY <3>1, <3>3
  <2>4. (Len(live) + p - 1) \div p \in Nat
    BY <1>1, <2>2, Pages
  <2>. QED
    BY <1>1, <1>4, <1>6, <2>1, <2>3, <2>4 DEF TotalPages
<1>. QED
  BY <1>2, <1>6, <1>7, <1>8
LEMMA ListingSteps == IInv /\ Listing => IInv'
<1>. SUFFICES ASSUME IInv, Listing PROVE IInv'
  OBVIOUS
<1>1. CASE Poll
  <2>1. /\ list' = StartedList /\ UNCHANGED <<gateway, query, del, deleted>>
    BY <1>1 DEF Poll
  <2>2. KeyTypes /\ UNCHANGED gateway
    BY <2>1 DEF IInv
  <2>3. /\ list' \in Listed' /\ list'.keys = {}
        /\ ListingInv' /\ ListComplete' /\ DeletedStaysGone'
    BY <2>1, <2>2, ListStarts
  <2>4. query' \in Queried'
    BY <2>1, <2>2 DEF KeyTypes, Queried, gateway
  <2>. QED
    BY <2>1, <2>3, <2>4, ListingLeaves DEF IInv
<1>2. CASE ListPage
  <2>. DEFINE found == KeyPage(list.number)
              done == found = {} \/ list.number >= TotalPages
  <2>1. /\ list.stage = "paging" /\ list \in Listed
        /\ list' = [list EXCEPT !.keys = @ \cup found,
                                !.number = IF done THEN @ ELSE @ + 1,
                                !.stage = IF done THEN "answered" ELSE @]
        /\ UNCHANGED <<gateway, query, del, deleted>>
        /\ live' = live /\ minted' = minted /\ query' = query /\ deleted' = deleted
    BY <1>2 DEF ListPage, IInv, KeyTypes, gateway
  <2>2. found \subseteq LiveKeys /\ LiveKeys \subseteq 1..minted
    BY LiveFacts DEF IInv, KeyPage
  <2>3. /\ list'.keys = list.keys \cup found
        /\ list'.number = IF done THEN list.number ELSE list.number + 1
        /\ list'.stage = IF done THEN "answered" ELSE "paging"
        /\ list'.atStart = list.atStart /\ list'.quiet = list.quiet
        /\ list'.full = list.full
    BY <2>1 DEF Listed
  <2>4. list' \in Listed'
    <3>1. PICK n \in Nat, s \in {"paging", "answered"}, read \in SUBSET (1..minted) :
            list' = [list EXCEPT !.keys = read, !.number = n, !.stage = s]
      <4>1. /\ (IF done THEN list.number ELSE list.number + 1) \in Nat
            /\ (IF done THEN "answered" ELSE list.stage) \in {"paging", "answered"}
            /\ list.keys \cup found \in SUBSET (1..minted)
        BY <2>1, <2>2 DEF Listed
      <4>. HIDE DEF found, done
      <4>. QED
        BY <2>1, <4>1
    <3>. QED
      BY <2>1, <3>1 DEF Listed
  <2>5. query' \in Queried'
    BY <2>1 DEF IInv, KeyTypes, Queried
  <2>6. KeyTypes' /\ Distinct' /\ DeletedInv'
    BY <2>1, <2>2, <2>3, <2>4, <2>5, ListingLeaves
  <2>7. DeletedStaysGone'
    BY <2>1, <2>3 DEF DeletedStaysGone
  <2>8. ASSUME list.quiet, NEW key \in list.atStart, key \notin list.keys \cup found
        PROVE  ~done /\ Ahead(key)'
    <3>1. /\ found # {} /\ list.number < TotalPages /\ list.number \in Nat
          /\ TotalPages \in Nat
          /\ \E i \in 1..Len(live) :
               live[i] = key /\ (i - 1) \div PageSize >= list.number
      <4>1. Len(live) \in Nat /\ PageSize \in Nat \ {0}
        BY LiveFacts, BoundsAssumption DEF IInv
      <4>2. Len(live) + PageSize - 1 \in Nat
        BY <4>1
      <4>. QED
        BY <2>1, <2>8, <4>1, <4>2, PageRead, Pages DEF Listed, TotalPages
    <3>2. ~done
      BY <3>1
    <3>. QED
      BY <2>1, <2>3, <3>1, <3>2 DEF Ahead
  <2>. HIDE DEF found, done
  <2>9. ListComplete'
    BY <2>3, <2>8 DEF ListComplete
  <2>10. ListingInv'
    <3>1. list'.number # 0
      BY <2>1, <2>3 DEF IInv, ListingInv, Listed
    <3>2. LiveKeys' = LiveKeys
      BY <2>1 DEF LiveKeys
    <3>. QED
      BY <2>1, <2>3, <2>8, <3>1, <3>2 DEF IInv, ListingInv
  <2>. QED
    BY <2>6, <2>7, <2>9, <2>10 DEF IInv
<1>3. CASE ListFallsBack
  <2>1. /\ list.stage = "paging" /\ list \in Listed
        /\ list' = [list EXCEPT !.full = FALSE, !.number = 1, !.keys = {}]
        /\ UNCHANGED <<gateway, query, del, deleted>>
        /\ live' = live /\ minted' = minted /\ query' = query /\ deleted' = deleted
    BY <1>3 DEF ListFallsBack, IInv, KeyTypes, gateway
  <2>2. /\ list' \in Listed' /\ list'.stage = "paging" /\ list'.keys = {}
        /\ list'.number = 1 /\ list'.quiet = list.quiet /\ list'.atStart = list.atStart
    BY <2>1 DEF Listed
  <2>3. query' \in Queried'
    BY <2>1 DEF IInv, KeyTypes, Queried
  <2>4. KeyTypes' /\ Distinct' /\ DeletedInv'
    BY <2>1, <2>2, <2>3, ListingLeaves
  <2>5. ASSUME list.quiet, NEW key \in list.atStart PROVE Ahead(key)'
    <3>1. PICK i \in 1..Len(live) : live[i] = key
      BY <2>1, <2>5, LiveFacts DEF IInv, ListingInv
    <3>2. i - 1 \in Nat /\ PageSize \in Nat \ {0}
      BY LiveFacts, BoundsAssumption DEF IInv
    <3>3. (i - 1) \div PageSize \in Nat
      BY <3>2, Pages
    <3>. QED
      BY <2>1, <2>2, <3>1, <3>3 DEF Ahead
  <2>6. LiveKeys' = LiveKeys
    BY <2>1 DEF LiveKeys
  <2>. QED
    BY <2>1, <2>2, <2>4, <2>5, <2>6 DEF IInv, ListingInv, ListComplete, DeletedStaysGone
<1>4. CASE ListFails \/ ListArrives
  <2>1. /\ list' = NoList /\ UNCHANGED <<gateway, del, deleted>>
        /\ list \in Listed /\ minted' = minted /\ deleted' = deleted
        /\ query \in Queried
        /\ \/ query' = [query EXCEPT !.failed = TRUE]
           \/ query' = [rows |-> list.keys, loaded |-> TRUE, failed |-> FALSE,
                        old |-> list.old]
    BY <1>4 DEF ListFails, ListArrives, IInv, KeyTypes, gateway
  <2>2. list' \in Listed' /\ list'.stage = "idle" /\ list'.keys = {}
    BY <2>1 DEF NoList, Listed
  <2>3. /\ query' \in Queried'
        /\ query.loaded => query'.loaded
        /\ \/ query'.failed
           \/ query'.rows = list.keys /\ query'.old = list.old
    <3>1. CASE query' = [query EXCEPT !.failed = TRUE]
      BY <2>1, <3>1 DEF Queried
    <3>2. CASE query' = [rows |-> list.keys, loaded |-> TRUE, failed |-> FALSE,
                         old |-> list.old]
      BY <2>1, <3>2 DEF Queried, Listed
    <3>. QED
      BY <2>1, <3>1, <3>2
  <2>4. KeyTypes' /\ Distinct' /\ DeletedInv'
    BY <2>1, <2>2, <2>3, ListingLeaves
  <2>5. DeletedStaysGone'
    BY <2>1, <2>3 DEF Rows, IInv, DeletedInv, DeletedStaysGone
  <2>. QED
    BY <2>2, <2>4, <2>5 DEF IInv, ListingInv, ListComplete
<1>. QED
  BY <1>1, <1>2, <1>3, <1>4 DEF Listing

(* A step that moves no key, and at most begins a list or marks the one that *)
(* goes on as old.                                                           *)
LEMMA PageKept ==
  ASSUME IInv, UNCHANGED <<gateway, query, del, deleted>>,
         \/ list' = StartedList
         \/ /\ list' = list \/ list' = [list EXCEPT !.old = @ \/ list.stage # "idle"]
            /\ Reachable' => Reachable \/ ~query.loaded \/ list.stage # "idle"
  PROVE  IInv'
<1>1. /\ live' = live /\ minted' = minted /\ query' = query /\ del' = del
      /\ deleted' = deleted /\ KeyTypes /\ list \in Listed
  BY DEF gateway, IInv, KeyTypes
<1>2. Distinct' /\ LiveKeys' = LiveKeys
  BY <1>1 DEF IInv, Distinct, LiveKeys
<1>3. CASE list' = StartedList
  <2>1. /\ list' \in Listed' /\ list'.keys = {} /\ list'.stage = "paging"
        /\ ListingInv' /\ ListComplete' /\ DeletedStaysGone'
    BY <1>1, <1>3, ListStarts
  <2>2. KeyTypes'
    BY <1>1, <2>1 DEF KeyTypes, Queried
  <2>3. DeletedInv'
    BY <1>1, <1>2, <2>1 DEF IInv, DeletedInv
  <2>. QED
    BY <1>2, <2>1, <2>2, <2>3 DEF IInv
<1>4. CASE /\ list' = list \/ list' = [list EXCEPT !.old = @ \/ list.stage # "idle"]
           /\ Reachable' => Reachable \/ ~query.loaded \/ list.stage # "idle"
  <2>1. /\ list' \in Listed /\ list'.stage = list.stage /\ list'.keys = list.keys
        /\ list'.number = list.number /\ list'.quiet = list.quiet
        /\ list'.atStart = list.atStart
        /\ list.old => list'.old
    <3>1. (list.old \/ list.stage # "idle") \in BOOLEAN
      OBVIOUS
    <3>. QED
      BY <1>1, <1>4, <3>1 DEF Listed
  <2>2. KeyTypes' /\ \A key : Ahead(key)' = Ahead(key)
    BY <1>1, <2>1 DEF KeyTypes, Queried, Listed, Ahead
  <2>3. DeletedInv' /\ ListingInv' /\ ListComplete'
    BY <1>1, <1>2, <2>1, <2>2 DEF IInv, DeletedInv, ListingInv, ListComplete
  <2>4. DeletedStaysGone'
    BY <1>1, <1>4, <2>1 DEF IInv, DeletedStaysGone, Rows
  <2>. QED
    BY <1>2, <2>2, <2>3, <2>4 DEF IInv
<1>. QED
  BY <1>3, <1>4

(* The page is visited and left.                                             *)
LEMMA MovingSteps == IInv /\ Moving => IInv'
<1>. SUFFICES ASSUME IInv, Moving PROVE IInv'
  OBVIOUS
<1>1. UNCHANGED <<gateway, query, del, deleted>>
  BY DEF Moving, Visit, Leave, InfoArrives
<1>2. \/ list' = StartedList
      \/ list' = list /\ (Reachable' => Reachable \/ list.stage # "idle")
  BY DEF Moving, Visit, Leave, InfoArrives, BegunIf, Reachable
<1>. QED
  BY <1>1, <1>2, PageKept

LEMMA DeletingSteps == IInv /\ Deleting => IInv'
<1>. SUFFICES ASSUME IInv, Deleting PROVE IInv'
  OBVIOUS
<1>. KeyTypes
  BY DEF IInv
<1>1. ASSUME NEW key \in Keys, Delete(key) PROVE IInv'
  <2>1. /\ live' = live /\ minted' = minted /\ query' = query /\ list' = list
        /\ deleted' = deleted /\ here' = here /\ info' = info
        /\ key \in Rows /\ del' = [stage |-> "sent", key |-> key]
    BY <1>1 DEF Delete, gateway
  <2>2. query.loaded /\ key \in 1..minted
    BY <2>1 DEF Rows, KeyTypes, Queried
  <2>3. /\ KeyTypes' /\ LiveKeys' = LiveKeys /\ Rows' = Rows
        /\ \A other : Ahead(other)' = Ahead(other)
    BY <2>1, <2>2 DEF KeyTypes, Queried, Listed, LiveKeys, Rows, Reachable, Ahead
  <2>. QED
    BY <2>1, <2>2, <2>3
    DEF IInv, Distinct, DeletedInv, DeletedStaysGone, ListingInv, ListComplete
<1>2. ASSUME KeyDeleted \/ OtherDeletes PROVE IInv'
  <2>1. PICK key : /\ Removed(key)
                   /\ \/ /\ del.stage = "sent" /\ key = del.key
                         /\ del' = [del EXCEPT !.stage = "done"]
                      \/ del' = del
    BY <1>2 DEF KeyDeleted, OtherDeletes
  <2>2. /\ minted' = minted /\ query' = query /\ deleted' = deleted
        /\ here' = here /\ info' = info
    BY <1>2 DEF KeyDeleted, OtherDeletes
  <2>3. /\ live' \in Seq(1..minted') /\ Distinct' /\ LiveKeys' = LiveKeys \ {key}
        /\ list' = [list EXCEPT !.quiet = FALSE, !.atStart = {}]
    BY <2>1, <2>2, RemovedLeaves DEF IInv
  <2>4. /\ list' \in Listed' /\ list'.stage = list.stage /\ list'.keys = list.keys
        /\ list'.number = list.number /\ ~list'.quiet /\ list'.old = list.old
    BY <2>2, <2>3 DEF KeyTypes, Listed
  <2>5. /\ del' \in [stage : {"idle", "sent", "done"}, key : 0..minted']
        /\ del'.key = del.key
        /\ del'.stage = "done" => del.stage = "done" \/ del.key = key
        /\ del'.stage = "idle" <=> del.stage = "idle"
    BY <2>1, <2>2 DEF KeyTypes
  <2>6. KeyTypes' /\ Rows' = Rows
    BY <2>2, <2>3, <2>4, <2>5 DEF KeyTypes, Queried, Rows, Reachable
  <2>7. DeletedInv'
    BY <2>2, <2>3, <2>4, <2>5 DEF IInv, DeletedInv
  <2>8. DeletedStaysGone' /\ ListingInv' /\ ListComplete'
    BY <2>2, <2>4, <2>6 DEF IInv, DeletedStaysGone, ListingInv, ListComplete
  <2>. QED
    BY <2>3, <2>6, <2>7, <2>8 DEF IInv
<1>3. ASSUME DeleteSucceeds PROVE IInv'
  <2>1. /\ live' = live /\ minted' = minted /\ query' = query /\ UNCHANGED gateway
        /\ here' = here /\ info' = info
        /\ del.stage = "done" /\ del' = NoDel /\ deleted' = deleted \cup {del.key}
    BY <1>3 DEF DeleteSucceeds, gateway
  <2>2. del.key \in 1..minted /\ del.key \notin LiveKeys /\ query.loaded
    BY <2>1 DEF IInv, KeyTypes, DeletedInv
  <2>3. /\ NoDel \in [stage : {"idle", "sent", "done"}, key : 0..minted]
        /\ Distinct' /\ LiveKeys' = LiveKeys /\ query' \in Queried'
        /\ deleted' \subseteq 1..minted /\ deleted' \cap LiveKeys' = {}
    BY <2>1, <2>2 DEF IInv, KeyTypes, Queried, NoDel, Distinct, LiveKeys, DeletedInv
  <2>4. CASE Reachable
    <3>1. list' = StartedList
      BY <1>3, <2>2, <2>4 DEF DeleteSucceeds, Invalidate
    <3>2. /\ list' \in Listed' /\ list'.keys = {} /\ list'.stage = "paging"
          /\ ListingInv' /\ ListComplete' /\ DeletedStaysGone'
      BY <2>1, <3>1, ListStarts
    <3>3. KeyTypes'
      BY <2>1, <2>3, <3>2 DEF KeyTypes
    <3>4. DeletedInv'
      BY <2>1, <2>3, <3>2 DEF DeletedInv, NoDel
    <3>. QED
      BY <2>3, <3>2, <3>3, <3>4 DEF IInv
  <2>5. CASE ~Reachable
    <3>1. list' = [list EXCEPT !.old = @ \/ list.stage # "idle"]
      BY <1>3, <2>5 DEF DeleteSucceeds, Invalidate
    <3>2. /\ list' \in Listed /\ list'.stage = list.stage /\ list'.keys = list.keys
          /\ list'.number = list.number /\ list'.quiet = list.quiet
          /\ list'.atStart = list.atStart
          /\ ~list'.old => list.stage = "idle"
      <4>1. list \in Listed /\ (list.old \/ list.stage # "idle") \in BOOLEAN
        BY DEF KeyTypes
      <4>. QED
        BY <3>1, <4>1 DEF Listed
    <3>3. KeyTypes' /\ \A key : Ahead(key)' = Ahead(key)
      BY <2>1, <2>3, <3>2 DEF KeyTypes, Listed, Ahead
    <3>4. DeletedInv'
      BY <2>1, <2>3, <3>2 DEF IInv, DeletedInv, NoDel
    <3>5. ListingInv' /\ ListComplete'
      BY <2>3, <3>2, <3>3 DEF IInv, ListingInv, ListComplete
    <3>6. DeletedStaysGone'
      BY <2>1, <2>5 DEF DeletedStaysGone, Rows, Reachable
    <3>. QED
      BY <2>3, <3>3, <3>4, <3>5, <3>6 DEF IInv
  <2>. QED
    BY <2>4, <2>5
<1>4. ASSUME DeleteFails PROVE IInv'
  <2>1. /\ live' = live /\ minted' = minted /\ query' = query /\ list' = list
        /\ deleted' = deleted /\ here' = here /\ info' = info /\ del' = NoDel
    BY <1>4 DEF DeleteFails, gateway
  <2>2. /\ KeyTypes' /\ LiveKeys' = LiveKeys /\ Rows' = Rows
        /\ \A other : Ahead(other)' = Ahead(other)
    BY <2>1 DEF KeyTypes, Queried, Listed, LiveKeys, Rows, Reachable, Ahead, NoDel
  <2>. QED
    BY <2>1, <2>2
    DEF IInv, Distinct, DeletedInv, DeletedStaysGone, ListingInv, ListComplete, NoDel
<1>. QED
  BY <1>1, <1>2, <1>3, <1>4 DEF Deleting
LEMMA GeneratingSteps == IInv /\ Generating => IInv'
<1>. SUFFICES ASSUME IInv, Generating PROVE IInv'
  OBVIOUS
<1>. KeyTypes
  BY DEF IInv
<1>1. ASSUME UNCHANGED <<gateway, page>> PROVE IInv'
  BY <1>1, PageKept DEF page, Reachable
<1>2. ASSUME NEW c \in Calls, KeyMinted(c) PROVE IInv'
  <2>1. /\ Mint /\ query' = query /\ list' = list /\ del' = del /\ deleted' = deleted
        /\ here' = here /\ info' = info
    BY <1>2 DEF KeyMinted, page
  <2>2. /\ minted' = minted + 1 /\ minted' \in Nat /\ minted \in Nat
        /\ live' \in Seq(1..minted') /\ Distinct'
        /\ LiveKeys' = LiveKeys \cup {minted'}
        /\ \A k \in 1..Len(live) :
             \E j \in 1..Len(live') : k <= j /\ live'[j] = live[k]
    BY <2>1, MintAdds DEF IInv, KeyTypes
  <2>3. 1..minted' = 1..minted \cup {minted'} /\ minted' \notin 1..minted /\ minted' # 0
    BY <2>2
  <2>4. KeyTypes'
    <3>1. del' \in [stage : {"idle", "sent", "done"}, key : 0..minted']
      BY <2>1, <2>2 DEF KeyTypes
    <3>2. list' \in Listed' /\ query' \in Queried'
      BY <2>1, <2>3 DEF KeyTypes, Queried, Listed
    <3>. QED
      BY <2>1, <2>2, <2>3, <3>1, <3>2 DEF KeyTypes
  <2>5. DeletedInv'
    BY <2>1, <2>2, <2>3 DEF IInv, DeletedInv, KeyTypes, Listed
  <2>6. DeletedStaysGone' /\ ListComplete'
    BY <2>1 DEF IInv, DeletedStaysGone, ListComplete, Rows, Reachable
  <2>7. ASSUME NEW key, Ahead(key) PROVE Ahead(key)'
    <3>1. PICK i \in 1..Len(live) :
            live[i] = key /\ (i - 1) \div PageSize >= list.number - 1
      BY <2>7 DEF Ahead
    <3>2. PICK j \in 1..Len(live') : i <= j /\ live'[j] = live[i]
      BY <2>2
    <3>3. i - 1 \in Nat /\ j - 1 \in Nat /\ i - 1 <= j - 1 /\ list.number \in Nat
      <4>1. Len(live) \in Nat /\ Len(live') \in Nat
        BY <2>2, LiveFacts, LenProperties
      <4>. QED
        BY <3>2, <4>1 DEF KeyTypes, Listed
    <3>4. (i - 1) \div PageSize <= (j - 1) \div PageSize
      <4>1. PICK a \in Nat, b \in Nat : a = i - 1 /\ b = j - 1
        BY <3>3
      <4>2. a <= b
        BY <3>3, <4>1
      <4>3. a \div PageSize <= b \div PageSize
        BY <4>2, BoundsAssumption
      <4>. QED
        BY <4>1, <4>3
    <3>5. (i - 1) \div PageSize \in Nat /\ (j - 1) \div PageSize \in Nat
      BY <3>3, Pages, BoundsAssumption
    <3>6. (j - 1) \div PageSize >= list.number - 1
      BY <3>1, <3>3, <3>4, <3>5
    <3>. QED
      BY <2>1, <3>1, <3>2, <3>6 DEF Ahead
  <2>8. ListingInv'
    BY <2>1, <2>2, <2>7 DEF IInv, ListingInv
  <2>. QED
    BY <2>2, <2>4, <2>5, <2>6, <2>8 DEF IInv
<1>3. ASSUME NEW c \in Calls, KeyArrives(c) PROVE IInv'
  <2>1. UNCHANGED <<gateway, query, del, deleted>> /\ here' = here /\ info' = info
    BY <1>3 DEF KeyArrives
  <2>2. \/ list' = StartedList
        \/ list' = [list EXCEPT !.old = @ \/ list.stage # "idle"]
    BY <1>3 DEF KeyArrives, Invalidate
  <2>. QED
    BY <2>1, <2>2, PageKept DEF Reachable
<1>. QED
  BY <1>1, <1>2, <1>3
  DEF Generating, OpenDialog, CloseDialog, Generate, GenerateFails

(* Saving, and a step of nothing.                                            *)
LEMMA OtherSteps == IInv /\ (Saving \/ UNCHANGED vars) => IInv'
<1>. SUFFICES ASSUME IInv, Saving \/ UNCHANGED vars PROVE IInv'
  OBVIOUS
<1>1. UNCHANGED <<gateway, page>>
  BY DEF Saving, SaveSecret, SecretDeleted, SecretCreated, SaveFails, SaveSucceeds, vars
<1>. QED
  BY <1>1, PageKept DEF page, Reachable

-----------------------------------------------------------------------------
(* The dialog.                                                               *)

Generation == [stage : {"idle", "sent", "done"}, key : Nat, mine : BOOLEAN,
               last : BOOLEAN]

(* The dialog waits for one answer at a time, and that is the answer to its  *)
(* last submission: what is pending keeps the button disabled, and leaving   *)
(* the page, which forgets that, also forgets what the answer would set.     *)
DialogInv ==
  /\ minted \in Nat /\ gen \in [Calls -> Generation]
  /\ \A c \in Calls : Pending(c) => gen[c].last
  /\ ShowsLatestSubmission

LEMMA DialogStep == DialogInv /\ [Next]_vars => DialogInv'
<1>. SUFFICES ASSUME DialogInv, [Next]_vars PROVE DialogInv'
  OBVIOUS
<1>. USE DEF DialogInv, Pending, ShowsLatestSubmission
<1>0. NoCall \in Generation /\ NoCall.stage = "idle"
  BY DEF NoCall, Generation
<1>1. ASSUME UNCHANGED <<minted, gen, generated, latest>> PROVE DialogInv'
  BY <1>1
<1>2. CASE Leave
  BY <1>2 DEF Leave, gateway, Generation
<1>3. CASE OpenDialog
  BY <1>3 DEF OpenDialog, gateway
<1>4. ASSUME NEW c \in Calls, Generate(c) PROVE DialogInv'
  <2>1. /\ minted' = minted /\ generated' = generated /\ generated = 0
        /\ \A d \in Calls : ~Pending(d)
        /\ gen' = [d \in Calls |->
                     IF d = c THEN [stage |-> "sent", key |-> 0, mine |-> TRUE, last |-> TRUE]
                     ELSE [gen[d] EXCEPT !.last = FALSE]]
    BY <1>4 DEF Generate, CanGenerate, gateway
  <2>. QED
    BY <2>1 DEF Generation
<1>5. ASSUME NEW c \in Calls, KeyMinted(c) PROVE DialogInv'
  <2>1. /\ minted' = minted + 1 /\ minted' \in Nat /\ gen[c].stage = "sent"
        /\ generated' = generated /\ latest' = latest
        /\ gen' = [gen EXCEPT ![c].stage = "done", ![c].key = minted']
    BY <1>5 DEF KeyMinted, Mint
  <2>. QED
    BY <2>1 DEF Generation
<1>6. ASSUME NEW c \in Calls, KeyArrives(c) PROVE DialogInv'
  <2>1. /\ minted' = minted /\ gen[c].stage = "done" /\ gen' = [gen EXCEPT ![c] = NoCall]
        /\ \/ gen[c].mine /\ latest' = gen[c].last
           \/ generated' = generated /\ latest' = latest
    BY <1>6 DEF KeyArrives, gateway
  <2>. QED
    BY <1>0, <2>1
<1>7. ASSUME NEW c \in Calls, GenerateFails(c) PROVE DialogInv'
  <2>1. /\ minted' = minted /\ generated' = generated /\ latest' = latest
        /\ gen' = [gen EXCEPT ![c] = NoCall]
    BY <1>7 DEF GenerateFails, gateway
  <2>. QED
    BY <1>0, <2>1
<1>8. CASE Listing \/ Visit \/ InfoArrives
  BY <1>1, <1>8
  DEF Listing, Poll, ListPage, ListFallsBack, ListFails, ListArrives, Visit, InfoArrives,
      gateway, dialog
<1>9. CASE Deleting
  BY <1>1, <1>9
  DEF Deleting, Delete, KeyDeleted, DeleteSucceeds, DeleteFails, OtherDeletes, gateway, dialog
<1>10. CASE CloseDialog \/ Saving \/ UNCHANGED vars
  BY <1>1, <1>10
  DEF CloseDialog, Saving, SaveSecret, SecretDeleted, SecretCreated, SaveFails,
      SaveSucceeds, gateway, dialog, vars
<1>. QED
  BY <1>2, <1>3, <1>4, <1>5, <1>6, <1>7, <1>8, <1>9, <1>10 DEF Next, Moving, Generating

-----------------------------------------------------------------------------
(* The inductive invariant holds of every state: types, the keys listed once *)
(* and everything the properties of the listings below rest on.            *)
THEOREM SpecIInv == Spec => []IInv
<1>1. Init => IInv
  BY InitInv
<1>2. IInv /\ [Next]_vars => IInv'
  BY ListingSteps, MovingSteps, DeletingSteps, GeneratingSteps, OtherSteps DEF Next
<1>. QED
  BY <1>1, <1>2, PTL DEF Spec

(* Of any number of generations in flight, none but the one submitted last   *)
(* ends up on show, although dialogs are closed and reopened over them and   *)
(* pages left and visited again (GenerateKeyDialog.tsx:58-86, 113-115).      *)
THEOREM ShownKeysAreLatest == Spec => []ShowsLatestSubmission
<1>1. Init => DialogInv
  BY DEF Init, DialogInv, Generation, NoCall, Pending, ShowsLatestSubmission
<1>2. DialogInv => ShowsLatestSubmission
  BY DEF DialogInv
<1>. QED
  BY <1>1, <1>2, DialogStep, PTL DEF Spec

(* No list brings back a key the user was told is deleted, however late it   *)
(* arrives and however many pages it took, but one: the list under way when  *)
(* the report came to a page that had been left (GatewayPage.tsx:65-92).     *)
THEOREM DeletedKeysStayGone == Spec => []DeletedStaysGone
<1>1. IInv => DeletedStaysGone
  BY DEF IInv
<1>. QED
  BY <1>1, SpecIInv, PTL

(* Reading LiteLLM's keys page by page misses none, whatever the size of a   *)
(* page, wherever keys are minted meanwhile and whether or not the listing   *)
(* falls back to its bare form (client.go:218-259).                          *)
THEOREM ListsAreComplete == Spec => []ListComplete
<1>1. IInv => ListComplete
  BY DEF IInv
<1>. QED
  BY <1>1, SpecIInv, PTL

-----------------------------------------------------------------------------
(***************************************************************************)
(* The usage on the Monitoring page.                                       *)
(***************************************************************************)

(* The section under way, like the one on the page, adds up from the moment  *)
(* it is put together; until then it is that of a gateway out of reach.      *)
UsageInv ==
  /\ log \in Seq(Requests)
  /\ DOMAIN collect = {"stage", "logs", "keys", "models", "gateway"}
  /\ collect.logs \in Seq(Requests)
  /\ Consistent(collect.gateway)
  /\ DOMAIN overview = {"gateway", "loaded", "failed"}
  /\ Consistent(overview.gateway)

(* Every log is in the row of its name, and a row counts its own logs only.  *)
LEMMA GroupedAddsUp ==
  ASSUME NEW col, NEW lifetime, NEW logs \in Seq(Requests)
  PROVE  AddUp(Grouped(col, lifetime, logs), Len(logs))
<1>. DEFINE rows == Grouped(col, lifetime, logs)
            row == [i \in 1..Len(logs) |-> logs[i][col]]
<1>1. DOMAIN logs = 1..Len(logs)
  BY LenProperties
<1>2. DOMAIN rows = DOMAIN lifetime \cup {logs[i][col] : i \in DOMAIN logs}
  BY DEF Grouped
<1>3. row \in [1..Len(logs) -> DOMAIN rows]
  BY <1>1, <1>2
<1>4. ASSUME NEW name \in DOMAIN rows
      PROVE  rows[name].requests = Cardinality({i \in 1..Len(logs) : row[i] = name})
  <2>1. rows[name].requests = Count(logs, col, name)
    BY <1>2 DEF Grouped
  <2>2. {i \in 1..Len(logs) : row[i] = name} = {i \in DOMAIN logs : logs[i][col] = name}
    BY <1>1
  <2>. QED
    BY <2>1, <2>2 DEF Count
<1>. HIDE DEF row
<1>. QED
  BY <1>3, <1>4 DEF AddUp

LEMMA UnreachableAddsUp == Consistent(Unreachable)
<1>1. AddUp(NoRows, 0)
  <2>1. NoRows \in [1..0 -> DOMAIN NoRows] /\ DOMAIN NoRows = {}
    BY DEF NoRows
  <2>. QED
    BY <2>1 DEF AddUp
<1>. QED
  BY <1>1 DEF Consistent, Unreachable

LEMMA NewestLogs ==
  ASSUME log \in Seq(Requests)
  PROVE  Newest(Window) \in Seq(Requests)
<1>1. Len(log) \in Nat /\ \A i \in 1..Len(log) : log[i] \in Requests
  BY LenProperties, ElementOfSeq
<1>2. CASE Len(log) > Window
  <2>1. \A i \in Len(log) - Window + 1..Len(log) : log[i] \in Requests
    BY <1>1, <1>2, WindowAssumption
  <2>2. SubSeq(log, Len(log) - Window + 1, Len(log)) \in Seq(Requests)
    BY <1>1, <1>2, <2>1, WindowAssumption, SubSeqProperties
  <2>. QED
    BY <1>1, <1>2, <2>2, WindowAssumption DEF Newest
<1>. QED
  BY <1>1, <1>2, WindowAssumption DEF Newest

LEMMA BlankOverview ==
  /\ DOMAIN NotCollecting = {"stage", "logs", "keys", "models", "gateway"}
  /\ NotCollecting.logs \in Seq(Requests) /\ NotCollecting.gateway = Unreachable
BY EmptySeq DEF NotCollecting

LEMMA UsageInitInv == UsageInit => UsageInv
<1>. SUFFICES ASSUME UsageInit PROVE UsageInv
  OBVIOUS
<1>1. /\ DOMAIN collect = DOMAIN NotCollecting /\ collect.logs = NotCollecting.logs
      /\ collect.gateway = NotCollecting.gateway
  BY BlankOverview DEF UsageInit
<1>2. /\ log = <<>> /\ DOMAIN overview = {"gateway", "loaded", "failed"}
      /\ overview.gateway = Unreachable
  BY DEF UsageInit
<1>. QED
  BY <1>1, <1>2, BlankOverview, UnreachableAddsUp, EmptySeq DEF UsageInv

(* The server puts the overview together, the page receives it.              *)
LEMMA CollectingSteps ==
  ASSUME UsageInv, PollOverview \/ Collecting \/ SubstrateFails \/ GatewayFails
  PROVE  UsageInv'
<1>1. log' = log
  BY DEF PollOverview, Collecting, SubstrateCollected, SpendRead, LogsRead, KeysRead,
         ModelsRead, OverviewArrives, SubstrateFails, GatewayFails, world
<1>2. ASSUME NEW stage, collect' = [NotCollecting EXCEPT !.stage = stage]
      PROVE  /\ DOMAIN collect' = {"stage", "logs", "keys", "models", "gateway"}
             /\ collect'.logs \in Seq(Requests) /\ Consistent(collect'.gateway)
  <2>1. /\ DOMAIN collect' = DOMAIN NotCollecting
        /\ collect'.logs = NotCollecting.logs /\ collect'.gateway = NotCollecting.gateway
    BY <1>2, BlankOverview
  <2>. QED
    BY <2>1, BlankOverview, UnreachableAddsUp
<1>3. CASE PollOverview \/ GatewayFails
  BY <1>1, <1>2, <1>3 DEF PollOverview, GatewayFails, UsageInv
<1>4. CASE SubstrateCollected \/ SpendRead \/ KeysRead
  <2>1. /\ DOMAIN collect' = DOMAIN collect /\ collect'.logs = collect.logs
        /\ collect'.gateway = collect.gateway /\ overview' = overview
    BY <1>4 DEF SubstrateCollected, SpendRead, KeysRead, UsageInv
  <2>. QED
    BY <1>1, <2>1 DEF UsageInv
<1>5. CASE LogsRead
  <2>1. /\ DOMAIN collect' = DOMAIN collect /\ collect'.logs = Newest(Window)
        /\ collect'.gateway = collect.gateway /\ overview' = overview
    BY <1>5 DEF LogsRead, UsageInv
  <2>. QED
    BY <1>1, <2>1, NewestLogs DEF UsageInv
<1>6. CASE ModelsRead
  <2>. DEFINE c == [collect EXCEPT !.models = Lifetime("model", Models)]
  <2>1. c.logs = collect.logs
    BY DEF UsageInv
  <2>2. collect' = [NotCollecting EXCEPT !.stage = "answered", !.gateway = Section(c)]
        /\ overview' = overview
    BY <1>6 DEF ModelsRead
  <2>. HIDE DEF c
  <2>3. Consistent(Section(c))
    BY <2>1, GroupedAddsUp DEF Section, Consistent, UsageInv
  <2>4. /\ DOMAIN collect' = DOMAIN NotCollecting
        /\ collect'.logs = NotCollecting.logs /\ collect'.gateway = Section(c)
    BY <2>2, BlankOverview
  <2>. QED
    BY <1>1, <2>2, <2>3, <2>4, BlankOverview DEF UsageInv
<1>7. CASE OverviewArrives
  <2>1. /\ collect' = NotCollecting
        /\ DOMAIN overview' = {"gateway", "loaded", "failed"}
        /\ overview'.gateway = collect.gateway
    BY <1>7 DEF OverviewArrives
  <2>. QED
    BY <1>1, <2>1, BlankOverview, UnreachableAddsUp DEF UsageInv
<1>8. CASE SubstrateFails
  <2>1. /\ collect' = NotCollecting /\ DOMAIN overview' = DOMAIN overview
        /\ overview'.gateway = overview.gateway
    BY <1>8 DEF SubstrateFails, UsageInv
  <2>. QED
    BY <1>1, <2>1, BlankOverview, UnreachableAddsUp DEF UsageInv
<1>. QED
  BY <1>3, <1>4, <1>5, <1>6, <1>7, <1>8 DEF Collecting

LEMMA UsageStep == UsageInv /\ [UsageNext]_usageVars => UsageInv'
<1>. SUFFICES ASSUME UsageInv, [UsageNext]_usageVars PROVE UsageInv'
  OBVIOUS
<1>1. ASSUME NEW r \in Requests, Served(r) PROVE UsageInv'
  <2>1. log' \in Seq(Requests)
    BY <1>1, AppendProperties DEF Served, UsageInv
  <2>. QED
    BY <1>1, <2>1 DEF Served, UsageInv
<1>2. CASE PollLogs \/ ReadingLogs \/ LogsFail \/ UNCHANGED usageVars
  BY <1>2 DEF PollLogs, ReadingLogs, AliasesNext, LogsArrive, LogsFail, usageVars, world,
              UsageInv
<1>3. CASE GatewayToggles \/ SubstrateToggles \/ \E k \in VirtualKeys : VirtualKeyDeleted(k)
  BY <1>3 DEF GatewayToggles, SubstrateToggles, VirtualKeyDeleted, UsageInv
<1>. QED
  BY <1>1, <1>2, <1>3, CollectingSteps DEF UsageNext

(* The usage on the page adds up by key and by model, for any keys, models   *)
(* and window, whatever is served, deleted or out of reach while its parts   *)
(* are read (monitoring.go:298-299, 332-376).                                *)
THEOREM UsageAlwaysAddsUp == UsageSpec => []UsageAddsUp
<1>1. UsageInv => UsageAddsUp
  BY DEF UsageInv, UsageAddsUp
<1>. QED
  BY <1>1, UsageInitInv, UsageStep, PTL DEF UsageSpec
=============================================================================
