--------------------------- MODULE AuditLogProofs ---------------------------
(***************************************************************************)
(* Proofs about AuditLog for every set of fields, every secret and any     *)
(* number of appends and of edits.                                         *)
(***************************************************************************)
EXTENDS AuditLog, SequenceTheorems, WellFoundedInduction, TLAPS

Bodies == [Timestamp : 0 .. MaxTime, Actor : Actors, Action : Actions, Resource : Resources]
Issued == {truth[k].MAC : k \in 1 .. Len(truth)}
Entries == [body : Bodies, MAC : Issued]

\* Every MAC in the log is one that Append issued.
Shape ==
  /\ now \in 0 .. MaxTime /\ edits \in Nat
  /\ truth \in Seq([body : Bodies, MAC : Issued, edits : Nat])
  /\ entries \in Seq(Entries)

\* Append chained entry k to prev.
ChainedTo(k, prev) == truth[k].MAC = Sign(secret, Chained(prev, truth[k].body))

\* Every entry was chained to none, or to one that was appended before it.
ChainInv ==
  \A k \in 1 .. Len(truth) :
    ChainedTo(k, NoMAC) \/ \E j \in 1 .. k - 1 : ChainedTo(k, truth[j].MAC)

\* While nothing was appended to a changed log, each was chained to the one
\* right before it, and no two have the same MAC.
Clean == \A k \in 1 .. Len(truth) : truth[k].edits = 0
CleanInv ==
  Clean =>
    /\ \A k \in 1 .. Len(truth) : ChainedTo(k, IF k = 1 THEN NoMAC ELSE truth[k - 1].MAC)
    /\ \A j, k \in 1 .. Len(truth) : truth[j].MAC = truth[k].MAC => j = k

\* While the log was not changed it is what Append made.
HonestInv ==
  edits = 0 =>
    /\ Clean
    /\ Len(entries) = Len(truth)
    /\ \A k \in 1 .. Len(truth) :
         entries[k].body = truth[k].body /\ entries[k].MAC = truth[k].MAC

IInv == Shape /\ ChainInv /\ CleanInv /\ HonestInv

-----------------------------------------------------------------------------
(* MACs and numbers                                                        *)

\* A set of numbers has a least one.
LEMMA LeastElement ==
  ASSUME NEW S, S \subseteq Nat, S # {}
  PROVE  \E m \in S : \A k \in S : m <= k
<1>1. \E m \in S : \A k \in S : ~(<<k, m>> \in {ss \in Nat \X Nat : ss[1] < ss[2]})
  BY NatLessThanWellFounded, WFMin, Zenon DEF OpToRel
<1>2. PICK m \in S : \A k \in S : ~(<<k, m>> \in {ss \in Nat \X Nat : ss[1] < ss[2]})
  BY <1>1
<1>3. \A k \in S : ~(k < m)
  BY <1>2
<1> QED BY <1>3

\* Two MACs are equal only if they were made over the same, and none is NoMAC.
LEMMA MacFacts ==
  ASSUME NEW p, NEW q, NEW d, NEW e
  PROVE  /\ Sign(secret, Chained(p, d)) = Sign(secret, Chained(q, e)) =>
              p = q /\ payload(d) = payload(e)
         /\ Sign(secret, Chained(p, d)) # NoMAC
         /\ Sign(secret, Chained(p, d)).len = Size
<1> DEFINE a == Chained(p, d)
           b == Chained(q, e)
<1>1. Sign(secret, a).data = a /\ Sign(secret, b).data = b /\ Sign(secret, a).len = 32
  BY DEF Sign, Size
<1>2. NoMAC.len = 0
  BY DEF NoMAC
<1>3. a = b => p = q /\ payload(d) = payload(e)
  <2> DEFINE u == payload(d)
             v == payload(e)
  <2>1. a = <<p, u>> /\ b = <<q, v>>
    BY DEF Chained
  <2> HIDE DEF a, b, u, v
  <2>2. a = b => p = q /\ u = v
    BY <2>1
  <2> QED BY <2>2 DEF u, v
<1> HIDE DEF a, b
<1>4. /\ Sign(secret, a) = Sign(secret, b) => p = q /\ payload(d) = payload(e)
      /\ Sign(secret, a) # NoMAC /\ Sign(secret, a).len = Size
  BY <1>1, <1>2, <1>3 DEF Size
<1> QED BY <1>4 DEF a, b

\* The entries Verify vouches for are chained: each to the MAC before it.
PrevMAC(i) == IF i = 1 THEN NoMAC ELSE entries[i - 1].MAC

LEMMA SoundFacts ==
  ASSUME entries \in Seq(Entries)
  PROVE  /\ Sound \in 0 .. Len(entries)
         /\ \A i \in 1 .. Sound :
              entries[i].MAC = Sign(secret, Chained(PrevMAC(i), entries[i].body))
         /\ (\A i \in 1 .. Len(entries) : ~Breaks(i)) => Sound = Len(entries)
<1> DEFINE bad == {i \in DOMAIN entries : Breaks(i)}
<1>1. Len(entries) \in Nat /\ DOMAIN entries = 1 .. Len(entries)
  OBVIOUS
<1>2. Sound = IF bad = {} THEN Len(entries) ELSE Min(bad) - 1
  BY DEF Sound
<1>3. Sound \in 0 .. Len(entries) /\ \A i \in 1 .. Sound : ~Breaks(i)
  <2>1. CASE bad = {}
    BY <1>1, <1>2, <2>1
  <2>2. CASE bad # {}
    <3>1. bad \subseteq 1 .. Len(entries) /\ \A i \in 1 .. Len(entries) : Breaks(i) => i \in bad
      BY <1>1
    <3> HIDE DEF bad
    <3>2. bad \subseteq Nat
      BY <1>1, <3>1
    <3>3. \E m \in bad : \A k \in bad : m <= k
      BY <2>2, <3>2, LeastElement
    <3> DEFINE m == Min(bad)
    <3>4. m \in bad /\ \A k \in bad : m <= k
      BY <3>3 DEF Min
    <3>5. Sound = m - 1
      BY <1>2, <2>2
    <3> HIDE DEF m
    <3>6. m \in 1 .. Len(entries)
      BY <3>1, <3>4
    <3>7. \A i \in 1 .. Sound : i \in 1 .. Len(entries) /\ i < m
      BY <1>1, <3>5, <3>6
    <3>8. \A i \in 1 .. Sound : i \notin bad
      <4> SUFFICES ASSUME NEW i \in 1 .. Sound, i \in bad PROVE FALSE
        OBVIOUS
      <4>1. i < m /\ m <= i /\ i \in 1 .. Len(entries)
        BY <3>4, <3>7
      <4> QED BY <1>1, <3>6, <4>1
    <3>9. Sound \in 0 .. Len(entries)
      BY <1>1, <3>5, <3>6
    <3> QED BY <3>1, <3>7, <3>8, <3>9
  <2> QED BY <2>1, <2>2
<1>4. ASSUME NEW i, ~Breaks(i)
      PROVE  entries[i].MAC = Sign(secret, Chained(PrevMAC(i), entries[i].body))
  BY <1>4 DEF Breaks, PrevMAC, Verify, ConstantTimeEqual
<1>5. ASSUME \A i \in 1 .. Len(entries) : ~Breaks(i) PROVE Sound = Len(entries)
  <2>1. bad = {}
    BY <1>1, <1>5
  <2> QED BY <1>2, <2>1
<1> QED BY <1>3, <1>4, <1>5

\* What the invariant says of the entries that are vouched for: an append that
\* issued the MAC of entry i wrote the same text and chained it to the same MAC.
LEMMA VouchedEntry ==
  ASSUME IInv, NEW i \in 1 .. Sound
  PROVE  /\ i \in 1 .. Len(entries)
         /\ \E k \in 1 .. Len(truth) : truth[k].MAC = entries[i].MAC
         /\ \A k \in 1 .. Len(truth) : truth[k].MAC = entries[i].MAC =>
              /\ payload(truth[k].body) = payload(entries[i].body)
              /\ \A p : ChainedTo(k, p) => p = PrevMAC(i)
<1>1. entries \in Seq(Entries) /\ ChainInv
  BY DEF IInv, Shape
<1>2. i \in 1 .. Len(entries)
  BY <1>1, SoundFacts
<1>3. entries[i].MAC = Sign(secret, Chained(PrevMAC(i), entries[i].body))
  BY <1>1, SoundFacts
<1>4. entries[i] \in Entries
  BY <1>1, <1>2
<1>5. \E k \in 1 .. Len(truth) : truth[k].MAC = entries[i].MAC
  BY <1>4 DEF Entries, Issued
<1>6. ASSUME NEW k \in 1 .. Len(truth), truth[k].MAC = entries[i].MAC
      PROVE  /\ payload(truth[k].body) = payload(entries[i].body)
             /\ \A p : ChainedTo(k, p) => p = PrevMAC(i)
  <2>1. ASSUME NEW p, ChainedTo(k, p)
        PROVE  p = PrevMAC(i) /\ payload(truth[k].body) = payload(entries[i].body)
    <3>1. Sign(secret, Chained(p, truth[k].body))
            = Sign(secret, Chained(PrevMAC(i), entries[i].body))
      BY <1>3, <1>6, <2>1 DEF ChainedTo
    <3> QED BY <3>1, MacFacts
  <2>2. \E p : ChainedTo(k, p)
    BY <1>1 DEF ChainInv
  <2> QED BY <2>1, <2>2
<1> QED BY <1>2, <1>5, <1>6

-----------------------------------------------------------------------------
(* The steps                                                               *)

\* An empty log.
LEMMA InitInv ==
  ASSUME Init
  PROVE  IInv
<1>1. now = 0 /\ edits = 0 /\ entries = <<>> /\ truth = <<>>
  BY DEF Init
<1>2. Len(entries) = 0 /\ Len(truth) = 0
  BY <1>1
<1>3. Shape
  BY <1>1, ClockAssumption DEF Shape
<1>4. ChainInv /\ CleanInv /\ HonestInv
  BY <1>2 DEF ChainInv, CleanInv, HonestInv, Clean
<1> QED BY <1>3, <1>4 DEF IInv

\* The clock.
LEMMA TimeInv ==
  ASSUME IInv, now' \in 0 .. MaxTime, UNCHANGED logVars
  PROVE  IInv'
<1>1. entries' = entries /\ truth' = truth /\ edits' = edits
  BY DEF logVars
<1>2. Shape'
  BY <1>1 DEF IInv, Shape, Entries, Issued
<1>3. ChainInv' /\ CleanInv' /\ HonestInv'
  BY <1>1 DEF IInv, ChainInv, CleanInv, HonestInv, Clean, ChainedTo
<1> QED BY <1>2, <1>3 DEF IInv

\* A change outside the program that leaves issued MACs only.
LEMMA EditedInv ==
  ASSUME IInv, NEW new, new \in Seq(Entries), Edited(new)
  PROVE  IInv'
<1>1. entries' = new /\ truth' = truth /\ edits' = edits + 1 /\ now' = now
  BY DEF Edited, clockVars
<1>2. Shape'
  BY <1>1 DEF IInv, Shape, Entries, Issued
<1>3. ChainInv' /\ CleanInv'
  BY <1>1 DEF IInv, ChainInv, CleanInv, Clean, ChainedTo
<1>4. HonestInv'
  BY <1>1 DEF IInv, Shape, HonestInv
<1> QED BY <1>2, <1>3, <1>4 DEF IInv

\* An entry of the program is well formed.
LEMMA EntryType ==
  ASSUME NEW time \in 0 .. MaxTime, NEW actor \in Actors, NEW action \in Actions,
         NEW resource \in Resources
  PROVE  AuditEntry(time, actor, action, resource) \in Bodies
BY DEF AuditEntry, Bodies

\* The changes that are made outside the program.
LEMMA RewriteInv ==
  ASSUME IInv, NEW i \in DOMAIN entries, NEW e \in Bodies, Rewrite(i, e)
  PROVE  IInv'
<1>1. entries \in Seq(Entries)
  BY DEF IInv, Shape
<1>2. entries[i] \in Entries
  BY <1>1
<1>3. [entries[i] EXCEPT !.body = e] \in Entries
  BY <1>2 DEF Entries
<1>4. [entries EXCEPT ![i].body = e] = [entries EXCEPT ![i] = [entries[i] EXCEPT !.body = e]]
  OBVIOUS
<1>5. [entries EXCEPT ![i] = [entries[i] EXCEPT !.body = e]] \in Seq(Entries)
  BY <1>1, <1>3
<1>6. [entries EXCEPT ![i].body = e] \in Seq(Entries)
  BY <1>4, <1>5, Zenon
<1> QED BY <1>6, EditedInv DEF Rewrite

LEMMA DropInv ==
  ASSUME IInv, NEW i \in DOMAIN entries, Drop(i)
  PROVE  IInv'
<1>1. entries \in Seq(Entries) /\ i \in 1 .. Len(entries) /\ Len(entries) \in Nat
  BY DEF IInv, Shape
<1>2. SubSeq(entries, 1, i - 1) \in Seq(Entries) /\ SubSeq(entries, i + 1, Len(entries)) \in Seq(Entries)
  BY <1>1
<1>3. RemoveAt(entries, i) \in Seq(Entries)
  BY <1>2, ConcatProperties DEF RemoveAt
<1> QED BY <1>3, EditedInv DEF Drop

LEMMA PutInInv ==
  ASSUME IInv, NEW k \in DOMAIN truth, NEW j \in 1 .. Len(entries) + 1, PutIn(k, j)
  PROVE  IInv'
<1> DEFINE R == [body : Bodies, MAC : Issued, edits : Nat]
           e == [body |-> truth[k].body, MAC |-> truth[k].MAC]
<1>1. entries \in Seq(Entries) /\ Len(entries) \in Nat /\ truth \in Seq(R)
  BY DEF IInv, Shape
<1>2. truth[k] \in R
  <2> HIDE DEF R
  <2> QED BY <1>1
<1>3. e \in Entries
  BY <1>2 DEF Entries
<1> HIDE DEF e
<1>4. /\ SubSeq(entries, 1, j - 1) \in Seq(Entries) /\ SubSeq(entries, j, Len(entries)) \in Seq(Entries)
      /\ <<e>> \in Seq(Entries)
  BY <1>1, <1>3
<1>5. InsertAt(entries, j, e) \in Seq(Entries)
  BY <1>4, ConcatProperties DEF InsertAt
<1> QED BY <1>5, EditedInv DEF PutIn, e

\* What LastMAC chains to: the last entry of the log, whose MAC was issued.
LEMMA LastFacts ==
  ASSUME IInv
  PROVE  /\ LastMAC = NoMAC \/ \E j \in 1 .. Len(truth) : LastMAC = truth[j].MAC
         /\ edits = 0 => LastMAC = IF Len(truth) = 0 THEN NoMAC ELSE truth[Len(truth)].MAC
<1>1. entries \in Seq(Entries) /\ Len(entries) \in Nat
  BY DEF IInv, Shape
<1>2. CASE entries = <<>>
  <2>1. LastMAC = NoMAC /\ Len(entries) = 0
    BY <1>2 DEF LastMAC
  <2> QED BY <2>1 DEF IInv, HonestInv
<1>3. CASE entries # <<>>
  <2>1. Len(entries) \in 1 .. Len(entries) /\ LastMAC = entries[Len(entries)].MAC
    BY <1>1, <1>3 DEF LastMAC, Last
  <2>2. entries[Len(entries)] \in Entries
    BY <1>1, <2>1
  <2>3. \E j \in 1 .. Len(truth) : LastMAC = truth[j].MAC
    BY <2>1, <2>2 DEF Entries, Issued
  <2>4. edits = 0 => Len(truth) = Len(entries) /\ Len(truth) # 0
                     /\ entries[Len(entries)].MAC = truth[Len(truth)].MAC
    BY <1>1, <2>1 DEF IInv, HonestInv
  <2> QED BY <2>1, <2>3, <2>4
<1> QED BY <1>2, <1>3

\* Append.
LEMMA AppendInv ==
  ASSUME IInv, NEW actor \in Actors, NEW action \in Actions, NEW resource \in Resources,
         AppendEntry(actor, action, resource)
  PROVE  IInv'
<1> DEFINE e == AuditEntry(now, actor, action, resource)
           mac == Sign(secret, Chained(LastMAC, e))
           n == Len(truth)
           new == [body |-> e, MAC |-> mac]
           rec == [body |-> e, MAC |-> mac, edits |-> edits]
<1>1. /\ entries' = Append(entries, new) /\ truth' = Append(truth, rec)
      /\ edits' = edits /\ now' = now
  BY DEF AppendEntry, clockVars
<1>2. /\ now \in 0 .. MaxTime /\ edits \in Nat /\ n \in Nat /\ Len(entries) \in Nat
      /\ truth \in Seq([body : Bodies, MAC : Issued, edits : Nat])
      /\ entries \in Seq(Entries)
  BY DEF IInv, Shape
<1>3. e \in Bodies
  BY <1>2, EntryType
<1>4. /\ new.body = e /\ new.MAC = mac
      /\ rec.body = e /\ rec.MAC = mac /\ rec.edits = edits
  OBVIOUS
<1> HIDE DEF e
<1>5. LastMAC = NoMAC \/ \E j \in 1 .. n : LastMAC = truth[j].MAC
  BY LastFacts
<1>6. edits = 0 => LastMAC = IF n = 0 THEN NoMAC ELSE truth[n].MAC
  BY LastFacts
<1>7. /\ \A p : p # LastMAC => mac # Sign(secret, Chained(p, e))
      /\ \A p, d : mac = Sign(secret, Chained(p, d)) => p = LastMAC
      /\ mac # NoMAC
  BY MacFacts
<1>8. new \in [body : Bodies, MAC : {mac}] /\ rec \in [body : Bodies, MAC : {mac}, edits : Nat]
  BY <1>2, <1>3
<1> HIDE DEF new, rec, mac
<1>9. /\ Len(truth') = n + 1 /\ truth'[n + 1] = rec
      /\ \A k \in 1 .. n : truth'[k] = truth[k]
  BY <1>1, <1>2
<1>10. /\ Len(entries') = Len(entries) + 1 /\ entries'[Len(entries) + 1] = new
       /\ \A k \in 1 .. Len(entries) : entries'[k] = entries[k]
  BY <1>1, <1>2
<1> HIDE DEF n
<1>11. \A k \in 1 .. Len(truth') : k \in 1 .. n \/ k = n + 1
  BY <1>2, <1>9
<1>12. \A k \in 1 .. n : k \in 1 .. Len(truth')
  BY <1>2, <1>9
<1>13. n + 1 \in 1 .. Len(truth')
  BY <1>2, <1>9
<1>14. Issued \subseteq Issued' /\ mac \in Issued'
  <2>1. \A k \in 1 .. n : truth[k].MAC \in Issued'
    BY <1>9, <1>12 DEF Issued
  <2>2. mac \in Issued'
    BY <1>4, <1>9, <1>13 DEF Issued
  <2> QED BY <2>1, <2>2 DEF Issued, n
<1>15. Shape'
  <2> DEFINE T(S) == [body : Bodies, MAC : S, edits : Nat]
  <2>1. truth \in Seq(T(Issued')) /\ rec \in T(Issued')
    <3>1. T(Issued) \subseteq T(Issued') /\ rec \in T(Issued')
      BY <1>8, <1>14
    <3>2. truth \in Seq(T(Issued))
      BY <1>2
    <3> HIDE DEF T
    <3> QED BY <3>1, <3>2
  <2>2. entries \in Seq(Entries') /\ new \in Entries'
    <3>1. Entries \subseteq Entries' /\ new \in Entries'
      BY <1>8, <1>14 DEF Entries
    <3> QED BY <1>2, <3>1
  <2>3. truth' \in Seq(T(Issued')) /\ entries' \in Seq(Entries')
    <3> HIDE DEF T
    <3> QED BY <1>1, <2>1, <2>2
  <2> QED BY <1>1, <1>2, <2>3 DEF Shape
<1>16. truth'[n + 1].MAC = Sign(secret, Chained(LastMAC, truth'[n + 1].body))
  BY <1>4, <1>9 DEF mac
<1>17. ChainInv'
  <2>1. ASSUME NEW k \in 1 .. n
        PROVE  \/ truth'[k].MAC = Sign(secret, Chained(NoMAC, truth'[k].body))
               \/ \E j \in 1 .. k - 1 : truth'[k].MAC = Sign(secret, Chained(truth'[j].MAC, truth'[k].body))
    <3>1. \A j \in 1 .. k - 1 : truth'[j] = truth[j]
      <4>1. \A j \in 1 .. k - 1 : j \in 1 .. n
        BY <1>2
      <4> QED BY <1>9, <4>1
    <3>2. k \in 1 .. Len(truth)
      BY DEF n
    <3> QED BY <1>9, <3>1, <3>2 DEF IInv, ChainInv, ChainedTo
  <2>2. \/ LastMAC = NoMAC
        \/ \E j \in 1 .. n + 1 - 1 : LastMAC = truth'[j].MAC
    BY <1>2, <1>5, <1>9
  <2>3. ASSUME NEW k \in 1 .. Len(truth')
        PROVE  ChainedTo(k, NoMAC)' \/ \E j \in 1 .. k - 1 : ChainedTo(k, truth[j].MAC)'
    <3>1. CASE k \in 1 .. n
      BY <2>1, <3>1 DEF ChainedTo
    <3>2. CASE k = n + 1
      <4>1. CASE LastMAC = NoMAC
        BY <1>16, <3>2, <4>1 DEF ChainedTo
      <4>2. ASSUME NEW j \in 1 .. n + 1 - 1, LastMAC = truth'[j].MAC
            PROVE  \E i \in 1 .. k - 1 : ChainedTo(k, truth[i].MAC)'
        <5>1. j \in 1 .. k - 1
          BY <1>2, <3>2
        <5>2. ChainedTo(k, truth[j].MAC)'
          BY <1>16, <3>2, <4>2 DEF ChainedTo
        <5> QED BY <5>1, <5>2
      <4> QED BY <2>2, <4>1, <4>2
    <3> QED BY <1>11, <3>1, <3>2
  <2> QED BY <2>3 DEF ChainInv
<1>18. Clean' => Clean /\ edits = 0
  <2>1. Clean' => \A k \in 1 .. n : truth[k].edits = 0
    BY <1>9, <1>12 DEF Clean
  <2>2. Clean' => truth'[n + 1].edits = 0
    BY <1>13 DEF Clean
  <2> QED BY <1>4, <1>9, <2>1, <2>2 DEF Clean, n
<1>19. CleanInv'
  <2> SUFFICES ASSUME Clean'
               PROVE  /\ \A k \in 1 .. Len(truth') :
                           ChainedTo(k, IF k = 1 THEN NoMAC ELSE truth[k - 1].MAC)'
                      /\ \A j, k \in 1 .. Len(truth') :
                           truth'[j].MAC = truth'[k].MAC => j = k
    BY DEF CleanInv
  <2>1. /\ \A k \in 1 .. n : ChainedTo(k, IF k = 1 THEN NoMAC ELSE truth[k - 1].MAC)
        /\ \A j, k \in 1 .. n : truth[j].MAC = truth[k].MAC => j = k
        /\ LastMAC = IF n = 0 THEN NoMAC ELSE truth[n].MAC
    BY <1>6, <1>18 DEF IInv, CleanInv, n
  <2>2. \A k \in 1 .. n : truth[k].MAC # NoMAC
    BY <2>1, MacFacts DEF ChainedTo
  <2>3. ASSUME NEW k \in 1 .. n PROVE truth[k].MAC # mac
    <3> DEFINE prev == IF k = 1 THEN NoMAC ELSE truth[k - 1].MAC
    <3>1. truth[k].MAC = Sign(secret, Chained(prev, truth[k].body))
      BY <2>1 DEF ChainedTo
    <3>2. prev # LastMAC
      <4>1. n # 0 /\ n \in 1 .. n /\ (k # 1 => k - 1 \in 1 .. n /\ k - 1 # n)
        BY <1>2
      <4> QED BY <2>1, <2>2, <4>1
    <3> HIDE DEF prev
    <3> QED BY <1>7, <3>1, <3>2
  <2>4. ASSUME NEW k \in 1 .. Len(truth')
        PROVE  ChainedTo(k, IF k = 1 THEN NoMAC ELSE truth[k - 1].MAC)'
    <3>1. CASE k \in 1 .. n
      <4>1. k # 1 => k - 1 \in 1 .. n
        BY <1>2, <3>1
      <4> QED BY <1>9, <2>1, <3>1, <4>1 DEF ChainedTo
    <3>2. CASE k = n + 1
      <4>1. (k = 1 <=> n = 0) /\ k - 1 = n /\ (n # 0 => n \in 1 .. n)
        BY <1>2, <3>2
      <4> QED BY <1>9, <1>16, <2>1, <3>2, <4>1 DEF ChainedTo
    <3> QED BY <1>11, <3>1, <3>2
  <2>5. ASSUME NEW j \in 1 .. Len(truth'), NEW k \in 1 .. Len(truth'),
               truth'[j].MAC = truth'[k].MAC
        PROVE  j = k
    BY <1>4, <1>9, <1>11, <2>1, <2>3, <2>5
  <2> QED BY <2>4, <2>5
<1>20. HonestInv'
  <2> SUFFICES ASSUME edits' = 0
               PROVE  /\ Clean'
                      /\ Len(entries') = Len(truth')
                      /\ \A k \in 1 .. Len(truth') :
                           entries'[k].body = truth'[k].body /\ entries'[k].MAC = truth'[k].MAC
    BY DEF HonestInv
  <2>1. /\ Clean /\ Len(entries) = n
        /\ \A k \in 1 .. n : entries[k].body = truth[k].body /\ entries[k].MAC = truth[k].MAC
    BY <1>1 DEF IInv, HonestInv, n
  <2>2. \A k \in 1 .. n : truth[k].edits = 0
    BY <2>1 DEF Clean, n
  <2>3. Clean'
    BY <1>1, <1>4, <1>9, <1>11, <2>2 DEF Clean
  <2>4. ASSUME NEW k \in 1 .. Len(truth')
        PROVE  entries'[k].body = truth'[k].body /\ entries'[k].MAC = truth'[k].MAC
    BY <1>4, <1>9, <1>10, <1>11, <2>1
  <2> QED BY <1>9, <1>10, <2>1, <2>3, <2>4
<1> QED BY <1>15, <1>17, <1>19, <1>20 DEF IInv

\* Every step of the specification.
LEMMA StepInv ==
  ASSUME IInv, [Next]_vars
  PROVE  IInv'
<1>1. now \in 0 .. MaxTime /\ MaxTime \in Nat
  BY ClockAssumption DEF IInv, Shape
<1>2. CASE (Tick \/ \E t \in 0 .. MaxTime : SetBack(t)) /\ UNCHANGED logVars
  <2>1. now' \in 0 .. MaxTime
    BY <1>1, <1>2 DEF Tick, SetBack
  <2> QED BY <1>2, <2>1, TimeInv
<1>3. ASSUME NEW actor \in Actors, NEW action \in Actions, NEW resource \in Resources,
             AppendEntry(actor, action, resource)
      PROVE  IInv'
  BY <1>3, AppendInv
<1>4. ASSUME NEW actor \in Actors, NEW action \in Actions, NEW resource \in Resources,
             NEW i \in DOMAIN entries, NEW time \in 0 .. MaxTime,
             Rewrite(i, AuditEntry(time, actor, action, resource))
      PROVE  IInv'
  <2>1. AuditEntry(time, actor, action, resource) \in Bodies
    BY EntryType
  <2> QED BY <1>4, <2>1, RewriteInv
<1>5. ASSUME NEW i \in DOMAIN entries, Drop(i) PROVE IInv'
  BY <1>5, DropInv
<1>6. ASSUME NEW k \in DOMAIN truth, NEW j \in 1 .. Len(entries) + 1, PutIn(k, j)
      PROVE  IInv'
  BY <1>6, PutInInv
<1>7. CASE UNCHANGED vars
  <2>1. now' = now /\ UNCHANGED logVars
    BY <1>7 DEF vars, clockVars, logVars
  <2> QED BY <1>1, <2>1, TimeInv
<1> QED BY <1>2, <1>3, <1>4, <1>5, <1>6, <1>7 DEF Next

\* The inductive invariant.
LEMMA Inv == Spec => []IInv
<1>1. Init => IInv
  BY InitInv
<1>2. IInv /\ [Next]_vars => IInv'
  BY StepInv
<1> QED BY <1>1, <1>2, PTL DEF Spec
-----------------------------------------------------------------------------
(* What the invariant gives                                                *)

\* An unchanged log verifies.
LEMMA HonestHolds ==
  ASSUME IInv
  PROVE  HonestVerifies
<1> SUFFICES ASSUME edits = 0 PROVE Sound = Len(entries)
  BY DEF HonestVerifies
<1>1. entries \in Seq(Entries) /\ Len(entries) \in Nat
  BY DEF IInv, Shape
<1>2. /\ Clean /\ Len(entries) = Len(truth)
      /\ \A k \in 1 .. Len(truth) :
           entries[k].body = truth[k].body /\ entries[k].MAC = truth[k].MAC
  BY DEF IInv, HonestInv
<1>3. \A k \in 1 .. Len(truth) : ChainedTo(k, IF k = 1 THEN NoMAC ELSE truth[k - 1].MAC)
  BY <1>2 DEF IInv, CleanInv
<1>4. ASSUME NEW i \in 1 .. Len(entries) PROVE ~Breaks(i)
  <2>1. i # 1 => i - 1 \in 1 .. Len(truth)
    BY <1>1, <1>2
  <2>2. entries[i].MAC = Sign(secret, Chained(PrevMAC(i), entries[i].body))
    BY <1>2, <1>3, <2>1 DEF ChainedTo, PrevMAC
  <2>3. entries[i].MAC.len = Size
    BY <2>2, MacFacts
  <2> QED BY <2>2, <2>3 DEF Breaks, PrevMAC, Verify, ConstantTimeEqual
<1> QED BY <1>1, <1>4, SoundFacts

\* The first append that issued the MAC of entry i.
First(i) ==
  CHOOSE k \in 1 .. Len(truth) :
    /\ truth[k].MAC = entries[i].MAC
    /\ \A j \in 1 .. Len(truth) : truth[j].MAC = entries[i].MAC => k <= j

LEMMA FirstFacts ==
  ASSUME IInv, NEW i \in 1 .. Sound
  PROVE  /\ First(i) \in 1 .. Len(truth)
         /\ truth[First(i)].MAC = entries[i].MAC
         /\ \A j \in 1 .. Len(truth) : truth[j].MAC = entries[i].MAC => First(i) <= j
<1> DEFINE S == {k \in 1 .. Len(truth) : truth[k].MAC = entries[i].MAC}
<1>1. S \subseteq Nat /\ S # {}
  BY VouchedEntry
<1>2. \E k \in S : \A j \in S : k <= j
  <2> HIDE DEF S
  <2> QED BY <1>1, LeastElement
<1>3. \E k \in 1 .. Len(truth) :
        /\ truth[k].MAC = entries[i].MAC
        /\ \A j \in 1 .. Len(truth) : truth[j].MAC = entries[i].MAC => k <= j
  BY <1>2
<1> QED BY <1>3, Zenon DEF First

\* Entries one after the other were appended one after the other.
LEMMA FirstsInOrder ==
  ASSUME IInv, NEW i \in 1 .. Sound, i > 1
  PROVE  First(i - 1) < First(i)
<1>1. Sound \in Nat /\ Len(truth) \in Nat
  BY SoundFacts DEF IInv, Shape
<1>2. i - 1 \in 1 .. Sound /\ i # 1
  BY <1>1
<1>3. First(i) \in 1 .. Len(truth) /\ truth[First(i)].MAC = entries[i].MAC
  BY FirstFacts
<1>4. /\ First(i - 1) \in 1 .. Len(truth) /\ truth[First(i - 1)].MAC = entries[i - 1].MAC
      /\ \A j \in 1 .. Len(truth) : truth[j].MAC = entries[i - 1].MAC => First(i - 1) <= j
  BY <1>2, FirstFacts
<1>5. \A p : ChainedTo(First(i), p) => p = entries[i - 1].MAC
  BY <1>2, <1>3, VouchedEntry DEF PrevMAC
<1>6. ~ChainedTo(First(i), NoMAC)
  <2>1. \E p : ChainedTo(First(i - 1), p)
    BY <1>4 DEF IInv, ChainInv
  <2>2. truth[First(i - 1)].MAC # NoMAC
    BY <2>1, MacFacts DEF ChainedTo
  <2> QED BY <1>4, <1>5, <2>2
<1>7. PICK j \in 1 .. First(i) - 1 : ChainedTo(First(i), truth[j].MAC)
  BY <1>3, <1>6 DEF IInv, ChainInv
<1>8. j \in 1 .. Len(truth) /\ j < First(i)
  BY <1>1, <1>3
<1>9. First(i - 1) <= j
  BY <1>4, <1>5, <1>7, <1>8
<1> QED BY <1>1, <1>3, <1>4, <1>8, <1>9

\* In a log nothing was appended to after a change, entry i that is vouched
\* for is the i-th that was appended.
LEMMA CleanInPlace ==
  ASSUME IInv, Clean, NEW i \in 1 .. Sound
  PROVE  First(i) = i
<1> DEFINE S == {k \in 1 .. Sound : First(k) # k}
<1>1. Sound \in Nat /\ Len(truth) \in Nat
  BY SoundFacts DEF IInv, Shape
<1>2. /\ \A k \in 1 .. Len(truth) : ChainedTo(k, IF k = 1 THEN NoMAC ELSE truth[k - 1].MAC)
      /\ \A j, k \in 1 .. Len(truth) : truth[j].MAC = truth[k].MAC => j = k
  BY DEF IInv, CleanInv
<1>3. \A k \in 1 .. Len(truth) : truth[k].MAC # NoMAC
  BY <1>2, MacFacts DEF ChainedTo
<1>4. ASSUME S # {} PROVE FALSE
  <2>1. S \subseteq Nat
    BY <1>1
  <2>2. \E m \in S : \A k \in S : m <= k
    <3> HIDE DEF S
    <3> QED BY <1>4, <2>1, LeastElement
  <2>3. PICK m \in S : \A k \in S : m <= k
    BY <2>2
  <2> DEFINE f == First(m)
  <2>4. m \in 1 .. Sound /\ f # m /\ \A k \in 1 .. Sound : k < m => First(k) = k
    BY <1>1, <2>3
  <2>5. f \in 1 .. Len(truth) /\ truth[f].MAC = entries[m].MAC
    BY <2>4, FirstFacts
  <2>6. PrevMAC(m) = IF f = 1 THEN NoMAC ELSE truth[f - 1].MAC
    BY <1>2, <2>4, <2>5, VouchedEntry
  <2> HIDE DEF f
  <2>7. CASE m = 1
    <3>1. PrevMAC(m) = NoMAC
      BY <2>7 DEF PrevMAC
    <3>2. f # 1 => f - 1 \in 1 .. Len(truth)
      BY <1>1, <2>5
    <3> QED BY <1>3, <2>4, <2>6, <2>7, <3>1, <3>2
  <2>8. CASE m # 1
    <3>1. m - 1 \in 1 .. Sound /\ m - 1 < m /\ m \in Nat
      BY <1>1, <2>4, <2>8
    <3>2. First(m - 1) = m - 1
      BY <2>4, <3>1
    <3>3. m - 1 \in 1 .. Len(truth) /\ truth[m - 1].MAC = entries[m - 1].MAC
      BY <3>1, <3>2, FirstFacts
    <3>4. PrevMAC(m) = truth[m - 1].MAC
      BY <2>8, <3>3 DEF PrevMAC
    <3>5. f # 1
      BY <1>3, <2>6, <3>3, <3>4
    <3>6. f - 1 \in 1 .. Len(truth)
      BY <1>1, <2>5, <3>5
    <3>7. f - 1 = m - 1
      BY <1>2, <2>6, <3>3, <3>4, <3>5, <3>6
    <3> QED BY <1>1, <2>4, <2>5, <3>1, <3>7
  <2> QED BY <2>7, <2>8
<1> QED BY <1>4

\* What Verify vouches for was appended.
LEMMA VouchedHolds ==
  ASSUME IInv
  PROVE  VouchedFor
<1> DEFINE texts == Texts(entries)
           made == Texts(truth)
           good == SubSeq(texts, 1, Sound)
           W == {payload(entries[i].body) : i \in 1 .. Len(entries)}
<1>1. /\ entries \in Seq(Entries) /\ Len(entries) \in Nat
      /\ Len(truth) \in Nat /\ DOMAIN truth = 1 .. Len(truth) /\ DOMAIN entries = 1 .. Len(entries)
  BY DEF IInv, Shape
<1>2. Sound \in 0 .. Len(entries)
  BY <1>1, SoundFacts
<1>3. /\ texts = [i \in 1 .. Len(entries) |-> payload(entries[i].body)]
      /\ made = [i \in 1 .. Len(truth) |-> payload(truth[i].body)]
  BY <1>1 DEF Texts
<1>4. \A i \in 1 .. Sound : i \in 1 .. Len(entries)
  BY <1>1, <1>2
<1>5. \A i \in 1 .. Sound : texts[i] = payload(entries[i].body) /\ texts[i] \in W
  BY <1>3, <1>4
<1>6. \A k \in 1 .. Len(truth) : made[k] = payload(truth[k].body)
  BY <1>3
<1>7. DOMAIN made = 1 .. Len(truth)
  BY <1>3
<1> HIDE DEF texts, made, W
<1>8. good \in Seq(W) /\ Len(good) = Sound /\ \A i \in 1 .. Sound : good[i] = texts[i]
  BY <1>1, <1>2, <1>5, SubSeqProperties
<1>9. DOMAIN good = 1 .. Sound
  BY <1>8
<1> HIDE DEF good
<1>10. ASSUME NEW i \in 1 .. Sound
       PROVE  First(i) \in 1 .. Len(truth) /\ good[i] = made[First(i)]
  <2>1. First(i) \in 1 .. Len(truth) /\ truth[First(i)].MAC = entries[i].MAC
    BY FirstFacts
  <2>2. payload(truth[First(i)].body) = payload(entries[i].body)
    BY <2>1, VouchedEntry
  <2> QED BY <1>5, <1>6, <1>8, <2>1, <2>2
<1>11. InOrderOf(good, made)
  <2> DEFINE at == [i \in 1 .. Sound |-> First(i)]
  <2>1. at \in [DOMAIN good -> DOMAIN made]
    BY <1>7, <1>9, <1>10
  <2>2. ASSUME NEW i \in DOMAIN good
        PROVE  good[i] = made[at[i]] /\ (i > 1 => at[i - 1] < at[i])
    <3>1. i \in 1 .. Sound /\ at[i] = First(i)
      BY <1>9
    <3>2. i > 1 => i - 1 \in 1 .. Sound /\ at[i - 1] = First(i - 1)
      BY <1>1, <1>2, <3>1
    <3> QED BY <1>10, <3>1, <3>2, FirstsInOrder
  <2> HIDE DEF at
  <2> QED BY <2>1, <2>2 DEF InOrderOf
<1>12. ASSUME \A k \in DOMAIN truth : truth[k].edits = 0
       PROVE  IsPrefix(good, made)
  <2>1. Clean
    BY <1>1, <1>12 DEF Clean
  <2>2. \A i \in 1 .. Sound : i \in 1 .. Len(truth) /\ good[i] = made[i]
    BY <1>10, <2>1, CleanInPlace
  <2>3. Len(made) = Len(truth)
    BY <1>1, <1>3
  <2>4. Len(good) <= Len(made)
    <3>1. CASE Sound = 0
      BY <1>1, <1>8, <2>3, <3>1
    <3>2. CASE Sound # 0
      <4>1. Sound \in 1 .. Sound
        BY <1>1, <1>2, <3>2
      <4> QED BY <1>1, <1>2, <1>8, <2>2, <2>3, <4>1
    <3> QED BY <3>1, <3>2
  <2> DEFINE x == SubSeq(good, 1, Len(good))
             y == SubSeq(made, 1, Len(good))
  <2>5. Len(good) \in Int /\ Len(good) \in Nat /\ 1 \in Int
    BY <1>1, <1>2, <1>8
  <2>6. \A i \in 1 .. Len(good) : good[i] \in W /\ made[i] \in W
    BY <1>5, <1>8, <2>2
  <2>7. x \in Seq(W) /\ Len(x) = Len(good) /\ \A i \in 1 .. Len(good) : x[i] = good[i]
    BY <2>5, <2>6, SubSeqProperties
  <2>8. y \in Seq(W) /\ Len(y) = Len(good) /\ \A i \in 1 .. Len(good) : y[i] = made[i]
    BY <2>5, <2>6, SubSeqProperties
  <2>9. x = y
    <3> HIDE DEF x, y
    <3>1. \A i \in 1 .. Len(x) : x[i] = y[i]
      BY <1>8, <2>2, <2>7, <2>8
    <3> QED BY <2>7, <2>8, <3>1, SeqEqual
  <2> QED BY <2>4, <2>9 DEF IsPrefix
<1> QED BY <1>11, <1>12 DEF VouchedFor, good, texts, made

\* The three fields, joined: their words one after the other.
Join(a, b, c) == a \o b \o c
LEMMA JoinFacts ==
  ASSUME NEW W, NEW a \in Seq(W), NEW b \in Seq(W), NEW c \in Seq(W)
  PROVE  /\ Len(Join(a, b, c)) = Len(a) + Len(b) + Len(c)
         /\ \A i \in 1 .. Len(a) + Len(b) + Len(c) :
              Join(a, b, c)[i] = IF i <= Len(a) THEN a[i]
                                 ELSE IF i <= Len(a) + Len(b) THEN b[i - Len(a)]
                                 ELSE c[i - (Len(a) + Len(b))]
<1> DEFINE x == a \o b
<1>1. /\ x \in Seq(W) /\ Len(x) = Len(a) + Len(b)
      /\ \A i \in 1 .. Len(a) + Len(b) : x[i] = IF i <= Len(a) THEN a[i] ELSE b[i - Len(a)]
  BY ConcatProperties
<1> HIDE DEF x
<1>2. /\ Len(x \o c) = Len(x) + Len(c)
      /\ \A i \in 1 .. Len(x) + Len(c) : (x \o c)[i] = IF i <= Len(x) THEN x[i] ELSE c[i - Len(x)]
  <2>1. x \in Seq(W)
    BY <1>1
  <2> QED BY <2>1, ConcatProperties
<1> DEFINE y == x \o c
<1>3. Join(a, b, c) = y
  BY DEF Join, x
<1>4. /\ Len(y) = Len(x) + Len(c)
      /\ \A i \in 1 .. Len(x) + Len(c) : y[i] = IF i <= Len(x) THEN x[i] ELSE c[i - Len(x)]
  BY <1>2
<1> HIDE DEF y
<1> QED BY <1>1, <1>3, <1>4

\* Fields of one word are determined by their word.
LEMMA OneWord ==
  ASSUME NEW W, NEW a \in Seq(W), NEW b \in Seq(W), Len(a) = 1, Len(b) = 1, a[1] = b[1]
  PROVE  a = b
<1>1. \A i \in 1 .. Len(a) : a[i] = b[i]
  OBVIOUS
<1> QED BY <1>1, SeqEqual

\* Text that is split into three one-word fields is split into three fields in
\* one way only.
Fields == Actors \cup Actions \cup Resources
LEMMA SplitFacts ==
  ASSUME NEW a \in Fields, NEW b \in Fields, NEW c \in Fields,
         NEW d \in Fields, NEW e \in Fields, NEW f \in Fields,
         Len(a) = 1, Len(b) = 1, Len(c) = 1, Join(a, b, c) = Join(d, e, f)
  PROVE  a = d /\ b = e /\ c = f
<1> DEFINE W == UNION {Range(g) : g \in Fields}
<1>1. ASSUME NEW g \in Fields
      PROVE  g \in Seq(W) /\ Len(g) \in Nat /\ Len(g) > 0
  <2>1. g \in Seq(Range(g)) /\ Len(g) > 0
    BY AuditAssumption DEF Fields
  <2>2. Range(g) \subseteq W
    OBVIOUS
  <2> HIDE DEF W
  <2> QED BY <2>1, <2>2
<1> HIDE DEF W
<1>2. /\ a \in Seq(W) /\ b \in Seq(W) /\ c \in Seq(W)
      /\ d \in Seq(W) /\ e \in Seq(W) /\ f \in Seq(W)
  BY <1>1
<1>3. Len(d) \in Nat /\ Len(d) > 0 /\ Len(e) \in Nat /\ Len(e) > 0 /\ Len(f) \in Nat /\ Len(f) > 0
  BY <1>1
<1>4. ASSUME NEW p \in Seq(W), NEW q \in Seq(W), NEW r \in Seq(W)
      PROVE  Len(Join(p, q, r)) = Len(p) + Len(q) + Len(r)
  BY JoinFacts
<1>5. ASSUME NEW p \in Seq(W), NEW q \in Seq(W), NEW r \in Seq(W),
             Len(p) = 1, Len(q) = 1, Len(r) = 1
      PROVE  Join(p, q, r)[1] = p[1] /\ Join(p, q, r)[2] = q[1] /\ Join(p, q, r)[3] = r[1]
  <2> DEFINE y == Join(p, q, r)
  <2>1. \A i \in 1 .. Len(p) + Len(q) + Len(r) :
          y[i] = IF i <= Len(p) THEN p[i]
                 ELSE IF i <= Len(p) + Len(q) THEN q[i - Len(p)]
                 ELSE r[i - (Len(p) + Len(q))]
    BY JoinFacts
  <2> HIDE DEF y
  <2>2. Len(p) + Len(q) + Len(r) = 3 /\ Len(p) + Len(q) = 2
    BY <1>5
  <2>3. \A i \in 1 .. 3 : y[i] = IF i <= 1 THEN p[i] ELSE IF i <= 2 THEN q[i - 1] ELSE r[i - 2]
    BY <1>5, <2>1, <2>2, Zenon
  <2>4. y[1] = p[1] /\ y[2] = q[1] /\ y[3] = r[1]
    BY <2>3
  <2> QED BY <2>4 DEF y
<1>6. Len(d) = 1 /\ Len(e) = 1 /\ Len(f) = 1
  <2>1. Len(Join(a, b, c)) = Len(a) + Len(b) + Len(c)
    <3>1. a \in Seq(W) /\ b \in Seq(W) /\ c \in Seq(W)
      BY <1>2
    <3> QED BY ONLY <1>4, <3>1
  <2>2. Len(Join(d, e, f)) = Len(d) + Len(e) + Len(f)
    <3>1. d \in Seq(W) /\ e \in Seq(W) /\ f \in Seq(W)
      BY <1>2
    <3> QED BY ONLY <1>4, <3>1
  <2>3. Len(d) + Len(e) + Len(f) = Len(a) + Len(b) + Len(c)
    BY <2>1, <2>2, Zenon
  <2>4. ASSUME NEW l \in Nat, NEW m \in Nat, NEW n \in Nat,
               l > 0, m > 0, n > 0, l + m + n = 1 + 1 + 1
        PROVE  l = 1 /\ m = 1 /\ n = 1
    BY <2>4
  <2>5. Len(d) + Len(e) + Len(f) = 1 + 1 + 1
    BY <2>3, Zenon
  <2> QED BY <1>3, <2>4, <2>5, Zenon
<1>7. a[1] = d[1] /\ b[1] = e[1] /\ c[1] = f[1]
  <2>1. Join(a, b, c)[1] = a[1] /\ Join(a, b, c)[2] = b[1] /\ Join(a, b, c)[3] = c[1]
    BY <1>2, <1>5
  <2>2. Join(d, e, f)[1] = d[1] /\ Join(d, e, f)[2] = e[1] /\ Join(d, e, f)[3] = f[1]
    BY <1>2, <1>5, <1>6
  <2> QED BY <2>1, <2>2, Zenon
<1> QED BY <1>2, <1>6, <1>7, OneWord

\* Fields without a separator are vouched for as they were appended.
LEMMA FieldsHold ==
  ASSUME IInv
  PROVE  FieldsKept
<1> SUFFICES ASSUME NEW i \in 1 .. Sound, NEW k \in DOMAIN truth,
                    payload(entries[i].body) = payload(truth[k].body),
                    Len(truth[k].body.Actor) = 1, Len(truth[k].body.Action) = 1,
                    Len(truth[k].body.Resource) = 1
             PROVE  entries[i].body = truth[k].body
  BY DEF FieldsKept
<1> DEFINE e == entries[i].body
           t == truth[k].body
<1>1. entries[i] \in Entries
  <2>1. i \in 1 .. Len(entries) /\ entries \in Seq(Entries)
    BY VouchedEntry DEF IInv, Shape
  <2> QED BY <2>1
<1>2. truth[k] \in [body : Bodies, MAC : Issued, edits : Nat]
  <2> DEFINE R == [body : Bodies, MAC : Issued, edits : Nat]
  <2>1. truth \in Seq(R)
    BY DEF IInv, Shape
  <2> HIDE DEF R
  <2>2. truth[k] \in R
    BY <2>1
  <2> QED BY <2>2 DEF R
<1>3. e \in Bodies /\ t \in Bodies
  BY <1>1, <1>2 DEF Entries
<1> HIDE DEF e, t
<1>4. <<e.Timestamp, e.Actor \o e.Action \o e.Resource>>
        = <<t.Timestamp, t.Actor \o t.Action \o t.Resource>>
  BY DEF payload, e, t
<1>5. /\ e.Timestamp = t.Timestamp
      /\ e.Actor \o e.Action \o e.Resource = t.Actor \o t.Action \o t.Resource
  BY <1>4
<1>6. /\ e.Actor \in Fields /\ e.Action \in Fields /\ e.Resource \in Fields
      /\ t.Actor \in Fields /\ t.Action \in Fields /\ t.Resource \in Fields
  BY <1>3 DEF Bodies, Fields
<1>7. Len(t.Actor) = 1 /\ Len(t.Action) = 1 /\ Len(t.Resource) = 1
  BY DEF t
<1>8. t.Actor = e.Actor /\ t.Action = e.Action /\ t.Resource = e.Resource
  <2> DEFINE a == t.Actor
             b == t.Action
             c == t.Resource
             d == e.Actor
             f == e.Action
             g == e.Resource
  <2>1. Join(a, b, c) = Join(d, f, g)
    BY <1>5, Zenon DEF Join
  <2>2. /\ a \in Fields /\ b \in Fields /\ c \in Fields
        /\ d \in Fields /\ f \in Fields /\ g \in Fields
        /\ Len(a) = 1 /\ Len(b) = 1 /\ Len(c) = 1
    BY <1>6, <1>7, Zenon
  <2> HIDE DEF a, b, c, d, f, g
  <2>3. a = d /\ b = f /\ c = g
    BY <2>1, <2>2, SplitFacts
  <2> QED BY <2>3 DEF a, b, c, d, f, g
<1>9. e = t
  BY <1>3, <1>5, <1>6, <1>8 DEF Bodies
<1> QED BY <1>9 DEF e, t
-----------------------------------------------------------------------------
\* AuditLog.Append and AuditLog.Verify agree on what is signed: the chain of a
\* log that nobody changed verifies to its end, whatever the clock did.
THEOREM HonestLogVerifies == Spec => []HonestVerifies
<1>1. IInv => HonestVerifies
  BY HonestHolds
<1> QED BY <1>1, Inv, PTL

\* AuditLog.Verify vouches only for entries that were appended, in that order
\* and none twice, after any rewriting, dropping, putting in again and appending; a
\* log that was not appended to after a change is a beginning of the true one.
THEOREM VouchesForAppended == Spec => []VouchedFor
<1>1. IInv => VouchedFor
  BY VouchedHolds
<1> QED BY <1>1, Inv, PTL

\* AuditEntry.payload does not mix up the fields of an entry none of which holds
\* a separator, whatever the fields of the log were changed to: actor, action
\* and resource alike.
THEOREM FieldsStay == Spec => []FieldsKept
<1>1. IInv => FieldsKept
  BY FieldsHold
<1> QED BY <1>1, Inv, PTL
=============================================================================
