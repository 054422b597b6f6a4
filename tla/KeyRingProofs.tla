--------------------------- MODULE KeyRingProofs ---------------------------
(***************************************************************************)
(* Proofs about KeyRing, for any number of callers, kids, keys and         *)
(* ciphertexts: type correctness whether or not the callers overlap, and,  *)
(* for callers that keep their calls apart, that the active key is always  *)
(* usable and that what was sealed stays readable.                         *)
(***************************************************************************)
EXTENDS KeyRing, TLAPS

USE KeyRingAssumption

\* The calls under way: their types.
Calls == [op : Ops, kid : Kids \cup {BadKid}, key : Keys \cup {NoKey}]
Issued == [ver : {1, 3}, kid : Kids \cup {BadKid}, key : Keys, aad : AADs]

\* SetActive's check keeps the kid it is about to store a real one.
Picked ==
  \A p \in Callers :
    call[p].op \in {"Add", "Remove", "SetActive"} => call[p].kid \in Kids

TypeInv == TypeOK /\ Picked

\* A new ring has its types: no key, no call, no ciphertext.
LEMMA InitType == Init => TypeInv
<1> SUFFICES ASSUME Init PROVE TypeInv
  OBVIOUS
<1>1. call \in [Callers -> Calls]
  BY DEF Init, Calls, Idle, Ops
<1>2. ret \in [Callers -> Returned]
  BY DEF Init, Returned
<1>3. keys \in [Kids -> Keys \cup {NoKey}] /\ rawKeys \in [Kids -> Keys \cup {NoKey}]
  BY DEF Init
<1>4. Picked
  BY DEF Init, Picked, Idle
<1>5. live \in BOOLEAN /\ (live => active \in Kids) /\ active \in Kids \cup {BadKid}
  BY Zenon DEF Init
<1>6. cts \in Seq(Issued) /\ dropped \in SUBSET Kids
  BY DEF Init
<1> QED BY <1>1, <1>2, <1>3, <1>4, <1>5, <1>6 DEF TypeInv, TypeOK, Calls, Issued

\* A call that begins keeps the record of calls well typed.
LEMMA BeginType ==
  ASSUME TypeInv, NEW p \in Callers, NEW op \in Ops, NEW kid \in Kids \cup {BadKid},
         NEW key \in Keys \cup {NoKey}, Begin(p, op, kid, key),
         op \in {"Add", "Remove", "SetActive"} => kid \in Kids
  PROVE  call' \in [Callers -> Calls] /\ Picked'
  BY DEF TypeInv, TypeOK, Picked, Begin, Calls

\* So does one that ends.
LEMMA EndType ==
  ASSUME TypeInv, NEW p \in Callers, End(p)
  PROVE  call' \in [Callers -> Calls] /\ Picked'
  BY DEF TypeInv, TypeOK, Picked, End, Calls, Idle, Ops

\* What a call returns is one of the results of the package.
LEMMA ReturnsType ==
  ASSUME TypeInv, NEW p \in Callers, NEW r \in Returned, Returns(p, r)
  PROVE  ret' \in [Callers -> Returned]
  BY DEF TypeInv, TypeOK, Returns

\* Open returns one of the errors of the package, or nil.
LEMMA OpenType ==
  ASSUME NEW in, NEW aad
  PROVE  OpenResult(in, aad) \in Returned
  BY DEF OpenResult, OpenV1, OpenV3, Returned

\* Every method of KeyRing, and a v1 ciphertext written elsewhere, keep the
\* types.
LEMMA TypeStep == TypeInv /\ [Next]_vars => TypeInv'
<1> SUFFICES ASSUME TypeInv, [Next]_vars PROVE TypeInv'
  OBVIOUS
<1> USE DEF Calls
<1>1. ASSUME NEW p \in Callers, NEW kid \in Kids \cup {BadKid},
             NEW key \in Keys \cup {BadKey}, NewKeyRing(p, kid, key)
      PROVE  TypeInv'
  <2>1. ret' \in [Callers -> Returned]
    BY <1>1, ReturnsType DEF NewKeyRing, Returned
  <2>2. keys' \in [Kids -> Keys \cup {NoKey}] /\ rawKeys' \in [Kids -> Keys \cup {NoKey}]
    <3>1. CASE UNCHANGED ringVars
      BY <3>1 DEF TypeInv, TypeOK, ringVars
    <3>2. CASE ~UNCHANGED ringVars
      <4>1. key \in Keys
        BY <1>1, <3>2 DEF NewKeyRing, validKey
      <4>2. keys' = [keys EXCEPT ![kid] = key] /\ rawKeys' = [rawKeys EXCEPT ![kid] = key]
        BY <1>1, <3>2 DEF NewKeyRing
      <4> QED BY <4>1, <4>2 DEF TypeInv, TypeOK
    <3> QED BY <3>1, <3>2
  <2>3. active' \in Kids \cup {BadKid} /\ live' \in BOOLEAN /\ (live' => active' \in Kids)
    <3>1. CASE UNCHANGED ringVars
      BY <3>1 DEF TypeInv, TypeOK, ringVars
    <3>2. CASE ~UNCHANGED ringVars
      <4>1. live' = TRUE /\ active' = kid /\ kid \in Kids
        BY <1>1, <3>2 DEF NewKeyRing, validKid
      <4> QED BY <4>1
    <3> QED BY <3>1, <3>2
  <2> QED BY <1>1, <2>1, <2>2, <2>3 DEF NewKeyRing, TypeInv, TypeOK, Picked
<1>2. ASSUME NEW p \in Callers, NEW kid \in Kids \cup {BadKid},
             NEW key \in Keys \cup {BadKey}, AddChecks(p, kid, key)
      PROVE  TypeInv'
  <2>1. ret' \in [Callers -> Returned]
    BY <1>2, ReturnsType DEF AddChecks, Returned, TypeInv, TypeOK
  <2>2. call' \in [Callers -> Calls] /\ Picked'
    BY <1>2, BeginType DEF AddChecks, TypeInv, TypeOK, Picked, validKid, validKey, Ops
  <2> QED BY <1>2, <2>1, <2>2 DEF AddChecks, TypeInv, TypeOK, ringVars
<1>3. ASSUME NEW p \in Callers, NEW kid \in Kids \cup {BadKid}, RemoveChecks(p, kid)
      PROVE  TypeInv'
  <2>1. ret' \in [Callers -> Returned]
    BY <1>3, ReturnsType DEF RemoveChecks, Returned, TypeInv, TypeOK
  <2>2. call' \in [Callers -> Calls] /\ Picked'
    BY <1>3, BeginType DEF RemoveChecks, TypeInv, TypeOK, Picked, Has, Ops
  <2> QED BY <1>3, <2>1, <2>2 DEF RemoveChecks, TypeInv, TypeOK, ringVars
<1>4. ASSUME NEW p \in Callers, NEW kid \in Kids \cup {BadKid}, SetActiveChecks(p, kid)
      PROVE  TypeInv'
  <2>1. ret' \in [Callers -> Returned]
    BY <1>4, ReturnsType DEF SetActiveChecks, Returned, TypeInv, TypeOK
  <2>2. call' \in [Callers -> Calls] /\ Picked'
    BY <1>4, BeginType DEF SetActiveChecks, TypeInv, TypeOK, Picked, Has, Ops
  <2> QED BY <1>4, <2>1, <2>2 DEF SetActiveChecks, TypeInv, TypeOK, ringVars
<1>5. ASSUME NEW p \in Callers, AddStores(p) PROVE TypeInv'
  <2>1. ret' \in [Callers -> Returned] /\ call' \in [Callers -> Calls] /\ Picked'
    BY <1>5, ReturnsType, EndType DEF AddStores, Returned
  <2> QED BY <1>5, <2>1 DEF AddStores, TypeInv, TypeOK, Picked
<1>6. ASSUME NEW p \in Callers, RemoveDeletes(p) PROVE TypeInv'
  <2>1. ret' \in [Callers -> Returned] /\ call' \in [Callers -> Calls] /\ Picked'
    BY <1>6, ReturnsType, EndType DEF RemoveDeletes, Returned
  <2> QED BY <1>6, <2>1 DEF RemoveDeletes, TypeInv, TypeOK, Picked
<1>7. ASSUME NEW p \in Callers, SetActiveStores(p) PROVE TypeInv'
  <2>1. ret' \in [Callers -> Returned] /\ call' \in [Callers -> Calls] /\ Picked'
    BY <1>7, ReturnsType, EndType DEF SetActiveStores, Returned
  <2> QED BY <1>7, <2>1 DEF SetActiveStores, TypeInv, TypeOK, Picked
<1>8. ASSUME NEW p \in Callers, SealReadsKey(p) PROVE TypeInv'
  <2>1. call' \in [Callers -> Calls] /\ Picked'
    BY <1>8, BeginType DEF SealReadsKey, MayCall, TypeInv, TypeOK, Ops
  <2> QED BY <1>8, <2>1 DEF SealReadsKey, TypeInv, TypeOK, ringVars
<1>9. ASSUME NEW p \in Callers, NEW aad \in AADs, SealTags(p, aad) PROVE TypeInv'
  <2>1. ret' \in [Callers -> Returned] /\ call' \in [Callers -> Calls] /\ Picked'
    BY <1>9, ReturnsType, EndType DEF SealTags, Returned
  <2>2. cts' \in Seq(Issued)
    <3>1. CASE call[p].key = NoKey
      BY <1>9, <3>1 DEF SealTags, TypeInv, TypeOK, Issued
    <3>2. CASE call[p].key # NoKey
      <4>1. [ver |-> 3, kid |-> active, key |-> call[p].key, aad |-> aad] \in Issued
        BY <3>2 DEF TypeInv, TypeOK, Issued
      <4>2. cts' = Append(cts, [ver |-> 3, kid |-> active, key |-> call[p].key, aad |-> aad])
        BY <1>9, <3>2 DEF SealTags
      <4>3. cts \in Seq(Issued)
        BY DEF TypeInv, TypeOK, Issued
      <4> QED BY <4>1, <4>2, <4>3
    <3> QED BY <3>1, <3>2
  <2> QED BY <1>9, <2>1, <2>2 DEF SealTags, TypeInv, TypeOK, ringVars, Issued
<1>10. ASSUME NEW p \in Callers, SealRngFails(p) PROVE TypeInv'
  <2>1. ret' \in [Callers -> Returned] /\ call' \in [Callers -> Calls] /\ Picked'
    BY <1>10, ReturnsType, EndType DEF SealRngFails, Returned
  <2> QED BY <1>10, <2>1 DEF SealRngFails, TypeInv, TypeOK, ringVars
<1>11. ASSUME NEW p \in Callers, NEW in \in Inputs, NEW aad \in AADs, Open(p, in, aad)
       PROVE  TypeInv'
  <2>1. ret' \in [Callers -> Returned]
    BY <1>11, ReturnsType, OpenType DEF Open
  <2> QED BY <1>11, <2>1 DEF Open, TypeInv, TypeOK, Picked, ringVars
<1>12. ASSUME NEW key \in Keys, NEW aad \in AADs, SealV1(key, aad) PROVE TypeInv'
  <2>1. [ver |-> 1, kid |-> BadKid, key |-> key, aad |-> aad] \in Issued
    BY DEF Issued
  <2> QED BY <1>12, <2>1 DEF SealV1, TypeInv, TypeOK, Picked, ringVars, Issued
<1>13. CASE UNCHANGED vars
  BY <1>13 DEF vars, ringVars, TypeInv, TypeOK, Picked
<1> QED
  BY <1>1, <1>2, <1>3, <1>4, <1>5, <1>6, <1>7, <1>8, <1>9, <1>10, <1>11, <1>12,
     <1>13 DEF Next, Mutate, Use

\* Whether or not callers overlap, the ring and its ciphertexts keep their
\* types: only 32-byte keys are stored and sealed with.
THEOREM TypeCorrect == Spec => []TypeOK
<1>1. TypeInv => TypeOK BY DEF TypeInv
<1> QED BY <1>1, InitType, TypeStep, PTL DEF Spec

-----------------------------------------------------------------------------
(* Callers that keep their calls apart.                                    *)

RingInv ==
  /\ rawKeys = keys
  /\ live => Has(active)
  /\ ~live => \A k \in Kids : keys[k] = NoKey
  /\ \A p \in Callers : ret[p] # "panic"

\* At most one call is under way, and what its checks found still holds.
CallInv ==
  /\ \A p, q \in Callers : call[p] # Idle /\ call[q] # Idle => p = q
  /\ \A p \in Callers :
       /\ call[p] # Idle => live
       /\ call[p].op = "Add" => ~Has(call[p].kid) /\ call[p].key \in Keys
       /\ call[p].op = "Remove" => call[p].kid # active
       /\ call[p].op = "SetActive" => Has(call[p].kid)
       /\ call[p].op = "Seal" => call[p].key = keys[active]

\* A ciphertext of the ring's own names the key it was sealed under.
CtsInv ==
  \A n \in 1 .. Len(cts) :
    cts[n].ver = 3 =>
      /\ live
      /\ cts[n].kid \in Kids
      /\ cts[n].kid \notin dropped => keys[cts[n].kid] = cts[n].key

IInv == TypeInv /\ RingInv /\ CallInv /\ CtsInv

\* An issued ciphertext has a version, and a 32-byte key it was sealed under.
LEMMA CtsType ==
  ASSUME TypeOK, NEW n \in 1 .. Len(cts)
  PROVE  cts[n].ver \in {1, 3} /\ cts[n].key \in Keys
<1>1. cts \in Seq(Issued)
  BY DEF TypeOK, Issued
<1>2. cts[n] \in Issued
  BY <1>1
<1> QED BY <1>2 DEF Issued

\* With no call under way there is nothing for CallInv to say.
LEMMA AllIdle ==
  ASSUME \A q \in Callers : call[q] = Idle
  PROVE  CallInv
  BY DEF CallInv, Idle

\* When the only call under way ends, none is left.
LEMMA EndsAlone ==
  ASSUME TypeOK, CallInv, NEW p \in Callers, call[p] # Idle, End(p)
  PROVE  \A q \in Callers : call'[q] = Idle
  BY DEF TypeOK, CallInv, End

\* The effect of a method never runs without its checks before it.
LEMMA NotIdle ==
  ASSUME NEW p \in Callers, call[p].op \in {"Add", "Remove", "SetActive", "Seal"}
  PROVE  call[p] # Idle
  BY DEF Idle

\* A call whose checks have just passed is the only one, and what they found
\* is what CallInv says of it.
LEMMA Begins ==
  ASSUME Serialized, IInv, NEW p \in Callers, MayCall(p),
         NEW op \in {"Add", "Remove", "SetActive", "Seal"},
         NEW kid \in Kids \cup {BadKid}, NEW key \in Keys \cup {NoKey},
         Begin(p, op, kid, key), UNCHANGED ringVars,
         op = "Add" => ~Has(kid) /\ key \in Keys,
         op = "Remove" => kid # active,
         op = "SetActive" => Has(kid),
         op = "Seal" => key = keys[active]
  PROVE  CallInv'
<1>1. \A q \in Callers : call[q] = Idle
  BY DEF MayCall
<1>2. /\ call'[p] = [op |-> op, kid |-> kid, key |-> key]
      /\ \A q \in Callers : q # p => call'[q] = Idle
  BY <1>1 DEF Begin, IInv, TypeInv, TypeOK
<1>3. \A q, r \in Callers : call'[q] # Idle /\ call'[r] # Idle => q = r
  BY <1>2
<1>4. live' /\ active' = active /\ keys' = keys
  BY DEF MayCall, ringVars
<1>5. ASSUME NEW q \in Callers
      PROVE  (/\ call[q] # Idle => live
              /\ call[q].op = "Add" => ~Has(call[q].kid) /\ call[q].key \in Keys
              /\ call[q].op = "Remove" => call[q].kid # active
              /\ call[q].op = "SetActive" => Has(call[q].kid)
              /\ call[q].op = "Seal" => call[q].key = keys[active])'
  <2>1. CASE q = p
    BY <1>2, <1>4, <2>1 DEF Has
  <2>2. CASE q # p
    BY <1>2, <1>4, <2>2 DEF Idle
  <2> QED BY <2>1, <2>2
<1> QED BY <1>3, <1>5 DEF CallInv

\* A new ring.
LEMMA InitInv == Init => IInv
<1> SUFFICES ASSUME Init PROVE IInv
  OBVIOUS
<1>1. TypeInv BY InitType
<1>2. CallInv BY AllIdle DEF Init
<1>3. RingInv BY DEF Init, RingInv
<1>4. CtsInv BY DEF Init, CtsInv
<1> QED BY <1>1, <1>2, <1>3, <1>4 DEF IInv

\* Every method of the ring preserves the invariant: the checks find what the
\* effects rely on, and with no other call in between it still holds.
LEMMA InvStep == ASSUME Serialized, IInv, [Next]_vars PROVE IInv'
<1>1. TypeInv /\ TypeInv' /\ TypeOK
  BY TypeStep DEF IInv, TypeInv
<1>2. ASSUME UNCHANGED <<ringVars, cts, dropped>>,
             CallInv', \A p \in Callers : ret'[p] # "panic"
      PROVE  IInv'
  BY <1>1, <1>2 DEF IInv, RingInv, CtsInv, ringVars, Has
<1>3. ASSUME NEW p \in Callers, NEW r, r # "panic", Returns(p, r)
      PROVE  \A q \in Callers : ret'[q] # "panic"
  BY <1>1, <1>3 DEF Returns, TypeOK, IInv, RingInv
<1>4. ASSUME UNCHANGED ret PROVE \A q \in Callers : ret'[q] # "panic"
  BY <1>4 DEF IInv, RingInv
<1>5. ASSUME UNCHANGED <<ringVars, call>> PROVE CallInv'
  BY <1>5 DEF IInv, CallInv, ringVars, Has
<1>6. ASSUME NEW p \in Callers, NEW kid \in Kids \cup {BadKid},
             NEW key \in Keys \cup {BadKey}, NewKeyRing(p, kid, key)
      PROVE  IInv'
  <2>1. CASE UNCHANGED ringVars
    BY <1>2, <1>3, <1>5, <1>6, <2>1 DEF NewKeyRing
  <2>2. CASE ~UNCHANGED ringVars
    <3>1. /\ ~live /\ kid \in Kids /\ key \in Keys
          /\ live' /\ active' = kid
          /\ keys' = [keys EXCEPT ![kid] = key]
          /\ rawKeys' = [rawKeys EXCEPT ![kid] = key]
          /\ Returns(p, "nil")
          /\ UNCHANGED <<call, cts, dropped>>
      BY <1>6, <2>2 DEF NewKeyRing, validKid, validKey
    <3>2. CallInv'
      BY <3>1, AllIdle DEF IInv, CallInv, Idle
    <3>3. RingInv'
      BY <1>1, <1>3, <3>1 DEF IInv, RingInv, Has, TypeOK
    <3>4. CtsInv'
      BY <3>1 DEF IInv, CtsInv
    <3> QED BY <1>1, <3>2, <3>3, <3>4 DEF IInv
  <2> QED BY <2>1, <2>2
<1>7. ASSUME NEW p \in Callers, NEW kid \in Kids \cup {BadKid},
             NEW key \in Keys \cup {BadKey}, AddChecks(p, kid, key)
      PROVE  IInv'
  <2>1. CASE UNCHANGED call
    <3>1. \A q \in Callers : ret'[q] # "panic"
      BY <1>3, <1>4, <1>7 DEF AddChecks
    <3> QED BY <1>2, <1>5, <1>7, <2>1, <3>1 DEF AddChecks
  <2>2. CASE ~UNCHANGED call
    <3>1. /\ MayCall(p) /\ Begin(p, "Add", kid, key) /\ UNCHANGED ret
          /\ ~Has(kid) /\ key \in Keys /\ UNCHANGED <<ringVars, cts, dropped>>
      BY <1>7, <2>2 DEF AddChecks, validKey
    <3>2. CallInv'
      BY <3>1, Begins
    <3> QED BY <1>2, <1>4, <3>1, <3>2
  <2> QED BY <2>1, <2>2
<1>8. ASSUME NEW p \in Callers, NEW kid \in Kids \cup {BadKid}, RemoveChecks(p, kid)
      PROVE  IInv'
  <2>1. CASE UNCHANGED call
    <3>1. \A q \in Callers : ret'[q] # "panic"
      BY <1>3, <1>4, <1>8 DEF RemoveChecks
    <3> QED BY <1>2, <1>5, <1>8, <2>1, <3>1 DEF RemoveChecks
  <2>2. CASE ~UNCHANGED call
    <3>1. /\ MayCall(p) /\ Begin(p, "Remove", kid, NoKey) /\ UNCHANGED ret
          /\ kid # active /\ UNCHANGED <<ringVars, cts, dropped>>
      BY <1>8, <2>2 DEF RemoveChecks
    <3>2. CallInv'
      BY <3>1, Begins
    <3> QED BY <1>2, <1>4, <3>1, <3>2
  <2> QED BY <2>1, <2>2
<1>9. ASSUME NEW p \in Callers, NEW kid \in Kids \cup {BadKid}, SetActiveChecks(p, kid)
      PROVE  IInv'
  <2>1. CASE UNCHANGED call
    <3>1. \A q \in Callers : ret'[q] # "panic"
      BY <1>3, <1>4, <1>9 DEF SetActiveChecks
    <3> QED BY <1>2, <1>5, <1>9, <2>1, <3>1 DEF SetActiveChecks
  <2>2. CASE ~UNCHANGED call
    <3>1. /\ MayCall(p) /\ Begin(p, "SetActive", kid, NoKey) /\ UNCHANGED ret
          /\ Has(kid) /\ UNCHANGED <<ringVars, cts, dropped>>
      BY <1>9, <2>2 DEF SetActiveChecks
    <3>2. CallInv'
      BY <3>1, Begins
    <3> QED BY <1>2, <1>4, <3>1, <3>2
  <2> QED BY <2>1, <2>2
<1>10. ASSUME NEW p \in Callers, call[p].op \in {"Add", "Remove", "SetActive", "Seal"}, End(p)
       PROVE  live /\ CallInv'
  <2>1. call[p] # Idle
    BY <1>10, NotIdle
  <2>2. \A q \in Callers : call'[q] = Idle
    BY <1>1, <1>10, <2>1, EndsAlone DEF IInv
  <2>3. CallInv'
    BY <2>2 DEF CallInv, Idle
  <2> QED BY <2>1, <2>3 DEF IInv, CallInv
<1>11. ASSUME NEW p \in Callers, AddStores(p) PROVE IInv'
  <2>1. live /\ CallInv'
    BY <1>10, <1>11 DEF AddStores
  <2>2. call[p].kid \in Kids /\ call[p].key \in Keys /\ ~Has(call[p].kid)
    BY <1>1, <1>11 DEF AddStores, IInv, TypeInv, Picked, CallInv
  <2>3. RingInv'
    BY <1>1, <1>3, <1>11, <2>1, <2>2 DEF AddStores, IInv, RingInv, Has, TypeOK
  <2>4. CtsInv'
    <3>1. /\ \A k \in Kids : k # call[p].kid => keys'[k] = keys[k]
          /\ dropped' = dropped /\ cts' = cts /\ live' = live
      BY <1>1, <1>11 DEF AddStores, TypeOK
    <3>2. \A n \in 1 .. Len(cts) : cts[n].key \in Keys
      BY <1>1, CtsType
    <3>3. \A n \in 1 .. Len(cts) :
            cts[n].ver = 3 /\ cts[n].kid \notin dropped => cts[n].kid # call[p].kid
      BY <2>2, <3>2 DEF IInv, CtsInv, Has
    <3> QED BY <3>1, <3>3 DEF IInv, CtsInv
  <2> QED BY <1>1, <2>1, <2>3, <2>4 DEF IInv
<1>12. ASSUME NEW p \in Callers, RemoveDeletes(p) PROVE IInv'
  <2>1. live /\ CallInv'
    BY <1>10, <1>12 DEF RemoveDeletes
  <2>2. call[p].kid \in Kids /\ call[p].kid # active
    BY <1>1, <1>12 DEF RemoveDeletes, IInv, TypeInv, Picked, CallInv
  <2>3. RingInv'
    BY <1>1, <1>3, <1>12, <2>1, <2>2 DEF RemoveDeletes, IInv, RingInv, Has, TypeOK
  <2>4. CtsInv'
    <3>1. /\ \A k \in Kids : k # call[p].kid => keys'[k] = keys[k]
          /\ dropped' = dropped \cup {call[p].kid} /\ cts' = cts /\ live' = live
      BY <1>1, <1>12 DEF RemoveDeletes, TypeOK
    <3> QED BY <3>1 DEF IInv, CtsInv
  <2> QED BY <1>1, <2>1, <2>3, <2>4 DEF IInv
<1>13. ASSUME NEW p \in Callers, SetActiveStores(p) PROVE IInv'
  <2>1. live /\ CallInv'
    BY <1>10, <1>13 DEF SetActiveStores
  <2>2. Has(call[p].kid)
    BY <1>1, <1>13 DEF SetActiveStores, IInv, CallInv
  <2>3. RingInv'
    BY <1>1, <1>3, <1>13, <2>1, <2>2 DEF SetActiveStores, IInv, RingInv, Has, TypeOK
  <2>4. CtsInv'
    BY <1>13, <2>1 DEF SetActiveStores, IInv, CtsInv
  <2> QED BY <1>1, <2>1, <2>3, <2>4 DEF IInv
<1>14. ASSUME NEW p \in Callers, SealReadsKey(p) PROVE IInv'
  <2>1. active \in Kids /\ keys[active] \in Keys \cup {NoKey}
    BY <1>1, <1>14 DEF SealReadsKey, MayCall, TypeOK
  <2>2. CallInv'
    BY <1>14, <2>1, Begins DEF SealReadsKey
  <2> QED BY <1>2, <1>4, <1>14, <2>2 DEF SealReadsKey
<1>15. ASSUME NEW p \in Callers, NEW aad \in AADs, SealTags(p, aad) PROVE IInv'
  <2>1. live /\ CallInv'
    BY <1>10, <1>15 DEF SealTags
  <2>2. Has(active) /\ call[p].key = keys[active]
    BY <1>15, <2>1 DEF SealTags, IInv, RingInv, CallInv
  <2>3. /\ cts' = Append(cts, [ver |-> 3, kid |-> active,
                               key |-> keys[active], aad |-> aad])
        /\ Returns(p, "nil")
        /\ UNCHANGED <<ringVars, dropped>>
    BY <1>15, <2>2 DEF SealTags, Has
  <2>4. RingInv'
    BY <1>3, <2>3 DEF IInv, RingInv, ringVars, Has
  <2>5. CtsInv'
    BY <1>1, <2>1, <2>2, <2>3 DEF IInv, CtsInv, TypeOK, ringVars, Has
  <2> QED BY <1>1, <2>1, <2>4, <2>5 DEF IInv
<1>16. ASSUME NEW p \in Callers, SealRngFails(p) PROVE IInv'
  <2>1. CallInv'
    BY <1>10, <1>16 DEF SealRngFails
  <2> QED BY <1>2, <1>3, <1>16, <2>1 DEF SealRngFails
<1>17. ASSUME NEW p \in Callers, NEW in \in Inputs, NEW aad \in AADs, Open(p, in, aad)
       PROVE  IInv'
  <2>1. OpenResult(in, aad) # "panic"
    BY <1>17 DEF Open, MayCall, IInv, RingInv, OpenResult, OpenV1, OpenV3
  <2>2. \A q \in Callers : ret'[q] # "panic"
    BY <1>3, <1>17, <2>1 DEF Open
  <2>3. CallInv'
    BY <1>5, <1>17 DEF Open
  <2> QED BY <1>2, <1>17, <2>2, <2>3 DEF Open
<1>18. ASSUME NEW key \in Keys, NEW aad \in AADs, SealV1(key, aad) PROVE IInv'
  <2>1. CallInv'
    BY <1>5, <1>18 DEF SealV1
  <2>2. RingInv'
    BY <1>4, <1>18 DEF SealV1, IInv, RingInv, ringVars, Has
  <2>3. CtsInv'
    BY <1>1, <1>18 DEF SealV1, IInv, CtsInv, TypeOK, ringVars
  <2> QED BY <1>1, <2>1, <2>2, <2>3 DEF IInv
<1>19. CASE UNCHANGED vars
  BY <1>2, <1>4, <1>5, <1>19 DEF vars
<1> QED
  BY <1>6, <1>7, <1>8, <1>9, <1>11, <1>12, <1>13, <1>14, <1>15, <1>16, <1>17,
     <1>18, <1>19 DEF Next, Mutate, Use

-----------------------------------------------------------------------------
(* Results for callers that keep their calls apart.                        *)

\* No sequence of NewKeyRing, Add, Remove, SetActive, Seal and Open calls takes
\* the active key out of the ring or makes Seal or Open use a nil cipher.
THEOREM ActiveKeyUsable == ASSUME Serialized PROVE Spec => []ActiveUsable
<1>1. IInv => ActiveUsable
  BY DEF IInv, RingInv, ActiveUsable
<1>2. IInv /\ [Next]_vars => IInv'
  BY InvStep
<1> QED BY <1>1, <1>2, InitInv, PTL DEF Spec

\* A v3 ciphertext opens with its own AAD as long as its kid is in the ring.
LEMMA ReadV3 ==
  ASSUME NEW n \in 1 .. Len(cts), cts[n].ver = 3, cts[n].kid \in Kids
  PROVE  OpenResult(AsIssued(n), cts[n].aad) = "nil" <=>
           Has(cts[n].kid) /\ keys[cts[n].kid] = cts[n].key
  BY DEF OpenResult, AsIssued, OpenV3, GcmOpens

\* Rotation is safe: what KeyRing.Seal returned, KeyRing.Open opens, until the
\* ciphertext's own kid is removed.
THEOREM RotationSafe == ASSUME Serialized PROVE Spec => []SealedReadable
<1>1. IInv => SealedReadable
  <2> SUFFICES ASSUME IInv, NEW n \in 1 .. Len(cts),
                      cts[n].ver = 3 /\ cts[n].kid \notin dropped
               PROVE  OpenResult(AsIssued(n), cts[n].aad) = "nil"
    BY DEF SealedReadable
  <2>1. cts[n].kid \in Kids /\ keys[cts[n].kid] = cts[n].key
    BY DEF IInv, CtsInv
  <2>2. cts[n].key \in Keys
    BY CtsType DEF IInv, TypeInv
  <2> QED BY <2>1, <2>2, ReadV3 DEF Has
<1>2. IInv /\ [Next]_vars => IInv'
  BY InvStep
<1> QED BY <1>1, <1>2, InitInv, PTL DEF Spec

\* The steps that change the ring: the constructor, on a ring that is not there
\* yet, and the second halves of Add, Remove and SetActive.
LEMMA RingSteps ==
  ASSUME [Next]_vars, live
  PROVE  \/ UNCHANGED ringVars
         \/ \E p \in Callers : AddStores(p) \/ RemoveDeletes(p) \/ SetActiveStores(p)
<1>1. ASSUME NEW p \in Callers, NEW kid, NEW key, NewKeyRing(p, kid, key)
      PROVE  FALSE
  BY <1>1 DEF NewKeyRing
<1>2. ASSUME NEW p \in Callers, NEW kid, NEW key, AddChecks(p, kid, key)
      PROVE  UNCHANGED ringVars
  BY <1>2 DEF AddChecks
<1>3. ASSUME NEW p \in Callers, NEW kid, RemoveChecks(p, kid) \/ SetActiveChecks(p, kid)
      PROVE  UNCHANGED ringVars
  BY <1>3 DEF RemoveChecks, SetActiveChecks
<1>4. ASSUME NEW p \in Callers, Use(p) PROVE UNCHANGED ringVars
  <2>1. CASE SealReadsKey(p)
    BY <2>1 DEF SealReadsKey
  <2>2. CASE SealRngFails(p)
    BY <2>2 DEF SealRngFails
  <2>3. ASSUME NEW aad, SealTags(p, aad) PROVE UNCHANGED ringVars
    BY <2>3 DEF SealTags
  <2>4. ASSUME NEW in, NEW aad, Open(p, in, aad) PROVE UNCHANGED ringVars
    BY <2>4 DEF Open
  <2> QED BY <1>4, <2>1, <2>2, <2>3, <2>4 DEF Use
<1>5. ASSUME NEW key, NEW aad, SealV1(key, aad) PROVE UNCHANGED ringVars
  BY <1>5 DEF SealV1
<1>6. CASE UNCHANGED vars
  BY <1>6 DEF vars, ringVars
<1>7. ASSUME NEW p \in Callers, Mutate(p)
      PROVE  \/ UNCHANGED ringVars
             \/ AddStores(p) \/ RemoveDeletes(p) \/ SetActiveStores(p)
  BY <1>1, <1>2, <1>3, <1>7 DEF Mutate
<1> QED BY <1>4, <1>5, <1>6, <1>7 DEF Next

\* The only change to a stored key is that of a Remove of its kid: the kid is
\* not the active one and is gone afterwards.
LEMMA KeysStep ==
  ASSUME Serialized, IInv, [Next]_vars, NEW k \in Kids, Has(k), keys'[k] # keys[k]
  PROVE  /\ k # active /\ keys'[k] = NoKey
         /\ \E p \in Callers : call[p].op = "Remove" /\ call[p].kid = k
<1>1. keys \in [Kids -> Keys \cup {NoKey}] /\ live
  BY DEF IInv, TypeInv, TypeOK, RingInv, Has
<1>2. ASSUME UNCHANGED ringVars PROVE FALSE
  BY <1>2 DEF ringVars
<1>3. ASSUME NEW p \in Callers, AddStores(p) PROVE FALSE
  BY <1>1, <1>3 DEF AddStores, IInv, CallInv
<1>4. ASSUME NEW p \in Callers, RemoveDeletes(p)
      PROVE  /\ k # active /\ keys'[k] = NoKey
             /\ call[p].op = "Remove" /\ call[p].kid = k
  BY <1>1, <1>4 DEF RemoveDeletes, IInv, CallInv
<1>5. ASSUME NEW p \in Callers, SetActiveStores(p) PROVE FALSE
  BY <1>5 DEF SetActiveStores
<1> QED BY <1>1, <1>2, <1>3, <1>4, <1>5, RingSteps

\* Ciphertexts are only added.
LEMMA CtsStep ==
  ASSUME TypeOK, [Next]_vars, NEW n \in 1 .. Len(cts)
  PROVE  n \in 1 .. Len(cts') /\ cts'[n] = cts[n]
<1>1. CASE UNCHANGED cts
  BY <1>1
<1>2. ASSUME NEW c, cts' = Append(cts, c) PROVE n \in 1 .. Len(cts') /\ cts'[n] = cts[n]
  BY <1>2 DEF TypeOK
<1>3. ASSUME NEW p \in Callers, Mutate(p) PROVE UNCHANGED cts
  <2>1. ASSUME NEW kid, NEW key, NewKeyRing(p, kid, key) \/ AddChecks(p, kid, key)
        PROVE  UNCHANGED cts
    BY <2>1 DEF NewKeyRing, AddChecks
  <2>2. ASSUME NEW kid, RemoveChecks(p, kid) \/ SetActiveChecks(p, kid)
        PROVE  UNCHANGED cts
    BY <2>2 DEF RemoveChecks, SetActiveChecks
  <2>3. CASE AddStores(p) \/ RemoveDeletes(p) \/ SetActiveStores(p)
    BY <2>3 DEF AddStores, RemoveDeletes, SetActiveStores
  <2> QED BY <1>3, <2>1, <2>2, <2>3 DEF Mutate
<1>4. ASSUME NEW p \in Callers, Use(p)
      PROVE  UNCHANGED cts \/ \E c : cts' = Append(cts, c)
  <2>1. CASE SealReadsKey(p) \/ SealRngFails(p)
    BY <2>1 DEF SealReadsKey, SealRngFails
  <2>2. ASSUME NEW aad, SealTags(p, aad)
        PROVE  UNCHANGED cts \/ \E c : cts' = Append(cts, c)
    BY <2>2 DEF SealTags
  <2>3. ASSUME NEW in, NEW aad, Open(p, in, aad) PROVE UNCHANGED cts
    BY <2>3 DEF Open
  <2> QED BY <1>4, <2>1, <2>2, <2>3 DEF Use
<1>5. ASSUME NEW key, NEW aad, SealV1(key, aad) PROVE \E c : cts' = Append(cts, c)
  BY <1>5 DEF SealV1
<1>6. CASE UNCHANGED vars
  BY <1>1, <1>6 DEF vars
<1> QED BY <1>1, <1>2, <1>3, <1>4, <1>5, <1>6 DEF Next

\* No step but the effect of a Remove of its own, inactive, kid takes a
\* readable v3 ciphertext away: not Add, not SetActive, not a Seal.
THEOREM OnlyRemoval == ASSUME Serialized PROVE Spec => OnlyRemoveLoses
<1> DEFINE Removed(n) ==
      /\ cts[n].kid # active
      /\ \E p \in Callers : call[p].op = "Remove" /\ call[p].kid = cts[n].kid
<1> DEFINE Keeps(n) ==
      /\ cts[n].ver = 3
      /\ OpenResult(AsIssued(n), cts[n].aad) = "nil"
      /\ OpenResult(AsIssued(n), cts[n].aad)' # "nil"
      => Removed(n)
<1>1. ASSUME IInv, [Next]_vars, NEW n \in 1 .. Len(cts) PROVE Keeps(n)
  <2> SUFFICES ASSUME cts[n].ver = 3, OpenResult(AsIssued(n), cts[n].aad) = "nil",
                      OpenResult(AsIssued(n), cts[n].aad)' # "nil"
               PROVE  Removed(n)
    OBVIOUS
  <2>1. n \in 1 .. Len(cts') /\ cts'[n] = cts[n]
    BY <1>1, CtsStep DEF IInv, TypeInv
  <2>2. cts[n].kid \in Kids
    BY <1>1 DEF IInv, CtsInv
  <2>3. Has(cts[n].kid) /\ keys[cts[n].kid] = cts[n].key
    BY <2>2, ReadV3
  <2>4. keys'[cts[n].kid] # cts[n].key
    BY <2>1, <2>2, <2>3 DEF OpenResult, AsIssued, OpenV3, GcmOpens, Has
  <2> QED BY <1>1, <2>2, <2>3, <2>4, KeysStep
<1>2. IInv /\ [Next]_vars => IInv'
  BY InvStep
<1>3. IInv /\ [Next]_vars => [\A n \in 1 .. Len(cts) : Keeps(n)]_vars
  BY <1>1
<1> QED BY <1>2, <1>3, InitInv, PTL DEF Spec, OnlyRemoveLoses
=============================================================================
