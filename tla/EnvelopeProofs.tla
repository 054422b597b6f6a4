--------------------------- MODULE EnvelopeProofs ---------------------------
(***************************************************************************)
(* Proofs about Envelope for every number of callers, key IDs, keys and    *)
(* calls: what Open gives back was sealed by one Seal call, what Seal      *)
(* returned stays readable, and no data key outlives its call.             *)
(***************************************************************************)
EXTENDS Envelope, TLAPS

Ops == {"idle", "generate", "encrypt", "unwrap", "decrypt"}
WrapRec == [form : Forms, ver : {V1}, key : KEKs, aad : {NilAAD}, pt : Buffers]
InnerRec == [form : Forms, ver : {V1}, key : DataKeys, aad : AADs, pt : Nat]
CtRec == [id : KeyIDs, kek : KEKs, w : Nat, i : Nat, aad : AADs]
CallRec == [op : Ops, id : KeyIDs \cup {NoKek}, kek : KEKs \cup {NoKek},
            w : Nat, i : Nat, aad : AADs \cup {NilAAD}]
RetRec == [err : Results, w : Nat, i : Nat, aad : AADs \cup {NilAAD}]

\* The types, with indices that are only numbers.
Shape ==
  /\ keks \in [KeyIDs -> KEKs \cup {NoKek}]
  /\ call \in [Callers -> CallRec]
  /\ buf \in [Callers -> Buffers]
  /\ left \in SUBSET DataKeys
  /\ ret \in RetRec
  /\ wraps \in Seq(WrapRec)
  /\ inners \in Seq(InnerRec)
  /\ cts \in Seq(CtRec)

\* A call under way: its numbers name parts there are, and its buffer holds
\* the plaintext of its own wrapped key, and only while it is about to use it.
CallInv(p) ==
  /\ call[p].w <= Len(wraps) /\ call[p].i <= Len(inners)
  /\ call[p].op \in {"generate", "encrypt"} =>
       /\ call[p].i = 0 /\ call[p].id \in KeyIDs
       /\ call[p].kek \in KEKs /\ call[p].aad \in AADs
  /\ call[p].op = "encrypt" =>
       /\ call[p].w >= 1 /\ buf[p] \in DataKeys
       /\ wraps[call[p].w] = Sealed(call[p].kek, buf[p], NilAAD)
  /\ call[p].op \in {"unwrap", "decrypt"} => call[p].w >= 1 /\ call[p].i >= 1
  /\ call[p].op = "decrypt" =>
       wraps[call[p].w].form = "whole" /\ buf[p] = wraps[call[p].w].pt
  /\ call[p].op \notin {"encrypt", "decrypt"} => buf[p] = Zero

\* A data key is in one undamaged wrap, and none in a wrap was left behind.
FreshKeys ==
  /\ \A v, w \in 1 .. Len(wraps) :
       /\ wraps[v].form = "whole" /\ wraps[w].form = "whole"
       /\ wraps[v].pt = wraps[w].pt /\ wraps[v].pt \in DataKeys
       => v = w
  /\ \A w \in 1 .. Len(wraps) : wraps[w].pt \notin left

\* An inner ciphertext is sealed under a wrapped key, and an undamaged one was
\* returned, with that wrapped key, by a Seal call.
Origin(i, n) ==
  /\ cts[n].i = i /\ cts[n].aad = inners[i].aad
  /\ wraps[cts[n].w].pt = inners[i].key
InnersInv ==
  \A i \in 1 .. Len(inners) :
    /\ \E w \in 1 .. Len(wraps) : wraps[w].pt = inners[i].key
    /\ inners[i].form = "whole" => \E n \in 1 .. Len(cts) : Origin(i, n)

\* The two parts of a ciphertext Seal returned, as they were made.
CtInv(n) ==
  /\ cts[n].w \in 1 .. Len(wraps) /\ cts[n].i \in 1 .. Len(inners)
  /\ wraps[cts[n].w].form = "whole" /\ wraps[cts[n].w].key = cts[n].kek
  /\ inners[cts[n].i].form = "whole"
  /\ inners[cts[n].i].key = wraps[cts[n].w].pt
  /\ inners[cts[n].i].aad = cts[n].aad
CtsInv == \A n \in 1 .. Len(cts) : CtInv(n)

HistInv == FreshKeys /\ InnersInv /\ CtsInv

IInv ==
  /\ Shape
  /\ \A p \in Callers : CallInv(p)
  /\ HistInv
  /\ OpenedAsSealed

-----------------------------------------------------------------------------
(* The pieces a step is made of                                            *)

\* A sequence with one more element keeps the ones it had.
LEMMA AppendFacts ==
  ASSUME NEW S, NEW s \in Seq(S), NEW e \in S
  PROVE  /\ Append(s, e) \in Seq(S)
         /\ Len(Append(s, e)) = Len(s) + 1
         /\ \A k \in 1 .. Len(s) : Append(s, e)[k] = s[k]
         /\ Append(s, e)[Len(s) + 1] = e
         /\ Len(s) \in Nat
OBVIOUS

\* No call under way and no result yet are values of their types.
LEMMA IdleType ==
  /\ Idle \in CallRec /\ Idle.op = "idle" /\ Idle.w = 0 /\ Idle.i = 0
  /\ NoRet \in RetRec
<1>1. Idle \in CallRec /\ Idle.op = "idle" /\ Idle.w = 0 /\ Idle.i = 0
  BY DEF Idle, CallRec, Ops
<1>2. NoRet \in RetRec
  BY DEF NoRet, RetRec, Results
<1> QED BY <1>1, <1>2

\* The three ways a call goes on keep its other fields.
LEMMA CallUpdate ==
  ASSUME NEW c \in CallRec, NEW id \in KeyIDs, NEW kek \in KEKs, NEW aad \in AADs,
         NEW n \in Nat
  PROVE  /\ [c EXCEPT !.op = "generate", !.id = id, !.kek = kek, !.aad = aad] \in CallRec
         /\ [c EXCEPT !.op = "encrypt", !.w = n] \in CallRec
         /\ [c EXCEPT !.op = "decrypt"] \in CallRec
<1>1. [c EXCEPT !.op = "generate", !.id = id, !.kek = kek, !.aad = aad] \in CallRec
  BY DEF CallRec, Ops
<1>2. [c EXCEPT !.op = "encrypt", !.w = n] \in CallRec
  BY DEF CallRec, Ops
<1>3. [c EXCEPT !.op = "decrypt"] \in CallRec
  BY DEF CallRec, Ops
<1> QED BY <1>1, <1>2, <1>3

\* A call that goes on.
LEMMA Continues ==
  ASSUME Shape, NEW p \in Callers, NEW c \in CallRec, Continue(p, c)
  PROVE  /\ call' \in [Callers -> CallRec]
         /\ call'[p] = c
         /\ \A q \in Callers \ {p} : call'[q] = call[q]
BY DEF Shape, Continue

\* A call that returns: what it reports is its own parts and aad.
LEMMA Ends ==
  ASSUME Shape, NEW p \in Callers, NEW err \in Results, Return(p, err)
  PROVE  /\ call' \in [Callers -> CallRec]
         /\ call'[p] = Idle
         /\ \A q \in Callers \ {p} : call'[q] = call[q]
         /\ ret' \in RetRec
         /\ ret'.err = err /\ ret'.w = call[p].w /\ ret'.i = call[p].i
         /\ ret'.aad = call[p].aad
<1>1. call' = [call EXCEPT ![p] = Idle] /\ call \in [Callers -> CallRec]
  BY DEF Return, Shape
<1>2. ret' = [err |-> err, w |-> call[p].w, i |-> call[p].i, aad |-> call[p].aad]
  BY DEF Return
<1>3. call[p] \in CallRec
  BY <1>1
<1>4. ret' \in RetRec
  BY <1>2, <1>3 DEF CallRec, RetRec
<1>5. call' \in [Callers -> CallRec]
  BY <1>1, IdleType
<1> QED BY <1>1, <1>2, <1>4, <1>5

\* A call refused, or over, in its first step.
LEMMA EndsAtOnce ==
  ASSUME NEW err \in Results, ReturnAtOnce(err)
  PROVE  ret' \in RetRec /\ ret'.i = 0 /\ UNCHANGED call
BY DEF ReturnAtOnce, NoRet, RetRec

\* A zeroed buffer.
LEMMA Zeroes ==
  ASSUME Shape, NEW p \in Callers, zeroBytes(p)
  PROVE  /\ buf' \in [Callers -> Buffers]
         /\ buf'[p] = Zero
         /\ \A q \in Callers \ {p} : buf'[q] = buf[q]
BY DEF Shape, zeroBytes, Buffers

\* The history only grows.
Grown ==
  /\ Len(wraps) <= Len(wraps') /\ Len(inners) <= Len(inners')
  /\ Len(wraps') \in Nat /\ Len(inners') \in Nat
  /\ \A w \in 1 .. Len(wraps) : wraps'[w] = wraps[w]

\* The invariant of a call that takes no step survives the others' steps.
LEMMA CallKept ==
  ASSUME Shape, Grown, NEW p \in Callers, CallInv(p),
         call'[p] = call[p], buf'[p] = buf[p]
  PROVE  CallInv(p)'
<1>1. /\ call[p] \in CallRec /\ Len(wraps) \in Nat /\ Len(inners) \in Nat
  BY DEF Shape
<1>2. call[p].w \in Nat /\ call[p].i \in Nat
  BY <1>1 DEF CallRec
<1>3. call[p].w <= Len(wraps') /\ call[p].i <= Len(inners')
  BY <1>1, <1>2 DEF Grown, CallInv
<1>4. call[p].w >= 1 => wraps'[call[p].w] = wraps[call[p].w]
  BY <1>1, <1>2 DEF Grown, CallInv
<1> QED BY <1>3, <1>4 DEF CallInv

\* An idle call holds no key.
LEMMA IdleInv ==
  ASSUME NEW p \in Callers, call'[p] = Idle, buf'[p] = Zero,
         Len(wraps') \in Nat, Len(inners') \in Nat
  PROVE  CallInv(p)'
BY IdleType DEF CallInv

\* While ciphertexts are only added, what was opened is still what was sealed.
LEMMA OpenedKept ==
  ASSUME Shape, OpenedAsSealed, UNCHANGED ret, cts' \in Seq(CtRec),
         Len(cts) <= Len(cts'), \A n \in 1 .. Len(cts) : cts'[n] = cts[n]
  PROVE  OpenedAsSealed'
<1>1. Len(cts) \in Nat /\ Len(cts') \in Nat
  BY DEF Shape
<1>2. \A n \in 1 .. Len(cts) : n \in 1 .. Len(cts')
  BY <1>1
<1> QED BY <1>2 DEF OpenedAsSealed

-----------------------------------------------------------------------------
(* The history                                                             *)

\* A further wrap: not of a key that was wrapped before or left behind.
LEMMA WrapsGrow ==
  ASSUME Shape, HistInv, NEW e \in WrapRec, wraps' = Append(wraps, e),
         UNCHANGED <<inners, left, cts>>,
         e.pt \notin left,
         e.form = "whole" /\ e.pt \in DataKeys =>
           \A w \in 1 .. Len(wraps) : wraps[w].pt # e.pt
  PROVE  HistInv' /\ Grown /\ wraps' \in Seq(WrapRec)
<1>1. /\ wraps' \in Seq(WrapRec) /\ Len(wraps') = Len(wraps) + 1 /\ Len(wraps) \in Nat
      /\ \A w \in 1 .. Len(wraps) : wraps'[w] = wraps[w]
      /\ wraps'[Len(wraps) + 1] = e
  BY AppendFacts DEF Shape
<1>2. Len(inners) \in Nat /\ Len(cts) \in Nat
  BY DEF Shape
<1>3. \A w \in 1 .. Len(wraps') : w \in 1 .. Len(wraps) \/ w = Len(wraps) + 1
  BY <1>1
<1>4. \A w \in 1 .. Len(wraps) : w \in 1 .. Len(wraps')
  BY <1>1
<1>5. FreshKeys'
  BY <1>1, <1>3 DEF HistInv, FreshKeys
<1>6. CtsInv'
  BY <1>1, <1>4 DEF HistInv, CtsInv, CtInv
<1>7. ASSUME NEW i \in 1 .. Len(inners)
      PROVE  /\ \E w \in 1 .. Len(wraps') : wraps'[w].pt = inners[i].key
             /\ inners[i].form = "whole" =>
                  \E n \in 1 .. Len(cts) :
                    /\ cts[n].i = i /\ cts[n].aad = inners[i].aad
                    /\ wraps'[cts[n].w].pt = inners[i].key
  BY <1>1, <1>4 DEF HistInv, InnersInv, Origin, CtsInv, CtInv
<1>8. InnersInv'
  BY <1>7 DEF InnersInv, Origin
<1>9. Grown
  BY <1>1, <1>2 DEF Grown
<1> QED BY <1>1, <1>5, <1>6, <1>8, <1>9 DEF HistInv

\* A data key is left behind that was in no wrap.
LEMMA LeftGrows ==
  ASSUME Shape, HistInv, NEW d \in DataKeys \ Drawn, left' = left \cup {d},
         UNCHANGED <<wraps, inners, cts>>
  PROVE  HistInv' /\ left' \in SUBSET DataKeys
<1>1. \A w \in 1 .. Len(wraps) : wraps[w].pt # d
  BY DEF Drawn
<1>2. FreshKeys'
  BY <1>1 DEF HistInv, FreshKeys
<1>3. InnersInv' /\ CtsInv'
  BY DEF HistInv, InnersInv, CtsInv, CtInv, Origin
<1> QED BY <1>2, <1>3 DEF HistInv, Shape

\* A damaged copy of an inner ciphertext is added.
LEMMA InnersSpoiled ==
  ASSUME Shape, HistInv, NEW i \in 1 .. Len(inners), NEW e \in InnerRec,
         e.key = inners[i].key, e.form # "whole", inners' = Append(inners, e),
         UNCHANGED <<wraps, left, cts>>
  PROVE  HistInv' /\ Grown /\ inners' \in Seq(InnerRec)
<1>1. /\ inners' \in Seq(InnerRec) /\ Len(inners') = Len(inners) + 1 /\ Len(inners) \in Nat
      /\ \A k \in 1 .. Len(inners) : inners'[k] = inners[k]
      /\ inners'[Len(inners) + 1] = e
  BY AppendFacts DEF Shape
<1>2. \A k \in 1 .. Len(inners') : k \in 1 .. Len(inners) \/ k = Len(inners) + 1
  BY <1>1
<1>3. \A k \in 1 .. Len(inners) : k \in 1 .. Len(inners')
  BY <1>1
<1>4. FreshKeys'
  BY DEF HistInv, FreshKeys
<1>5. CtsInv'
  <2>1. ASSUME NEW n \in 1 .. Len(cts) PROVE CtInv(n)'
    <3>1. CtInv(n)
      BY DEF HistInv, CtsInv
    <3> QED BY <1>1, <1>3, <3>1 DEF CtInv
  <2> QED BY <2>1 DEF CtsInv
<1>6. InnersInv'
  <2>1. ASSUME NEW k \in 1 .. Len(inners)
        PROVE  /\ \E w \in 1 .. Len(wraps') : wraps'[w].pt = inners'[k].key
               /\ inners'[k].form = "whole" => \E n \in 1 .. Len(cts') : Origin(k, n)'
    <3>1. \A n : Origin(k, n) => Origin(k, n)'
      BY <1>1 DEF Origin
    <3> QED BY <1>1, <3>1 DEF HistInv, InnersInv
  <2>2. \E w \in 1 .. Len(wraps') : wraps'[w].pt = e.key
    BY DEF HistInv, InnersInv
  <2> QED BY <1>1, <1>2, <2>1, <2>2 DEF InnersInv
<1>7. Grown
  BY <1>1 DEF Grown, Shape
<1> QED BY <1>1, <1>4, <1>5, <1>6, <1>7 DEF HistInv

\* Seal adds an inner ciphertext under a wrapped key and returns the pair.
LEMMA PairGrows ==
  ASSUME Shape, HistInv, NEW w \in 1 .. Len(wraps), NEW c \in CtRec, NEW e \in InnerRec,
         wraps[w].form = "whole", wraps[w].key = c.kek, wraps[w].pt = e.key,
         c.w = w, c.i = Len(inners) + 1, c.aad = e.aad, e.form = "whole",
         inners' = Append(inners, e), cts' = Append(cts, c),
         UNCHANGED <<wraps, left>>
  PROVE  /\ HistInv' /\ Grown /\ inners' \in Seq(InnerRec)
         /\ cts' \in Seq(CtRec) /\ Len(cts) <= Len(cts')
         /\ \A n \in 1 .. Len(cts) : cts'[n] = cts[n]
<1>1. /\ inners' \in Seq(InnerRec) /\ Len(inners') = Len(inners) + 1 /\ Len(inners) \in Nat
      /\ \A k \in 1 .. Len(inners) : inners'[k] = inners[k]
      /\ inners'[Len(inners) + 1] = e
  BY AppendFacts DEF Shape
<1>2. /\ cts' \in Seq(CtRec) /\ Len(cts') = Len(cts) + 1 /\ Len(cts) \in Nat
      /\ \A k \in 1 .. Len(cts) : cts'[k] = cts[k]
      /\ cts'[Len(cts) + 1] = c
  BY AppendFacts DEF Shape
<1>3. /\ \A k \in 1 .. Len(inners') : k \in 1 .. Len(inners) \/ k = Len(inners) + 1
      /\ \A n \in 1 .. Len(cts') : n \in 1 .. Len(cts) \/ n = Len(cts) + 1
      /\ \A k \in 1 .. Len(inners) : k \in 1 .. Len(inners')
      /\ \A n \in 1 .. Len(cts) : n \in 1 .. Len(cts')
      /\ Len(inners) + 1 \in 1 .. Len(inners') /\ Len(cts) + 1 \in 1 .. Len(cts')
  BY <1>1, <1>2
<1>4. FreshKeys'
  BY DEF HistInv, FreshKeys
<1>5. ASSUME NEW n \in 1 .. Len(cts) PROVE CtInv(n)'
  BY <1>1, <1>2, <1>3 DEF HistInv, CtsInv, CtInv
<1>6. ASSUME NEW n, n = Len(cts) + 1 PROVE CtInv(n)'
  <2>1. /\ cts'[n] = c
        /\ c.w \in 1 .. Len(wraps') /\ c.i \in 1 .. Len(inners')
        /\ inners'[c.i] = e
    BY <1>1, <1>2, <1>3, <1>6
  <2> QED BY <2>1 DEF CtInv
<1>7. CtsInv'
  BY <1>3, <1>5, <1>6 DEF CtsInv
<1>8. ASSUME NEW i \in 1 .. Len(inners)
      PROVE  /\ \E v \in 1 .. Len(wraps') : wraps'[v].pt = inners'[i].key
             /\ inners'[i].form = "whole" => \E n \in 1 .. Len(cts') : Origin(i, n)'
  <2>1. \A n \in 1 .. Len(cts) : Origin(i, n) => Origin(i, n)'
    BY <1>1, <1>2 DEF Origin
  <2> QED BY <1>1, <1>3, <2>1 DEF HistInv, InnersInv
<1>9. ASSUME NEW i, i = Len(inners) + 1
      PROVE  /\ \E v \in 1 .. Len(wraps') : wraps'[v].pt = inners'[i].key
             /\ \E n \in 1 .. Len(cts') : Origin(i, n)'
  <2>1. \A n : n = Len(cts) + 1 => Origin(i, n)'
    BY <1>1, <1>2, <1>9 DEF Origin
  <2> QED BY <1>1, <1>3, <1>9, <2>1
<1>10. InnersInv'
  BY <1>3, <1>8, <1>9 DEF InnersInv
<1>11. Grown
  BY <1>1 DEF Grown, Shape
<1> QED BY <1>1, <1>2, <1>4, <1>7, <1>10, <1>11 DEF HistInv

-----------------------------------------------------------------------------
(* The steps                                                               *)

\* What a step does to the calls, the buffers and the results, when the
\* history's own invariant is known to survive it.
LEMMA StepInv ==
  ASSUME IInv, NEW p \in Callers, Grown, HistInv',
         keks' \in [KeyIDs -> KEKs \cup {NoKek}], call' \in [Callers -> CallRec],
         buf' \in [Callers -> Buffers], left' \in SUBSET DataKeys, ret' \in RetRec,
         wraps' \in Seq(WrapRec), inners' \in Seq(InnerRec), cts' \in Seq(CtRec),
         \A q \in Callers \ {p} : call'[q] = call[q] /\ buf'[q] = buf[q],
         CallInv(p)', OpenedAsSealed'
  PROVE  IInv'
<1>1. Shape'
  BY DEF Shape
<1>2. ASSUME NEW q \in Callers PROVE CallInv(q)'
  BY CallKept DEF IInv
<1> QED BY <1>1, <1>2 DEF IInv

\* A step that leaves the history alone.
LEMMA SameHistory ==
  ASSUME IInv, UNCHANGED <<wraps, inners, left, cts>>
  PROVE  /\ Grown /\ HistInv'
         /\ left' \in SUBSET DataKeys /\ wraps' \in Seq(WrapRec)
         /\ inners' \in Seq(InnerRec) /\ cts' \in Seq(CtRec)
<1>1. Shape /\ HistInv
  BY DEF IInv
<1>2. Grown
  BY <1>1 DEF Grown, Shape
<1>3. HistInv'
  BY <1>1 DEF HistInv, FreshKeys, InnersInv, Origin, CtsInv, CtInv
<1> QED BY <1>1, <1>2, <1>3 DEF Shape

\* Nothing has happened yet.
LEMMA InitInv == Init => IInv
<1> SUFFICES ASSUME Init PROVE IInv
  OBVIOUS
<1>1. Shape
  BY IdleType DEF Init, Shape, Buffers
<1>2. ASSUME NEW p \in Callers PROVE CallInv(p)
  BY IdleType DEF Init, CallInv
<1>3. HistInv
  BY DEF Init, HistInv, FreshKeys, InnersInv, CtsInv
<1>4. OpenedAsSealed
  BY DEF Init, NoRet, OpenedAsSealed
<1> QED BY <1>1, <1>2, <1>3, <1>4 DEF IInv

\* AddKey, Encrypt, a rejected Open and a failed lookup: nothing is under way
\* afterwards and nothing was opened.
LEMMA AtOnceInv ==
  ASSUME IInv, NEW p \in Callers, NEW err \in Results, ReturnAtOnce(err),
         keks' \in [KeyIDs -> KEKs \cup {NoKek}],
         UNCHANGED <<buf, inners, left, cts>>,
         Grown, HistInv', wraps' \in Seq(WrapRec)
  PROVE  IInv'
<1>1. ret' \in RetRec /\ ret'.i = 0 /\ call' = call
  BY EndsAtOnce
<1>2. Shape /\ CallInv(p)
  BY DEF IInv
<1>3. CallInv(p)'
  BY <1>1, <1>2, CallKept
<1>4. OpenedAsSealed'
  BY <1>1 DEF OpenedAsSealed
<1>5. /\ call' \in [Callers -> CallRec] /\ buf' \in [Callers -> Buffers]
      /\ left' \in SUBSET DataKeys /\ inners' \in Seq(InnerRec) /\ cts' \in Seq(CtRec)
  BY <1>1, <1>2 DEF Shape
<1> QED BY <1>1, <1>3, <1>4, <1>5, StepInv

\* StaticKMS's own operations keep the invariant.
LEMMA KmsInv ==
  ASSUME IInv, NEW p \in Callers, Kms(p)
  PROVE  IInv'
<1>1. PICK id \in KeyIDs :
        Encrypt(p, id) \/ \E key \in KEKs \cup {BadKey} : AddKey(p, id, key)
  BY DEF Kms
<1>2. Shape /\ HistInv
  BY DEF IInv
<1>3. CASE Encrypt(p, id) /\ keks[id] = NoKek
  <2>1. ReturnAtOnce("unknownKeyID") /\ UNCHANGED <<keks, buf, wraps, inners, left, cts>>
    BY <1>3 DEF Encrypt
  <2> QED BY <1>2, <2>1, SameHistory, AtOnceInv DEF Shape, Results
<1>4. CASE Encrypt(p, id) /\ keks[id] # NoKek
  <2> DEFINE e == Sealed(keks[id], BadKey, NilAAD)
  <2>1. /\ ReturnAtOnce("nil") /\ wraps' = Append(wraps, e)
        /\ UNCHANGED <<keks, buf, inners, left, cts>>
    BY <1>4 DEF Encrypt
  <2>2. keks[id] \in KEKs
    BY <1>2, <1>4 DEF Shape
  <2>3. e \in WrapRec /\ e.pt = BadKey
    BY <2>2 DEF Sealed, WrapRec, Forms, Buffers
  <2>4. BadKey \notin DataKeys /\ BadKey \notin left
    BY <1>2, EnvelopeAssumption DEF Shape
  <2> HIDE DEF e
  <2>5. HistInv' /\ Grown /\ wraps' \in Seq(WrapRec)
    BY <1>2, <2>1, <2>3, <2>4, WrapsGrow
  <2> QED BY <1>2, <2>1, <2>5, AtOnceInv DEF Shape, Results, OpenErrors
<1>5. ASSUME NEW key \in KEKs \cup {BadKey}, AddKey(p, id, key) PROVE IInv'
  <2>1. UNCHANGED <<buf, wraps, inners, left, cts>>
    BY <1>5 DEF AddKey
  <2>2. PICK err \in Results : ReturnAtOnce(err)
    BY <1>5 DEF AddKey, Results, OpenErrors
  <2>3. keks' \in [KeyIDs -> KEKs \cup {NoKek}]
    BY <1>2, <1>5 DEF AddKey, Shape
  <2> QED BY <2>1, <2>2, <2>3, SameHistory, AtOnceInv
<1> QED BY <1>1, <1>3, <1>4, <1>5

\* A call that leaves keys, buffers and history alone and goes on to c.
LEMMA GoesOn ==
  ASSUME IInv, NEW p \in Callers, NEW c \in CallRec, Continue(p, c), UNCHANGED ret,
         UNCHANGED <<keks, buf, wraps, inners, left, cts>>,
         CallInv(p)'
  PROVE  IInv'
<1>1. Shape /\ OpenedAsSealed
  BY DEF IInv
<1>2. /\ call' \in [Callers -> CallRec]
      /\ \A q \in Callers \ {p} : call'[q] = call[q]
  BY <1>1, Continues
<1>3. OpenedAsSealed'
  BY <1>1 DEF OpenedAsSealed
<1>4. /\ keks' \in [KeyIDs -> KEKs \cup {NoKek}] /\ buf' \in [Callers -> Buffers]
      /\ ret' \in RetRec
  BY <1>1 DEF Shape
<1> QED BY <1>2, <1>3, <1>4, SameHistory, StepInv

\* EnvelopeSealer.Seal keeps the invariant, whoever else is at work.
LEMMA SealInv ==
  ASSUME IInv, NEW p \in Callers, Seal(p)
  PROVE  IInv'
<1>1. Shape /\ HistInv /\ OpenedAsSealed /\ CallInv(p)
  BY DEF IInv
<1>2. /\ call[p] \in CallRec /\ buf[p] \in Buffers /\ Len(wraps) \in Nat
      /\ Len(inners) \in Nat /\ keks \in [KeyIDs -> KEKs \cup {NoKek}]
  BY <1>1 DEF Shape
<1>3. ASSUME NEW id \in KeyIDs, NEW aad \in AADs, SealLooksUp(p, id, aad) PROVE IInv'
  <2>1. call[p] = Idle /\ UNCHANGED <<keks, buf, wraps, inners, left, cts>>
    BY <1>3 DEF SealLooksUp
  <2>2. CASE keks[id] = NoKek
    <3>1. ReturnAtOnce("unknownKeyID")
      BY <1>3, <2>2 DEF SealLooksUp
    <3> QED BY <1>2, <2>1, <3>1, SameHistory, AtOnceInv DEF Results
  <2>3. CASE keks[id] # NoKek
    <3> DEFINE c == [Idle EXCEPT !.op = "generate", !.id = id,
                                 !.kek = keks[id], !.aad = aad]
    <3>1. Continue(p, c) /\ UNCHANGED ret
      BY <1>3, <2>3 DEF SealLooksUp
    <3>2. keks[id] \in KEKs
      BY <1>2, <2>3
    <3>3. c \in CallRec
      BY <1>2, <3>2, IdleType, CallUpdate
    <3>4. c \in CallRec /\ c.op = "generate" /\ c.id \in KeyIDs /\ c.kek \in KEKs
          /\ c.w = 0 /\ c.i = 0 /\ c.aad \in AADs
      BY <3>2, <3>3 DEF Idle
    <3> HIDE DEF c
    <3>5. call'[p] = c
      BY <1>1, <3>1, <3>4, Continues
    <3>6. buf[p] = Zero
      BY <1>1, <2>1, IdleType DEF CallInv
    <3>7. CallInv(p)'
      BY <1>2, <2>1, <3>4, <3>5, <3>6 DEF CallInv
    <3> QED BY <2>1, <3>1, <3>4, <3>7, GoesOn
  <2> QED BY <2>2, <2>3
<1>4. ASSUME NEW d \in DataKeys, SealGenerates(p, d) PROVE IInv'
  <2> DEFINE e == Sealed(call[p].kek, d, NilAAD)
             c == [call[p] EXCEPT !.op = "encrypt", !.w = Len(wraps) + 1]
  <2>1. /\ call[p].op = "generate" /\ d \notin Drawn
        /\ buf' = [buf EXCEPT ![p] = d]
        /\ wraps' = Append(wraps, e) /\ Continue(p, c)
        /\ UNCHANGED <<keks, ret, inners, left, cts>>
    BY <1>4 DEF SealGenerates
  <2>2. /\ call[p].kek \in KEKs /\ call[p].i = 0 /\ call[p].id \in KeyIDs
        /\ call[p].aad \in AADs
    BY <1>1, <2>1 DEF CallInv
  <2>3. e \in WrapRec /\ e.pt = d
    BY <2>2 DEF Sealed, WrapRec, Forms, Buffers
  <2>4. d \notin left /\ \A w \in 1 .. Len(wraps) : wraps[w].pt # d
    BY <2>1 DEF Drawn
  <2>5. /\ c \in CallRec /\ c.op = "encrypt" /\ c.w = Len(wraps) + 1 /\ c.i = 0
        /\ c.kek = call[p].kek /\ c.id = call[p].id /\ c.aad = call[p].aad
    <3>1. Len(wraps) + 1 \in Nat
      BY <1>2
    <3>2. c \in CallRec
      BY <1>2, <2>2, <3>1, CallUpdate
    <3> QED BY <1>2, <2>2, <3>2 DEF CallRec
  <2> HIDE DEF e, c
  <2>6. HistInv' /\ Grown /\ wraps' \in Seq(WrapRec)
    BY <1>1, <2>1, <2>3, <2>4, WrapsGrow
  <2>7. Len(wraps') = Len(wraps) + 1 /\ wraps'[Len(wraps) + 1] = e
    BY <1>1, <2>1, <2>3, AppendFacts DEF Shape
  <2>8. /\ call' \in [Callers -> CallRec] /\ call'[p] = c
        /\ \A q \in Callers \ {p} : call'[q] = call[q]
    BY <1>1, <2>1, <2>5, Continues
  <2>9. /\ buf' \in [Callers -> Buffers] /\ buf'[p] = d
        /\ \A q \in Callers \ {p} : buf'[q] = buf[q]
    BY <1>1, <2>1 DEF Shape, Buffers
  <2>10. CallInv(p)'
    <3>1. wraps'[c.w] = Sealed(c.kek, d, NilAAD)
      BY <2>5, <2>7 DEF e
    <3> QED BY <1>2, <2>1, <2>2, <2>5, <2>7, <2>8, <2>9, <3>1 DEF CallInv
  <2>11. OpenedAsSealed'
    BY <1>1, <2>1 DEF OpenedAsSealed
  <2>12. /\ keks' \in [KeyIDs -> KEKs \cup {NoKek}] /\ left' \in SUBSET DataKeys
         /\ ret' \in RetRec /\ inners' \in Seq(InnerRec) /\ cts' \in Seq(CtRec)
    BY <1>1, <2>1 DEF Shape
  <2> QED BY <2>6, <2>8, <2>9, <2>10, <2>11, <2>12, StepInv
<1>5. ASSUME SealGenerateFails(p) PROVE IInv'
  <2>1. /\ call[p].op = "generate" /\ Return(p, "rngErr")
        /\ UNCHANGED <<keks, buf, wraps, inners, cts>>
    BY <1>5 DEF SealGenerateFails
  <2>2. left' = left \/ \E d \in DataKeys \ Drawn : left' = left \cup {d}
    BY <1>5 DEF SealGenerateFails
  <2>3. HistInv' /\ left' \in SUBSET DataKeys
    <3>1. CASE left' = left
      BY <2>1, <3>1, SameHistory
    <3>2. CASE \E d \in DataKeys \ Drawn : left' = left \cup {d}
      BY <1>1, <2>1, <3>2, LeftGrows
    <3> QED BY <2>2, <3>1, <3>2
  <2>4. /\ call' \in [Callers -> CallRec] /\ call'[p] = Idle /\ ret' \in RetRec
        /\ \A q \in Callers \ {p} : call'[q] = call[q]
        /\ ret'.err = "rngErr"
    BY <1>1, <2>1, Ends DEF Results
  <2>5. CallInv(p)'
    <3>1. buf'[p] = Zero
      BY <1>1, <2>1 DEF CallInv
    <3> QED BY <1>2, <2>1, <2>4, <3>1, IdleInv
  <2>6. OpenedAsSealed'
    BY <2>4 DEF OpenedAsSealed
  <2>7. Grown
    BY <1>2, <2>1 DEF Grown
  <2>8. /\ keks' \in [KeyIDs -> KEKs \cup {NoKek}] /\ buf' \in [Callers -> Buffers]
        /\ wraps' \in Seq(WrapRec) /\ inners' \in Seq(InnerRec) /\ cts' \in Seq(CtRec)
    BY <1>1, <2>1 DEF Shape
  <2> QED BY <2>1, <2>3, <2>4, <2>5, <2>6, <2>7, <2>8, StepInv
<1>6. ASSUME SealEncrypts(p) PROVE IInv'
  <2> DEFINE e == Sealed(buf[p], Len(inners) + 1, call[p].aad)
             c == [id |-> call[p].id, kek |-> call[p].kek, w |-> call[p].w,
                   i |-> Len(inners) + 1, aad |-> call[p].aad]
  <2>1. /\ call[p].op = "encrypt"
        /\ inners' = Append(inners, e) /\ cts' = Append(cts, c)
        /\ zeroBytes(p) /\ Return(p, "nil")
        /\ UNCHANGED <<keks, wraps, left>>
    BY <1>6 DEF SealEncrypts
  <2>2. /\ call[p].kek \in KEKs /\ call[p].i = 0 /\ call[p].id \in KeyIDs
        /\ call[p].aad \in AADs /\ buf[p] \in DataKeys
        /\ call[p].w >= 1 /\ call[p].w <= Len(wraps)
        /\ wraps[call[p].w] = Sealed(call[p].kek, buf[p], NilAAD)
    BY <1>1, <2>1 DEF CallInv
  <2>3. call[p].w \in 1 .. Len(wraps) /\ call[p].w \in Nat
    <3>1. call[p].w \in Nat
      BY <1>2 DEF CallRec
    <3> QED BY <1>2, <2>2, <3>1
  <2>4. e \in InnerRec /\ e.key = buf[p] /\ e.aad = call[p].aad /\ e.form = "whole"
    BY <1>2, <2>2 DEF Sealed, InnerRec, Forms
  <2>5. /\ c \in CtRec /\ c.w = call[p].w /\ c.i = Len(inners) + 1
        /\ c.aad = call[p].aad /\ c.kek = call[p].kek
    BY <1>2, <2>2, <2>3 DEF CtRec
  <2>6. /\ wraps[call[p].w].form = "whole" /\ wraps[call[p].w].key = call[p].kek
        /\ wraps[call[p].w].pt = buf[p]
    BY <2>2 DEF Sealed
  <2> HIDE DEF e, c
  <2>7. HistInv' /\ Grown /\ inners' \in Seq(InnerRec) /\ cts' \in Seq(CtRec)
    BY <1>1, <2>1, <2>3, <2>4, <2>5, <2>6, PairGrows
  <2>8. /\ call' \in [Callers -> CallRec] /\ call'[p] = Idle /\ ret' \in RetRec
        /\ \A q \in Callers \ {p} : call'[q] = call[q]
        /\ ret'.i = 0
    BY <1>1, <2>1, <2>2, Ends DEF Results, OpenErrors
  <2>9. /\ buf' \in [Callers -> Buffers] /\ buf'[p] = Zero
        /\ \A q \in Callers \ {p} : buf'[q] = buf[q]
    BY <1>1, <2>1, Zeroes
  <2>10. CallInv(p)'
    BY <2>7, <2>8, <2>9, IdleInv DEF Grown
  <2>11. OpenedAsSealed'
    BY <2>8 DEF OpenedAsSealed
  <2>12. /\ keks' \in [KeyIDs -> KEKs \cup {NoKek}] /\ left' \in SUBSET DataKeys
         /\ wraps' \in Seq(WrapRec)
    BY <1>1, <2>1 DEF Shape
  <2> QED BY <2>7, <2>8, <2>9, <2>10, <2>11, <2>12, StepInv
<1>7. ASSUME SealEncryptFails(p) PROVE IInv'
  <2>1. /\ zeroBytes(p) /\ Return(p, "rngErr")
        /\ UNCHANGED <<keks, wraps, inners, left, cts>>
    BY <1>7 DEF SealEncryptFails
  <2>2. /\ call' \in [Callers -> CallRec] /\ call'[p] = Idle /\ ret' \in RetRec
        /\ \A q \in Callers \ {p} : call'[q] = call[q]
        /\ ret'.err = "rngErr"
    BY <1>1, <2>1, Ends DEF Results
  <2>3. /\ buf' \in [Callers -> Buffers] /\ buf'[p] = Zero
        /\ \A q \in Callers \ {p} : buf'[q] = buf[q]
    BY <1>1, <2>1, Zeroes
  <2>4. CallInv(p)'
    BY <1>2, <2>1, <2>2, <2>3, IdleInv
  <2>5. OpenedAsSealed'
    BY <2>2 DEF OpenedAsSealed
  <2> QED BY <1>2, <2>1, <2>2, <2>3, <2>4, <2>5, SameHistory, StepInv
<1> QED BY <1>3, <1>4, <1>5, <1>6, <1>7 DEF Seal

\* EnvelopeSealer.Open keeps the invariant: what it opens is a pair that one
\* Seal call returned, because an undamaged wrap has its data key to itself.
LEMMA OpenInv ==
  ASSUME IInv, NEW p \in Callers, Open(p)
  PROVE  IInv'
<1>1. Shape /\ HistInv /\ OpenedAsSealed /\ CallInv(p)
  BY DEF IInv
<1>2. /\ call[p] \in CallRec /\ buf[p] \in Buffers /\ Len(wraps) \in Nat
      /\ Len(inners) \in Nat /\ keks \in [KeyIDs -> KEKs \cup {NoKek}]
      /\ buf \in [Callers -> Buffers]
  BY <1>1 DEF Shape
<1>3. ASSUME OpenRejects(p) PROVE IInv'
  <2>1. UNCHANGED <<keks, buf, wraps, inners, left, cts>>
    BY <1>3 DEF OpenRejects
  <2>2. PICK err \in Results : ReturnAtOnce(err)
    BY <1>3 DEF OpenRejects, Malformed, Results, OpenErrors
  <2> QED BY <1>2, <2>1, <2>2, SameHistory, AtOnceInv
<1>4. ASSUME NEW id \in KeyIDs, NEW w \in 1 .. Len(wraps), NEW i \in 1 .. Len(inners),
             NEW aad \in AADs, OpenLooksUp(p, id, w, i, aad)
      PROVE  IInv'
  <2>1. call[p] = Idle /\ UNCHANGED <<keks, buf, wraps, inners, left, cts>>
    BY <1>4 DEF OpenLooksUp
  <2>2. CASE keks[id] = NoKek
    <3>1. ReturnAtOnce("unknownKeyID")
      BY <1>4, <2>2 DEF OpenLooksUp
    <3> QED BY <1>2, <2>1, <3>1, SameHistory, AtOnceInv DEF Results
  <2>3. CASE keks[id] # NoKek
    <3> DEFINE c == [op |-> "unwrap", id |-> id, kek |-> keks[id], w |-> w,
                     i |-> i, aad |-> aad]
    <3>1. Continue(p, c) /\ UNCHANGED ret
      BY <1>4, <2>3 DEF OpenLooksUp
    <3>2. c \in CallRec /\ c.op = "unwrap" /\ c.w = w /\ c.i = i
      BY <1>2 DEF CallRec, Ops
    <3> HIDE DEF c
    <3>3. call'[p] = c
      BY <1>1, <3>1, <3>2, Continues
    <3>4. buf[p] = Zero
      BY <1>1, <2>1, IdleType DEF CallInv
    <3>5. CallInv(p)'
      BY <1>2, <2>1, <3>2, <3>3, <3>4 DEF CallInv
    <3> QED BY <2>1, <3>1, <3>2, <3>5, GoesOn
  <2> QED BY <2>2, <2>3
<1>5. ASSUME OpenUnwraps(p) PROVE IInv'
  <2> DEFINE err == OpenError(call[p].kek, wraps[call[p].w], NilAAD)
             c == [call[p] EXCEPT !.op = "decrypt"]
  <2>1. call[p].op = "unwrap" /\ UNCHANGED <<keks, wraps, inners, left, cts>>
    BY <1>5 DEF OpenUnwraps
  <2>2. call[p].w >= 1 /\ call[p].i >= 1 /\ buf[p] = Zero
        /\ call[p].w <= Len(wraps) /\ call[p].i <= Len(inners)
    BY <1>1, <2>1 DEF CallInv
  <2>3. call[p].w \in 1 .. Len(wraps)
    <3>1. call[p].w \in Nat
      BY <1>2 DEF CallRec
    <3> QED BY <1>2, <2>2, <3>1
  <2>4. wraps[call[p].w] \in WrapRec
    BY <1>1, <2>3 DEF Shape
  <2>5. CASE err = "nil"
    <3>1. wraps[call[p].w].form = "whole"
      BY <2>5 DEF OpenError, GcmOpens
    <3>2. buf' = [buf EXCEPT ![p] = wraps[call[p].w].pt] /\ Continue(p, c) /\ UNCHANGED ret
      BY <1>5, <2>5 DEF OpenUnwraps
    <3>3. wraps[call[p].w].pt \in Buffers
      BY <2>4 DEF WrapRec
    <3>4. /\ c \in CallRec /\ c.op = "decrypt" /\ c.w = call[p].w /\ c.i = call[p].i
      BY <1>2 DEF CallRec, Ops
    <3> HIDE DEF c
    <3>5. /\ call' \in [Callers -> CallRec] /\ call'[p] = c
          /\ \A q \in Callers \ {p} : call'[q] = call[q]
      BY <1>1, <3>2, <3>4, Continues
    <3>6. /\ buf' \in [Callers -> Buffers] /\ buf'[p] = wraps[call[p].w].pt
          /\ \A q \in Callers \ {p} : buf'[q] = buf[q]
      BY <1>2, <3>2, <3>3
    <3>7. CallInv(p)'
      BY <2>1, <2>2, <3>1, <3>4, <3>5, <3>6 DEF CallInv
    <3>8. OpenedAsSealed' /\ ret' \in RetRec /\ keks' \in [KeyIDs -> KEKs \cup {NoKek}]
      BY <1>1, <2>1, <3>2 DEF OpenedAsSealed, Shape
    <3> QED BY <2>1, <3>5, <3>6, <3>7, <3>8, SameHistory, StepInv
  <2>6. CASE err # "nil"
    <3>1. Return(p, err) /\ UNCHANGED buf
      BY <1>5, <2>6 DEF OpenUnwraps
    <3>2. err \in Results
      BY DEF OpenError, Results, OpenErrors
    <3> HIDE DEF err
    <3>3. /\ call' \in [Callers -> CallRec] /\ call'[p] = Idle /\ ret' \in RetRec
          /\ \A q \in Callers \ {p} : call'[q] = call[q]
          /\ ret'.err = err
      BY <1>1, <3>1, <3>2, Ends
    <3>4. CallInv(p)'
      BY <1>2, <2>1, <2>2, <3>1, <3>3, IdleInv
    <3>5. OpenedAsSealed'
      BY <2>6, <3>3 DEF OpenedAsSealed
    <3> QED BY <1>2, <2>1, <3>1, <3>3, <3>4, <3>5, SameHistory, StepInv
  <2> QED BY <2>5, <2>6
<1>6. ASSUME OpenDecrypts(p) PROVE IInv'
  <2> DEFINE ci == call[p].i
             cw == call[p].w
             err == OpenError(buf[p], inners[ci], call[p].aad)
  <2>1. /\ call[p].op = "decrypt" /\ Return(p, err) /\ zeroBytes(p)
        /\ UNCHANGED <<keks, wraps, inners, left, cts>>
    BY <1>6 DEF OpenDecrypts
  <2>2. /\ cw >= 1 /\ ci >= 1 /\ cw <= Len(wraps) /\ ci <= Len(inners)
        /\ wraps[cw].form = "whole" /\ buf[p] = wraps[cw].pt
    BY <1>1, <2>1 DEF CallInv
  <2>3. cw \in 1 .. Len(wraps) /\ ci \in 1 .. Len(inners)
    <3>1. cw \in Nat /\ ci \in Nat
      BY <1>2 DEF CallRec
    <3> HIDE DEF cw, ci
    <3> QED BY <1>2, <2>2, <3>1
  <2>4. err \in Results
    BY DEF OpenError, Results, OpenErrors
  <2>5. err = "nil" =>
          \E n \in 1 .. Len(cts) :
            cts[n].w = cw /\ cts[n].i = ci /\ cts[n].aad = call[p].aad
    <3> SUFFICES ASSUME err = "nil"
                 PROVE  \E n \in 1 .. Len(cts) :
                          cts[n].w = cw /\ cts[n].i = ci /\ cts[n].aad = call[p].aad
      OBVIOUS
    <3>1. inners[ci].form = "whole" /\ inners[ci].key = buf[p] /\ inners[ci].aad = call[p].aad
      BY DEF OpenError, GcmOpens
    <3> HIDE DEF ci, cw, err
    <3>2. inners[ci].key \in DataKeys
      <4>1. inners[ci] \in InnerRec
        BY <1>1, <2>3 DEF Shape
      <4> QED BY <4>1 DEF InnerRec
    <3>3. PICK n \in 1 .. Len(cts) : Origin(ci, n)
      BY <1>1, <2>3, <3>1 DEF HistInv, InnersInv
    <3>4. cts[n].w \in 1 .. Len(wraps) /\ wraps[cts[n].w].form = "whole"
      BY <1>1 DEF HistInv, CtsInv, CtInv
    <3>5. cts[n].w = cw
      <4>1. wraps[cts[n].w].pt = wraps[cw].pt /\ wraps[cw].pt \in DataKeys
        BY <2>2, <3>1, <3>2, <3>3 DEF Origin
      <4> QED BY <1>1, <2>2, <2>3, <3>4, <4>1 DEF HistInv, FreshKeys
    <3> QED BY <3>1, <3>3, <3>5 DEF Origin
  <2> HIDE DEF err
  <2>6. /\ call' \in [Callers -> CallRec] /\ call'[p] = Idle /\ ret' \in RetRec
        /\ \A q \in Callers \ {p} : call'[q] = call[q]
        /\ ret'.err = err /\ ret'.w = cw /\ ret'.i = ci /\ ret'.aad = call[p].aad
    BY <1>1, <2>1, <2>4, Ends
  <2>7. /\ buf' \in [Callers -> Buffers] /\ buf'[p] = Zero
        /\ \A q \in Callers \ {p} : buf'[q] = buf[q]
    BY <1>1, <2>1, Zeroes
  <2>8. CallInv(p)'
    BY <1>2, <2>1, <2>6, <2>7, IdleInv
  <2>9. OpenedAsSealed'
    BY <2>1, <2>5, <2>6 DEF OpenedAsSealed
  <2> QED BY <1>2, <2>1, <2>6, <2>7, <2>8, <2>9, SameHistory, StepInv
<1> QED BY <1>3, <1>4, <1>5, <1>6 DEF Open

\* What the store damages is a copy, and opens nowhere.
LEMMA DamageInv ==
  ASSUME IInv, Damage
  PROVE  IInv'
<1>1. Shape /\ HistInv /\ OpenedAsSealed
  BY DEF IInv
<1>2. UNCHANGED <<keks, call, buf, ret, left, cts>>
  BY DEF Damage
<1>3. PICK form \in Forms \ {"whole"} : Spoil(form)
  BY DEF Damage
<1>4. ASSUME NEW w \in 1 .. Len(wraps), UNCHANGED inners,
             wraps' = Append(wraps, [wraps[w] EXCEPT !.form = form])
      PROVE  HistInv' /\ Grown /\ wraps' \in Seq(WrapRec) /\ inners' \in Seq(InnerRec)
  <2> DEFINE e == [wraps[w] EXCEPT !.form = form]
  <2>1. wraps[w] \in WrapRec
    BY <1>1 DEF Shape
  <2>2. e \in WrapRec /\ e.pt = wraps[w].pt /\ e.form # "whole"
    BY <1>3, <2>1 DEF WrapRec
  <2>3. e.pt \notin left
    BY <1>1, <2>2 DEF HistInv, FreshKeys
  <2> HIDE DEF e
  <2>4. wraps' = Append(wraps, e)
    BY <1>4 DEF e
  <2> QED BY <1>1, <1>2, <1>4, <2>2, <2>3, <2>4, WrapsGrow DEF Shape
<1>5. ASSUME NEW i \in 1 .. Len(inners), UNCHANGED wraps,
             inners' = Append(inners, [inners[i] EXCEPT !.form = form])
      PROVE  HistInv' /\ Grown /\ wraps' \in Seq(WrapRec) /\ inners' \in Seq(InnerRec)
  <2> DEFINE e == [inners[i] EXCEPT !.form = form]
  <2>1. inners[i] \in InnerRec
    BY <1>1 DEF Shape
  <2>2. e \in InnerRec /\ e.key = inners[i].key /\ e.form # "whole"
    BY <1>3, <2>1 DEF InnerRec
  <2> HIDE DEF e
  <2>3. inners' = Append(inners, e)
    BY <1>5 DEF e
  <2> QED BY <1>1, <1>2, <1>5, <2>2, <2>3, InnersSpoiled DEF Shape
<1>6. HistInv' /\ Grown /\ wraps' \in Seq(WrapRec) /\ inners' \in Seq(InnerRec)
  BY <1>3, <1>4, <1>5 DEF Spoil
<1>7. Shape'
  BY <1>1, <1>2, <1>6 DEF Shape
<1>8. ASSUME NEW q \in Callers PROVE CallInv(q)'
  BY <1>1, <1>2, <1>6, CallKept DEF IInv
<1>9. OpenedAsSealed'
  BY <1>1, <1>2 DEF OpenedAsSealed
<1> QED BY <1>6, <1>7, <1>8, <1>9 DEF IInv

\* The inductive invariant holds in every reachable state.
LEMMA Inductive == Spec => []IInv
<1>1. IInv /\ [Next]_vars => IInv'
  <2> SUFFICES ASSUME IInv, [Next]_vars PROVE IInv'
    OBVIOUS
  <2>1. CASE Next
    BY <2>1, DamageInv, SealInv, OpenInv, KmsInv DEF Next
  <2>2. CASE UNCHANGED vars
    <3>1. UNCHANGED <<keks, call, buf, ret, wraps, inners, left, cts>>
      BY <2>2 DEF vars
    <3>2. Grown /\ HistInv'
      BY <3>1, SameHistory
    <3>3. Shape /\ Shape' /\ OpenedAsSealed'
      BY <3>1 DEF IInv, Shape, OpenedAsSealed
    <3>4. ASSUME NEW q \in Callers PROVE CallInv(q)'
      BY <3>1, <3>2, <3>3, CallKept DEF IInv
    <3> QED BY <3>2, <3>3, <3>4 DEF IInv
  <2> QED BY <2>1, <2>2
<1> QED BY <1>1, InitInv, PTL DEF Spec

-----------------------------------------------------------------------------
(* Results                                                                 *)

\* A sequence whose elements are in T is a sequence over T.
LEMMA SeqNarrow ==
  ASSUME NEW S, NEW T, NEW s \in Seq(S), \A k \in 1 .. Len(s) : s[k] \in T
  PROVE  s \in Seq(T)
OBVIOUS

\* Every reachable state has its declared type: only 32-byte KEKs are ever
\* registered or looked up, and a call's numbers and a ciphertext's parts name
\* wrapped keys and inner ciphertexts that exist.
THEOREM TypeCorrect == Spec => []TypeOK
<1>1. IInv => TypeOK
  <2> SUFFICES ASSUME IInv PROVE TypeOK
    OBVIOUS
  <2>1. Shape
    BY DEF IInv
  <2> DEFINE C == [op : Ops, id : KeyIDs \cup {NoKek}, kek : KEKs \cup {NoKek},
                   w : 0 .. Len(wraps), i : 0 .. Len(inners), aad : AADs \cup {NilAAD}]
             T == [id : KeyIDs, kek : KEKs, w : 1 .. Len(wraps),
                   i : 1 .. Len(inners), aad : AADs]
  <2>2. Len(wraps) \in Nat /\ Len(inners) \in Nat
    BY <2>1 DEF Shape
  <2>3. ASSUME NEW p \in Callers PROVE call[p] \in C
    <3>1. call[p] \in CallRec
      BY <2>1 DEF Shape
    <3>2. call[p].w <= Len(wraps) /\ call[p].i <= Len(inners)
      BY DEF IInv, CallInv
    <3>3. call[p].w \in 0 .. Len(wraps) /\ call[p].i \in 0 .. Len(inners)
      BY <2>2, <3>1, <3>2 DEF CallRec
    <3> QED BY <3>1, <3>3 DEF CallRec
  <2>4. call \in [Callers -> C]
    <3> HIDE DEF C
    <3> QED BY <2>1, <2>3 DEF Shape
  <2>5. ASSUME NEW n \in 1 .. Len(cts) PROVE cts[n] \in T
    <3>1. cts[n] \in CtRec
      BY <2>1 DEF Shape
    <3>2. cts[n].w \in 1 .. Len(wraps) /\ cts[n].i \in 1 .. Len(inners)
      BY DEF IInv, HistInv, CtsInv, CtInv
    <3> QED BY <3>1, <3>2 DEF CtRec
  <2>6. cts \in Seq(T)
    <3> HIDE DEF T
    <3> QED BY <2>1, <2>5, SeqNarrow DEF Shape
  <2> QED BY <2>1, <2>4, <2>6 DEF Shape, TypeOK, Ops, RetRec, WrapRec, InnerRec
<1> QED BY <1>1, Inductive, PTL

\* Open gives back only a pair that one Seal call returned, with its aad, for
\* any number of callers and however their steps interleave.
THEOREM OpensOnlySealedPairs == Spec => []OpenedAsSealed
<1>1. IInv => OpenedAsSealed
  BY DEF IInv
<1> QED BY <1>1, Inductive, PTL

\* Whatever Seal returned opens again while its KEK is the registered one.
THEOREM SealedStaysReadable == Spec => []SealedReadable
<1>1. IInv => SealedReadable
  <2> SUFFICES ASSUME IInv, NEW n \in 1 .. Len(cts)
               PROVE  /\ OpenError(cts[n].kek, wraps[cts[n].w], NilAAD) = "nil"
                      /\ OpenError(wraps[cts[n].w].pt, inners[cts[n].i], cts[n].aad) = "nil"
    BY DEF SealedReadable
  <2>1. CtInv(n) /\ Shape
    BY DEF IInv, HistInv, CtsInv
  <2>2. cts[n] \in CtRec /\ wraps[cts[n].w] \in WrapRec /\ inners[cts[n].i] \in InnerRec
    BY <2>1 DEF Shape, CtInv
  <2>3. cts[n].kek # BadKey /\ wraps[cts[n].w].pt # BadKey
    BY <2>1, <2>2, EnvelopeAssumption DEF CtInv, CtRec, InnerRec
  <2>4. wraps[cts[n].w].aad = NilAAD /\ wraps[cts[n].w].ver = V1 /\ inners[cts[n].i].ver = V1
    BY <2>2 DEF WrapRec, InnerRec
  <2> QED BY <2>1, <2>3, <2>4 DEF CtInv, OpenError, GcmOpens
<1> QED BY <1>1, Inductive, PTL

\* No data key stays in a caller's buffer after its call, and a key that was
\* left behind unwrapped has sealed nothing.
THEOREM NoKeyOutlivesItsCall == Spec => []KeysWiped
<1>1. IInv => KeysWiped
  <2> SUFFICES ASSUME IInv PROVE KeysWiped
    OBVIOUS
  <2>1. \A p \in Callers : buf[p] # Zero => call[p].op \in {"encrypt", "decrypt"}
    BY DEF IInv, CallInv
  <2>2. \A i \in 1 .. Len(inners) : inners[i].key \notin left
    BY DEF IInv, HistInv, InnersInv, FreshKeys
  <2> QED BY <2>1, <2>2 DEF KeysWiped
<1> QED BY <1>1, Inductive, PTL
=============================================================================
