---------------------------- MODULE StreamProofs ----------------------------
(***************************************************************************)
(* Proofs about Stream for every number of streams, keys, sources, chunk   *)
(* sizes, counter width and number of faults; and that Stream implements   *)
(* Delivery when sources are shorter than the counter's range.             *)
(***************************************************************************)
EXTENDS StreamRefinement, TLAPS

EndOf(q) == IF q = <<>> THEN 0 ELSE q[Len(q)].to

\* Chunk i of stream s: its nonce is its own up to the counter's range, it
\* continues the chunk before it, and only the end of the source marks it last.
ChunkInv(s, i) ==
  /\ chunks[s][i].key \in Keys
  /\ chunks[s][i].nonce.prefix = s
  /\ i <= CounterMod => chunks[s][i].nonce.counter = i - 1
  /\ chunks[s][i].from = IF i = 1 THEN 0 ELSE chunks[s][i - 1].to
  /\ chunks[s][i].from <= chunks[s][i].to
  /\ chunks[s][i].to <= src[s].len
  /\ chunks[s][i].aad.last => /\ i = Len(chunks[s])
                              /\ chunks[s][i].to = src[s].len
                              /\ src[s].end # "ioErr"

SealerInv(s) ==
  /\ rd[s] <= src[s].len
  /\ spc[s] = "start" => chunks[s] = <<>> /\ rd[s] = 0 /\ scnt[s] = 0
  /\ spc[s] = "loop" =>
       /\ skey[s] \in Keys
       /\ ValidChunkSize(csize[s])
       /\ rd[s] = EndOf(chunks[s])
       /\ Len(chunks[s]) < CounterMod => scnt[s] = Len(chunks[s])
       /\ \A i \in 1 .. Len(chunks[s]) : ~chunks[s][i].aad.last
  /\ \A i \in 1 .. Len(chunks[s]) : ChunkInv(s, i)

\* AES-GCM is not forged: a stored body that carries a key was sealed.
WasSealed(b) == \E t \in Streams : \E j \in 1 .. Len(chunks[t]) : b = chunks[t][j]
MediumInv ==
  \A f \in Streams : \A i \in 1 .. Len(frames[f]) :
    frames[f][i].body.key # BadKey => WasSealed(frames[f][i].body)

\* While the counter fits, what the opener wrote is the first chunks of the
\* stream, and it stops exactly at the one marked last.
OpenerInv ==
  /\ opc = "idle" => /\ out = <<>> /\ res = "none"
                     /\ oprefix = NoStream /\ ocnt = 0
  /\ opc = "loop" =>
       /\ okey \in Keys
       /\ res = "none"
       /\ Len(out) < CounterMod => ocnt = Len(out)
       /\ oprefix = NoStream => out = <<>>
  /\ oprefix \in Streams /\ CounterFits(oprefix) =>
       /\ opc = "loop" \/ res = "nil" =>
            /\ Len(out) <= Len(chunks[oprefix])
            /\ \A i \in 1 .. Len(out) : out[i] = chunks[oprefix][i]
       /\ opc = "loop" => \A i \in 1 .. Len(out) : ~out[i].aad.last
       /\ res = "nil" => out # <<>> /\ out[Len(out)].aad.last
  /\ DeliveredInOrder

IInv ==
  /\ TypeOK
  /\ \A s \in Streams : SealerInv(s)
  /\ MediumInv
  /\ OpenerInv

-----------------------------------------------------------------------------
(* The operators                                                           *)

\* A length field is a natural number whatever length is put in it.
LEMMA LenFieldType ==
  ASSUME NEW n \in Int, NEW last \in BOOLEAN
  PROVE  LenField(n, last) \in Nat
<1>1. 2 * LastBit \in Nat /\ 2 * LastBit > 0
  BY StreamAssumption
<1>2. n % (2 * LastBit) \in 0 .. 2 * LastBit - 1
  BY <1>1
<1> QED BY <1>1, <1>2, StreamAssumption DEF LenField

\* The chunk counter stays in its range and, below its last value, counts.
LEMMA IncrementFacts ==
  ASSUME NEW c \in 0 .. CounterMod - 1
  PROVE  /\ Increment(c) \in 0 .. CounterMod - 1
         /\ c + 1 < CounterMod => Increment(c) = c + 1
BY StreamAssumption DEF Increment

\* io.ReadFull reads no more than there is, and an error the switch takes for
\* the end means that all of it was read.
LEMMA ReadFullFacts ==
  ASSUME NEW left \in Nat, NEW end \in SourceEnds, NEW size \in Nat
  PROVE  /\ ReadFull(left, end, size).n \in 0 .. left
         /\ EndOfInput(ReadFull(left, end, size).err) =>
              ReadFull(left, end, size).n = left /\ end # "ioErr"
BY DEF ReadFull, EndOfInput, SourceEnds

\* Records with one field replaced keep their type.
LEMMA HeaderUpdate ==
  ASSUME NEW h \in Headers, NEW w \in BOOLEAN
  PROVE  [h EXCEPT !.whole = w] \in Headers
BY DEF Headers

\* A chunk body cut or garbled by the medium is still a chunk body.
LEMMA BodyUpdate ==
  ASSUME NEW b \in Bodies, NEW m \in Nat
  PROVE  /\ [b EXCEPT !.to = m] \in Bodies
         /\ [b EXCEPT !.key = BadKey] \in Bodies
BY DEF Bodies

\* A frame with another length field or body is a frame.
LEMMA FrameUpdate ==
  ASSUME NEW fr \in Frames, NEW v \in Nat
  PROVE  /\ [fr EXCEPT !.len = v] \in Frames
         /\ [fr EXCEPT !.body.key = BadKey] \in Frames
         /\ [fr EXCEPT !.len = v].body = fr.body
         /\ [fr EXCEPT !.body.key = BadKey].body.key = BadKey
<1>1. fr.body \in Bodies
  BY DEF Frames
<1>2. [fr.body EXCEPT !.key = BadKey] \in Bodies
  BY <1>1, BodyUpdate
<1>3. [fr.body EXCEPT !.key = BadKey].key = BadKey
  BY <1>1 DEF Bodies
<1> QED BY <1>2, <1>3 DEF Frames

\* A place among the unread frames is a place among the frames.
LEMMA UnreadIsWithin ==
  ASSUME NEW u \in Nat \ {0}, NEW n \in Nat
  PROVE  /\ \A i \in u .. n : i \in 1 .. n
         /\ \A i \in u .. n + 1 : i \in 1 .. n + 1
OBVIOUS

\* Two runs of frames one after the other.
LEMMA ConcatFacts ==
  ASSUME NEW a \in Seq(Frames), NEW b \in Seq(Frames)
  PROVE  /\ a \o b \in Seq(Frames) /\ Len(a \o b) = Len(a) + Len(b)
         /\ \A k \in 1 .. Len(a) : (a \o b)[k] = a[k]
         /\ \A k \in Len(a) + 1 .. Len(a) + Len(b) : (a \o b)[k] = b[k - Len(a)]
OBVIOUS

\* Inserting a frame gives frames again, the new one and the old ones.
LEMMA InsertType ==
  ASSUME NEW q \in Seq(Frames), NEW i \in 1 .. Len(q) + 1, NEW e \in Frames
  PROVE  /\ InsertAt(q, i, e) \in Seq(Frames)
         /\ \A k \in 1 .. Len(InsertAt(q, i, e)) :
              \/ InsertAt(q, i, e)[k] = e
              \/ \E m \in 1 .. Len(q) : InsertAt(q, i, e)[k] = q[m]
<1> DEFINE a == SubSeq(q, 1, i - 1)
           b == SubSeq(q, i, Len(q))
           ae == a \o <<e>>
<1>1. a \in Seq(Frames) /\ Len(a) = i - 1 /\ \A k \in 1 .. i - 1 : a[k] = q[k]
  OBVIOUS
<1>2. /\ b \in Seq(Frames) /\ Len(b) = Len(q) - i + 1
      /\ \A k \in 1 .. Len(b) : b[k] = q[k + i - 1]
  OBVIOUS
<1>3. <<e>> \in Seq(Frames) /\ Len(<<e>>) = 1 /\ <<e>>[1] = e
  OBVIOUS
<1> HIDE DEF a, b
<1>4. /\ ae \in Seq(Frames) /\ Len(ae) = i
      /\ \A k \in 1 .. i - 1 : ae[k] = q[k]
      /\ ae[i] = e
  BY <1>1, <1>3
<1> HIDE DEF ae
<1>5. /\ ae \o b \in Seq(Frames)
      /\ Len(ae \o b) = Len(q) + 1
      /\ \A k \in 1 .. i : (ae \o b)[k] = ae[k]
      /\ \A k \in i + 1 .. Len(q) + 1 : (ae \o b)[k] = q[k - 1]
  <2>1. /\ ae \o b \in Seq(Frames) /\ Len(ae \o b) = i + Len(b)
        /\ \A k \in 1 .. i : (ae \o b)[k] = ae[k]
        /\ \A k \in i + 1 .. i + Len(b) : (ae \o b)[k] = b[k - i]
    BY <1>2, <1>4, ConcatFacts
  <2>2. i + Len(b) = Len(q) + 1 /\ i \in Int /\ Len(q) \in Nat
    BY <1>2
  <2>3. ASSUME NEW k \in i + 1 .. Len(q) + 1 PROVE (ae \o b)[k] = q[k - 1]
    <3>1. k - i \in 1 .. Len(b) /\ k - i + i - 1 = k - 1
      BY <2>2, <1>2
    <3> QED BY <1>2, <2>1, <2>2, <3>1
  <2> QED BY <2>1, <2>2, <2>3
<1>6. InsertAt(q, i, e) = ae \o b
  BY DEF InsertAt, a, b, ae
<1>7. ASSUME NEW k \in 1 .. Len(q) + 1
      PROVE  (ae \o b)[k] = e \/ \E m \in 1 .. Len(q) : (ae \o b)[k] = q[m]
  <2>1. CASE k \in 1 .. i - 1
    <3>1. k \in 1 .. i /\ k \in 1 .. Len(q)
      BY <2>1
    <3> QED BY <1>4, <1>5, <2>1, <3>1
  <2>2. CASE k = i
    <3>1. i \in 1 .. i
      OBVIOUS
    <3> QED BY <1>4, <1>5, <2>2, <3>1
  <2>3. CASE k \in i + 1 .. Len(q) + 1
    <3>1. k - 1 \in 1 .. Len(q)
      BY <2>3
    <3> QED BY <1>5, <2>3, <3>1
  <2>4. k \in 1 .. i - 1 \/ k = i \/ k \in i + 1 .. Len(q) + 1
    OBVIOUS
  <2> QED BY <2>1, <2>2, <2>3, <2>4
<1> QED BY <1>5, <1>6, <1>7

\* Removing a frame leaves old ones.
LEMMA RemoveType ==
  ASSUME NEW q \in Seq(Frames), NEW i \in 1 .. Len(q)
  PROVE  /\ RemoveAt(q, i) \in Seq(Frames)
         /\ \A k \in 1 .. Len(RemoveAt(q, i)) :
              \E m \in 1 .. Len(q) : RemoveAt(q, i)[k] = q[m]
<1> DEFINE a == SubSeq(q, 1, i - 1)
           b == SubSeq(q, i + 1, Len(q))
<1>1. a \in Seq(Frames) /\ Len(a) = i - 1 /\ \A k \in 1 .. i - 1 : a[k] = q[k]
  OBVIOUS
<1>2. /\ b \in Seq(Frames) /\ Len(b) = Len(q) - i
      /\ \A k \in 1 .. Len(b) : b[k] = q[k + i]
  OBVIOUS
<1>3. RemoveAt(q, i) = a \o b
  BY DEF RemoveAt
<1> HIDE DEF a, b
<1>4. /\ a \o b \in Seq(Frames) /\ Len(a \o b) = Len(a) + Len(b)
      /\ \A k \in 1 .. Len(a) : (a \o b)[k] = a[k]
      /\ \A k \in Len(a) + 1 .. Len(a) + Len(b) : (a \o b)[k] = b[k - Len(a)]
  BY <1>1, <1>2, ConcatFacts
<1>5. ASSUME NEW k \in 1 .. Len(a \o b)
      PROVE  \E m \in 1 .. Len(q) : (a \o b)[k] = q[m]
  <2>1. CASE k \in 1 .. i - 1
    BY <1>1, <1>4, <2>1
  <2>2. CASE k \in i .. Len(q) - 1
    <3>1. k - Len(a) \in 1 .. Len(b) /\ (k - Len(a)) + i = k + 1 /\ k + 1 \in 1 .. Len(q)
      BY <1>1, <1>2, <2>2
    <3>2. k \in Len(a) + 1 .. Len(a) + Len(b)
      BY <1>1, <1>2, <2>2
    <3>3. (a \o b)[k] = b[k - Len(a)]
      BY <1>4, <3>2
    <3>4. b[k - Len(a)] = q[(k - Len(a)) + i]
      BY <1>2, <3>1
    <3> QED BY <3>1, <3>3, <3>4
  <2> QED BY <1>1, <1>2, <1>4, <2>1, <2>2
<1> QED BY <1>3, <1>4, <1>5

-----------------------------------------------------------------------------
(* Type correctness                                                        *)

\* What an iteration seals and stores has the right type.
LEMMA NextFrameType ==
  ASSUME TypeOK, NEW s \in Streams
  PROVE  /\ rd[s] + NextRead(s).n \in Nat
         /\ spc[s] = "loop" => NextChunk(s) \in Bodies
         /\ spc[s] = "loop" => NextFrame(s) \in Frames
<1>1. /\ src[s].len \in Nat /\ rd[s] \in Nat /\ csize[s] \in Nat
      /\ scnt[s] \in 0 .. CounterMod - 1 /\ skey[s] \in Keys \cup {BadKey}
  <2>1. src[s] \in Sources
    BY DEF TypeOK
  <2>2. src[s] \in [len : Nat, end : SourceEnds]
    BY <2>1, StreamAssumption
  <2> QED BY <2>2 DEF TypeOK
<1>2. rd[s] + NextRead(s).n \in Nat
  BY <1>1 DEF NextRead, ReadFull
<1>3. EndOfInput(NextRead(s).err) \in BOOLEAN
  BY DEF EndOfInput
<1>4. NextChunk(s) \in Bodies
  BY <1>1, <1>2, <1>3 DEF NextChunk, Bodies, Nonces, AADs, makeStreamNonce, streamAAD
<1>5. BodyLen(NextChunk(s)) \in Int
  BY <1>4, StreamAssumption DEF BodyLen, Bodies
<1>6. LenField(BodyLen(NextChunk(s)), EndOfInput(NextRead(s).err)) \in Nat
  BY <1>3, <1>5, LenFieldType
<1>7. NextFrame(s) \in Frames
  BY <1>4, <1>6 DEF NextFrame, Frames
<1> QED BY <1>2, <1>4, <1>7

\* So does a recorded frame.
LEMMA RecordedType ==
  ASSUME TypeOK, NEW t \in Streams, NEW j \in 1 .. Len(chunks[t])
  PROVE  Recorded(t, j) \in Frames /\ Recorded(t, j).body = chunks[t][j]
<1>1. chunks[t][j] \in Bodies
  BY DEF TypeOK
<1>2. BodyLen(chunks[t][j]) \in Int /\ chunks[t][j].aad.last \in BOOLEAN
  BY <1>1, StreamAssumption DEF BodyLen, Bodies, AADs
<1>3. LenField(BodyLen(chunks[t][j]), chunks[t][j].aad.last) \in Nat
  BY <1>2, LenFieldType
<1> QED BY <1>1, <1>3 DEF Recorded, Frames

\* What was sealed and what was delivered are finite sequences of chunks.
LEMMA ChunksType ==
  ASSUME TypeOK
  PROVE  /\ \A s \in Streams : chunks[s] \in Seq(Bodies) /\ Len(chunks[s]) \in Nat
         /\ out \in Seq(Bodies) /\ Len(out) \in Nat
         /\ rd \in [Streams -> Nat]
<1>1. /\ chunks \in [Streams -> Seq(Bodies)] /\ out \in Seq(Bodies)
      /\ rd \in [Streams -> Nat]
  BY DEF TypeOK
<1>2. ASSUME NEW s \in Streams PROVE chunks[s] \in Seq(Bodies)
  BY <1>1
<1> QED BY <1>1, <1>2

\* The initial state is well typed.
LEMMA InitType == Init => TypeOK
BY StreamAssumption DEF Init, TypeOK, Headers, Tails, Results

\* SealStream's steps preserve the type invariant.
LEMMA SealType ==
  ASSUME TypeOK, NEW s \in Streams, Seal(s)
  PROVE  TypeOK'
<1> USE DEF TypeOK, mediumVars, openVars
<1>1. CASE SealRejects(s)
  BY <1>1 DEF SealRejects
<1>2. ASSUME NEW k \in Keys, NEW n \in ChunkSizes,
             SealStart(s, k, n) \/ SealHeaderFails(s, k, n)
      PROVE  TypeOK'
  <2>1. n \in Nat
    <3>1. n \in Int /\ n > 0
      BY <1>2, StreamAssumption DEF SealStart, SealHeaderFails, ValidChunkSize
    <3> QED BY <3>1
  <2>2. csize' \in [Streams -> Nat]
    BY <1>2, <2>1 DEF SealStart, SealHeaderFails
  <2>3. PICK w \in BOOLEAN : hdr' = [hdr EXCEPT ![s].whole = w]
    BY <1>2, Zenon DEF SealStart, SealHeaderFails
  <2>4. [hdr[s] EXCEPT !.whole = w] \in Headers
    BY HeaderUpdate
  <2>5. hdr' \in [Streams -> Headers]
    BY <2>3, <2>4
  <2>6. spc' \in [Streams -> {"start", "loop", "ok", "err"}]
    BY <1>2 DEF SealStart, SealHeaderFails
  <2>7. skey' \in [Streams -> Keys \cup {BadKey}]
    <3>1. skey' = [skey EXCEPT ![s] = k]
      BY <1>2 DEF SealStart, SealHeaderFails
    <3> QED BY <3>1
  <2> QED BY <1>2, <2>2, <2>5, <2>6, <2>7 DEF SealStart, SealHeaderFails
<1>3. CASE SealChunk(s)
  <2>0. NextChunk(s) \in Bodies /\ NextFrame(s) \in Frames
    BY <1>3, NextFrameType DEF SealChunk
  <2>1. /\ chunks' \in [Streams -> Seq(Bodies)]
        /\ frames' \in [Streams -> Seq(Frames)]
    <3>1. /\ chunks' = [chunks EXCEPT ![s] = Append(@, NextChunk(s))]
          /\ frames' = [frames EXCEPT ![s] = Append(@, NextFrame(s))]
      BY <1>3 DEF SealChunk
    <3>2. /\ Append(chunks[s], NextChunk(s)) \in Seq(Bodies)
          /\ Append(frames[s], NextFrame(s)) \in Seq(Frames)
      BY <2>0
    <3> QED BY <3>1, <3>2
  <2>2. rd' \in [Streams -> Nat]
    BY <1>3, NextFrameType DEF SealChunk
  <2>3. scnt' \in [Streams -> 0 .. CounterMod - 1]
    BY <1>3, IncrementFacts DEF SealChunk
  <2>4. spc' \in [Streams -> {"start", "loop", "ok", "err"}]
    BY <1>3 DEF SealChunk
  <2> QED BY <1>3, <2>1, <2>2, <2>3, <2>4 DEF SealChunk
<1>4. CASE SealReadFails(s)
  <2>1. rd' \in [Streams -> Nat]
    BY <1>4, NextFrameType DEF SealReadFails
  <2> QED BY <1>4, <2>1 DEF SealReadFails
<1>5. CASE SealWriteFails(s)
  <2>0. NextChunk(s) \in Bodies /\ NextFrame(s) \in Frames
    BY <1>5, NextFrameType DEF SealWriteFails
  <2>1. chunks' \in [Streams -> Seq(Bodies)]
    <3>1. chunks' = [chunks EXCEPT ![s] = Append(@, NextChunk(s))]
      BY <1>5 DEF SealWriteFails
    <3> QED BY <2>0, <3>1
  <2>4. frames' \in [Streams -> Seq(Frames)]
    <3>1. \/ frames' = [frames EXCEPT ![s] = Append(@, NextFrame(s))]
          \/ frames' = frames
      BY <1>5 DEF SealWriteFails
    <3>2. CASE frames' = [frames EXCEPT ![s] = Append(@, NextFrame(s))]
      BY <2>0, <3>2
    <3> QED BY <3>1, <3>2
  <2>5. spc' \in [Streams -> {"start", "loop", "ok", "err"}]
    BY <1>5 DEF SealWriteFails
  <2>2. rd' \in [Streams -> Nat]
    BY <1>5, NextFrameType DEF SealWriteFails
  <2>3. tail' \in [Streams -> Tails]
    BY <1>5 DEF SealWriteFails
  <2> QED BY <1>5, <2>1, <2>2, <2>3, <2>4, <2>5 DEF SealWriteFails
<1> QED BY <1>1, <1>2, <1>3, <1>4, <1>5 DEF Seal

\* OpenStream's steps preserve the type invariant.
LEMMA OpenType ==
  ASSUME TypeOK, Open
  PROVE  TypeOK'
<1> USE DEF TypeOK, sealVars, mediumVars, Return, Results
<1>1. ASSUME NEW f \in Streams, NEW k \in Keys \cup {BadKey}, OpenStart(f, k)
      PROVE  TypeOK'
  <2>1. hdr[f].prefix \in Streams \cup {NoStream}
    BY DEF Headers
  <2> QED BY <1>1, <2>1 DEF OpenStart
<1>2. ASSUME HasFrame
      PROVE  /\ opc = "loop" /\ ofile \in Streams
             /\ Frame \in Frames /\ Frame.body \in Bodies
  <2>1. ofile \in Streams /\ pos \in 1 .. Len(frames[ofile])
    BY <1>2 DEF HasFrame
  <2>2. Frame \in Frames
    BY <2>1 DEF Frame
  <2> QED BY <1>2, <2>1, <2>2 DEF HasFrame, Frames
<1>3. CASE OpenChunk
  <2>1. out' \in Seq(Bodies)
    BY <1>2, <1>3 DEF OpenChunk
  <2>2. ocnt' \in 0 .. CounterMod - 1
    BY <1>3, IncrementFacts DEF OpenChunk
  <2>3. pos' \in Nat \ {0} /\ opc' \in {"idle", "loop", "done"} /\ res' \in Results
    BY <1>3 DEF OpenChunk
  <2>4. ofile' \in Streams
    BY <1>2, <1>3 DEF OpenChunk
  <2> QED BY <1>3, <2>1, <2>2, <2>3, <2>4 DEF OpenChunk
<1>4. CASE OpenWriteFails
  <2>1. PICK m \in Frame.body.from .. Frame.body.to :
               out' = Append(out, [Frame.body EXCEPT !.to = m])
    BY <1>4 DEF OpenWriteFails
  <2>2. Frame.body \in Bodies
    BY <1>2, <1>4 DEF OpenWriteFails
  <2>3. [Frame.body EXCEPT !.to = m] \in Bodies
    <3>1. m \in Nat
      BY <2>2 DEF Bodies
    <3> QED BY <2>2, <3>1, BodyUpdate
  <2>4. out' \in Seq(Bodies)
    BY <2>1, <2>3
  <2>5. faults' \in Seq(FaultKinds)
    BY <1>4 DEF OpenWriteFails, FaultKinds
  <2>6. ofile' \in Streams
    BY <1>2, <1>4 DEF OpenWriteFails
  <2> QED BY <1>4, <2>4, <2>5, <2>6 DEF OpenWriteFails
<1>5. CASE OpenTampered
  BY <1>5 DEF OpenTampered, HasFrame
<1>6. CASE OpenShortBody
  BY <1>6 DEF OpenShortBody
<1>7. CASE OpenTruncated
  BY <1>7 DEF OpenTruncated
<1>8. CASE OpenReadFails
  <2>1. faults' \in Seq(FaultKinds)
    BY <1>8 DEF OpenReadFails, FaultKinds
  <2> QED BY <1>8, <2>1 DEF OpenReadFails
<1>9. ASSUME NEW f \in Streams, NEW k \in Keys, OpenHeaderFails(f, k)
      PROVE  TypeOK'
  <2>1. faults' \in Seq(FaultKinds)
    BY <1>9 DEF OpenHeaderFails, FaultKinds
  <2> QED BY <1>9, <2>1 DEF OpenHeaderFails
<1> QED BY <1>1, <1>3, <1>4, <1>5, <1>6, <1>7, <1>8, <1>9 DEF Open, OpenStep

\* Faults of the medium preserve the type invariant.
LEMMA MediumType ==
  ASSUME TypeOK, Medium
  PROVE  TypeOK'
<1> USE DEF TypeOK, sealVars, openVars, Fault
<1>1. ASSUME NEW kind \in FaultKinds, Fault(kind)
      PROVE  faults' \in Seq(FaultKinds)
  BY <1>1
<1>2. ASSUME NEW f \in Streams, NEW q \in Seq(Frames),
             frames' = [frames EXCEPT ![f] = q]
      PROVE  frames' \in [Streams -> Seq(Frames)]
  BY <1>2
<1>3. ASSUME NEW f \in Streams, NEW i \in 1 .. Len(frames[f])
      PROVE  frames[f] \in Seq(Frames) /\ frames[f][i] \in Frames
  BY <1>3
<1>4. PICK f \in Streams :
        \/ \E i \in Unread(f) .. Len(frames[f]) :
             \/ Truncate(f, i) \/ RemoveFrame(f, i) \/ ChangeLen(f, i)
             \/ GarbleFrame(f, i)
             \/ \E t \in Streams : \E j \in 1 .. Len(chunks[t]) :
                  ReplaceFrame(f, i, t, j)
        \/ \E i \in Unread(f) .. Len(frames[f]) + 1, t \in Streams :
             \E j \in 1 .. Len(chunks[t]) : InsertFrame(f, i, t, j)
        \/ ChangeHeader(f)
  BY DEF Medium
<1>5. Unread(f) \in Nat \ {0}
  BY DEF Unread
<1>6. ASSUME NEW i \in 1 .. Len(frames[f]), Truncate(f, i)
      PROVE  TypeOK'
  <2>1. SubSeq(frames[f], 1, i - 1) \in Seq(Frames)
    BY <1>3
  <2>2. frames' \in [Streams -> Seq(Frames)]
    BY <1>2, <1>6, <2>1 DEF Truncate
  <2>3. tail' \in [Streams -> Tails]
    BY <1>6 DEF Truncate
  <2>4. faults' \in Seq(FaultKinds)
    BY <1>1, <1>6 DEF Truncate, FaultKinds
  <2> QED BY <1>6, <2>2, <2>3, <2>4 DEF Truncate
<1>7. ASSUME NEW i \in 1 .. Len(frames[f]), RemoveFrame(f, i)
      PROVE  TypeOK'
  <2>1. RemoveAt(frames[f], i) \in Seq(Frames)
    BY <1>3, RemoveType
  <2>2. frames' \in [Streams -> Seq(Frames)]
    BY <1>2, <1>7, <2>1 DEF RemoveFrame
  <2>3. faults' \in Seq(FaultKinds)
    BY <1>1, <1>7 DEF RemoveFrame, FaultKinds
  <2> QED BY <1>7, <2>2, <2>3 DEF RemoveFrame
<1>8. ASSUME NEW i \in 1 .. Len(frames[f]), ChangeLen(f, i)
      PROVE  TypeOK'
  <2>1. PICK v \in 0 .. 2 * LastBit - 1 : frames' = [frames EXCEPT ![f][i].len = v]
    BY <1>8 DEF ChangeLen
  <2>2. v \in Nat
    BY StreamAssumption
  <2>3. [frames[f][i] EXCEPT !.len = v] \in Frames
    BY <1>3, <2>2, FrameUpdate
  <2>4. [frames[f] EXCEPT ![i] = [frames[f][i] EXCEPT !.len = v]] \in Seq(Frames)
    BY <1>3, <2>3
  <2>5. frames' \in [Streams -> Seq(Frames)]
    BY <1>2, <2>1, <2>4
  <2>6. faults' \in Seq(FaultKinds)
    BY <1>1, <1>8 DEF ChangeLen, FaultKinds
  <2> QED BY <1>8, <2>5, <2>6 DEF ChangeLen
<1>9. ASSUME NEW i \in 1 .. Len(frames[f]), GarbleFrame(f, i)
      PROVE  TypeOK'
  <2>1. [frames[f][i] EXCEPT !.body.key = BadKey] \in Frames
    BY <1>3, FrameUpdate
  <2>2. [frames[f] EXCEPT ![i] = [frames[f][i] EXCEPT !.body.key = BadKey]] \in Seq(Frames)
    BY <1>3, <2>1
  <2>3. frames' \in [Streams -> Seq(Frames)]
    BY <1>2, <1>9, <2>2 DEF GarbleFrame
  <2>4. faults' \in Seq(FaultKinds)
    BY <1>1, <1>9 DEF GarbleFrame, FaultKinds
  <2> QED BY <1>9, <2>3, <2>4 DEF GarbleFrame
<1>10. ASSUME NEW i \in 1 .. Len(frames[f]), NEW t \in Streams,
              NEW j \in 1 .. Len(chunks[t]), ReplaceFrame(f, i, t, j)
       PROVE  TypeOK'
  <2>1. Recorded(t, j) \in Frames
    BY RecordedType
  <2>2. ReplaceAt(frames[f], i, Recorded(t, j)) \in Seq(Frames)
    BY <1>3, <2>1 DEF ReplaceAt
  <2>3. frames' \in [Streams -> Seq(Frames)]
    BY <1>2, <1>10, <2>2 DEF ReplaceFrame
  <2>4. faults' \in Seq(FaultKinds)
    BY <1>1, <1>10 DEF ReplaceFrame, FaultKinds
  <2> QED BY <1>10, <2>3, <2>4 DEF ReplaceFrame
<1>11. ASSUME NEW i \in 1 .. Len(frames[f]) + 1, NEW t \in Streams,
              NEW j \in 1 .. Len(chunks[t]), InsertFrame(f, i, t, j)
       PROVE  TypeOK'
  <2>1. Recorded(t, j) \in Frames
    BY RecordedType
  <2>2. InsertAt(frames[f], i, Recorded(t, j)) \in Seq(Frames)
    BY <2>1, InsertType
  <2>3. frames' \in [Streams -> Seq(Frames)]
    BY <1>2, <1>11, <2>2 DEF InsertFrame
  <2>4. faults' \in Seq(FaultKinds)
    BY <1>1, <1>11 DEF InsertFrame, FaultKinds
  <2> QED BY <1>11, <2>3, <2>4 DEF InsertFrame
<1>12. CASE ChangeHeader(f)
  <2>1. hdr' \in [Streams -> Headers]
    BY <1>12 DEF ChangeHeader
  <2>2. faults' \in Seq(FaultKinds)
    BY <1>1, <1>12 DEF ChangeHeader, FaultKinds
  <2> QED BY <1>12, <2>1, <2>2 DEF ChangeHeader
<1>13. /\ \A i \in Unread(f) .. Len(frames[f]) : i \in 1 .. Len(frames[f])
       /\ \A i \in Unread(f) .. Len(frames[f]) + 1 : i \in 1 .. Len(frames[f]) + 1
  <2>1. Len(frames[f]) \in Nat
    OBVIOUS
  <2> HIDE DEF TypeOK, Fault
  <2> QED BY <1>5, <2>1, UnreadIsWithin
<1> HIDE DEF TypeOK, Fault
<1> QED BY <1>4, <1>6, <1>7, <1>8, <1>9, <1>10, <1>11, <1>12, <1>13

\* Every reachable state of the sealers, the medium and the opener has its
\* declared type: in particular both chunk counters stay 32-bit.
THEOREM TypeCorrect == Spec => []TypeOK
<1>1. Init => TypeOK
  BY InitType
<1>2. TypeOK /\ [Next]_vars => TypeOK'
  <2> SUFFICES ASSUME TypeOK, [Next]_vars PROVE TypeOK'
    OBVIOUS
  <2>1. CASE Next
    BY <2>1, SealType, OpenType, MediumType DEF Next
  <2>2. CASE UNCHANGED vars
    BY <2>2 DEF vars, sealVars, mediumVars, openVars, TypeOK
  <2> QED BY <2>1, <2>2
<1> QED BY <1>1, <1>2, PTL DEF Spec

-----------------------------------------------------------------------------
(* The inductive invariant                                                 *)

\* The inductive invariant holds before the first call.
LEMMA InitInv == Init => IInv
<1> SUFFICES ASSUME Init PROVE IInv
  OBVIOUS
<1>1. TypeOK
  BY InitType
<1>2. ASSUME NEW s \in Streams PROVE SealerInv(s)
  <2>1. src[s].len \in Nat
    BY StreamAssumption DEF Init
  <2> QED BY <2>1 DEF Init, SealerInv, EndOf
<1>3. MediumInv
  BY DEF Init, MediumInv
<1>4. OpenerInv
  BY StreamAssumption DEF Init, OpenerInv, DeliveredInOrder
<1> QED BY <1>1, <1>2, <1>3, <1>4 DEF IInv

\* What the sealer's invariant says of the chunk it seals next.
LEMMA NextChunkFacts ==
  ASSUME TypeOK, NEW s \in Streams, SealerInv(s), spc[s] = "loop"
  PROVE  /\ NextChunk(s) \in Bodies
         /\ NextChunk(s).key \in Keys
         /\ NextChunk(s).nonce.prefix = s
         /\ Len(chunks[s]) < CounterMod =>
              NextChunk(s).nonce.counter = Len(chunks[s])
         /\ NextChunk(s).from = EndOf(chunks[s])
         /\ NextChunk(s).from <= NextChunk(s).to
         /\ NextChunk(s).to = rd[s] + NextRead(s).n
         /\ NextChunk(s).to <= src[s].len
         /\ NextChunk(s).aad.last = EndOfInput(NextRead(s).err)
         /\ NextChunk(s).aad.last =>
              NextChunk(s).to = src[s].len /\ src[s].end # "ioErr"
<1>1. /\ src[s].len \in Nat /\ src[s].end \in SourceEnds
      /\ rd[s] \in Nat /\ csize[s] \in Nat
  <2>1. src[s] \in Sources
    BY DEF TypeOK
  <2>2. src[s] \in [len : Nat, end : SourceEnds]
    BY <2>1, StreamAssumption
  <2> QED BY <2>2 DEF TypeOK
<1>2. src[s].len - rd[s] \in Nat
  BY <1>1 DEF SealerInv
<1>3. /\ NextRead(s).n \in 0 .. src[s].len - rd[s]
      /\ EndOfInput(NextRead(s).err) =>
           NextRead(s).n = src[s].len - rd[s] /\ src[s].end # "ioErr"
  BY <1>1, <1>2, ReadFullFacts DEF NextRead
<1>4. NextChunk(s) \in Bodies
  BY NextFrameType
<1>5. /\ NextChunk(s).key = skey[s]
      /\ NextChunk(s).nonce.prefix = s
      /\ NextChunk(s).nonce.counter = scnt[s]
      /\ NextChunk(s).aad.last = EndOfInput(NextRead(s).err)
      /\ NextChunk(s).from = rd[s]
      /\ NextChunk(s).to = rd[s] + NextRead(s).n
  BY DEF NextChunk, makeStreamNonce, streamAAD
<1> QED BY <1>1, <1>3, <1>4, <1>5 DEF SealerInv

\* Chunks are only ever appended, so what was sealed stays sealed.
LEMMA SealedStaysSealed ==
  ASSUME TypeOK, NEW s \in Streams, NEW c,
         chunks' = [chunks EXCEPT ![s] = Append(@, c)]
  PROVE  /\ \A t \in Streams : \A i \in 1 .. Len(chunks[t]) :
              i \in 1 .. Len(chunks'[t]) /\ chunks'[t][i] = chunks[t][i]
         /\ Len(chunks'[s]) = Len(chunks[s]) + 1
         /\ chunks'[s][Len(chunks[s]) + 1] = c
         /\ \A t \in Streams \ {s} : chunks'[t] = chunks[t]
         /\ \A b : WasSealed(b) => WasSealed(b)'
         /\ WasSealed(c)'
         /\ \A t \in Streams : CounterFits(t)' => CounterFits(t)
<1> DEFINE q == chunks[s]
<1>1. chunks \in [Streams -> Seq(Bodies)] /\ q \in Seq(Bodies)
  BY DEF TypeOK
<1>2. /\ chunks'[s] = Append(q, c)
      /\ \A t \in Streams \ {s} : chunks'[t] = chunks[t]
  BY <1>1
<1>3. /\ Len(Append(q, c)) = Len(q) + 1
      /\ Append(q, c)[Len(q) + 1] = c
      /\ \A i \in 1 .. Len(q) : Append(q, c)[i] = q[i]
  BY <1>1
<1>4. \A t \in Streams : \A i \in 1 .. Len(chunks[t]) :
        i \in 1 .. Len(chunks'[t]) /\ chunks'[t][i] = chunks[t][i]
  <2> SUFFICES ASSUME NEW t \in Streams, NEW i \in 1 .. Len(chunks[t])
               PROVE  i \in 1 .. Len(chunks'[t]) /\ chunks'[t][i] = chunks[t][i]
    OBVIOUS
  <2>1. CASE t = s
    BY <1>1, <1>2, <1>3, <2>1
  <2>2. CASE t # s
    BY <1>2, <2>2
  <2> QED BY <2>1, <2>2
<1>5. \A b : WasSealed(b) => WasSealed(b)'
  BY <1>4 DEF WasSealed
<1>6. WasSealed(c)'
  <2>1. Len(q) + 1 \in 1 .. Len(chunks'[s]) /\ c = chunks'[s][Len(q) + 1]
    BY <1>1, <1>2, <1>3
  <2> QED BY <2>1 DEF WasSealed
<1>7. ASSUME NEW t \in Streams, CounterFits(t)' PROVE CounterFits(t)
  <2>1. CASE t = s
    BY <1>1, <1>2, <1>3, <1>7, <2>1, StreamAssumption DEF CounterFits
  <2>2. CASE t # s
    BY <1>2, <1>7, <2>2 DEF CounterFits
  <2> QED BY <2>1, <2>2
<1> QED BY <1>2, <1>3, <1>4, <1>5, <1>6, <1>7

\* A step that seals a chunk keeps every stream's history well formed.
LEMMA AddChunkInv ==
  ASSUME IInv, NEW s \in Streams, spc[s] = "loop",
         chunks' = [chunks EXCEPT ![s] = Append(@, NextChunk(s))],
         rd' = [rd EXCEPT ![s] = @ + NextRead(s).n],
         UNCHANGED <<src, skey, csize>>,
         spc'[s] # "start",
         spc'[s] = "loop" => /\ ~EndOfInput(NextRead(s).err)
                             /\ scnt'[s] = Increment(scnt[s]),
         \A t \in Streams \ {s} : spc'[t] = spc[t] /\ scnt'[t] = scnt[t]
  PROVE  \A t \in Streams : SealerInv(t)'
<1> DEFINE q == chunks[s]
           c == NextChunk(s)
<1>1. TypeOK /\ SealerInv(s)
  BY DEF IInv
<1>2. q \in Seq(Bodies) /\ Len(q) \in Nat /\ rd \in [Streams -> Nat]
  BY <1>1, ChunksType
<1>3. /\ \A i \in 1 .. Len(q) : i \in 1 .. Len(chunks'[s]) /\ chunks'[s][i] = q[i]
      /\ Len(chunks'[s]) = Len(q) + 1
      /\ chunks'[s][Len(q) + 1] = c
      /\ \A t \in Streams \ {s} : chunks'[t] = chunks[t]
  BY <1>1, SealedStaysSealed
<1>4. /\ c \in Bodies
      /\ c.key \in Keys
      /\ c.nonce.prefix = s
      /\ Len(q) < CounterMod => c.nonce.counter = Len(q)
      /\ c.from = EndOf(q)
      /\ c.from <= c.to
      /\ c.to = rd[s] + NextRead(s).n
      /\ c.to <= src[s].len
      /\ c.aad.last = EndOfInput(NextRead(s).err)
      /\ c.aad.last => c.to = src[s].len /\ src[s].end # "ioErr"
  BY <1>1, NextChunkFacts
<1>5. rd'[s] = c.to /\ \A t \in Streams \ {s} : rd'[t] = rd[t]
  BY <1>2, <1>4
<1>6. ASSUME NEW t \in Streams \ {s} PROVE SealerInv(t)'
  <2>1. SealerInv(t)
    BY DEF IInv
  <2> QED BY <1>3, <1>5, <2>1 DEF SealerInv, ChunkInv, EndOf, ValidChunkSize
<1>7. /\ rd[s] <= src[s].len /\ skey[s] \in Keys /\ ValidChunkSize(csize[s])
      /\ Len(q) < CounterMod => scnt[s] = Len(q)
      /\ \A i \in 1 .. Len(q) : ~q[i].aad.last
      /\ \A i \in 1 .. Len(q) : ChunkInv(s, i)
  BY <1>1 DEF SealerInv
<1> HIDE DEF q, c
<1>8. ASSUME NEW i \in 1 .. Len(q) PROVE ChunkInv(s, i)'
  <2>1. ChunkInv(s, i) /\ ~q[i].aad.last /\ chunks'[s][i] = q[i]
    BY <1>3, <1>7
  <2>2. i # 1 => i - 1 \in 1 .. Len(q) /\ chunks'[s][i - 1] = q[i - 1]
    BY <1>2, <1>3
  <2> QED BY <2>1, <2>2 DEF ChunkInv, q
<1>9. ASSUME NEW i \in Nat, i = Len(q) + 1 PROVE ChunkInv(s, i)'
  <2>1. EndOf(q) = IF i = 1 THEN 0 ELSE chunks'[s][i - 1].to
    BY <1>2, <1>3, <1>9 DEF EndOf
  <2>2. i <= CounterMod => c.nonce.counter = i - 1
    BY <1>2, <1>4, <1>9, StreamAssumption
  <2> QED BY <1>2, <1>3, <1>4, <1>9, <2>1, <2>2 DEF ChunkInv
<1>10. \A i \in 1 .. Len(chunks'[s]) : ChunkInv(s, i)'
  BY <1>2, <1>3, <1>8, <1>9
<1>11. ASSUME spc'[s] = "loop"
       PROVE  /\ rd'[s] = EndOf(chunks'[s])
              /\ Len(chunks'[s]) < CounterMod => scnt'[s] = Len(chunks'[s])
              /\ \A i \in 1 .. Len(chunks'[s]) : ~chunks'[s][i].aad.last
  <2>1. EndOf(chunks'[s]) = c.to
    <3>1. chunks'[s] # <<>>
      BY <1>2, <1>3
    <3> QED BY <1>3, <3>1 DEF EndOf
  <2>2. Len(q) + 1 < CounterMod => scnt'[s] = Len(q) + 1
    <3>1. scnt[s] \in 0 .. CounterMod - 1
      BY <1>1 DEF TypeOK
    <3>2. /\ scnt'[s] = Increment(scnt[s])
          /\ scnt[s] + 1 < CounterMod => Increment(scnt[s]) = scnt[s] + 1
      BY <1>11, <3>1, IncrementFacts
    <3>3. Len(q) + 1 < CounterMod => Len(q) < CounterMod
      BY <1>2, StreamAssumption
    <3> QED BY <1>7, <3>2, <3>3
  <2>3. ~c.aad.last
    BY <1>4, <1>11
  <2> QED BY <1>2, <1>3, <1>5, <1>7, <2>1, <2>2, <2>3
<1>12. SealerInv(s)'
  BY <1>4, <1>5, <1>7, <1>10, <1>11 DEF SealerInv
<1> QED BY <1>6, <1>12

\* Sealing more leaves the opener's invariant alone.
LEMMA AddChunkOpener ==
  ASSUME IInv, NEW s \in Streams, NEW c,
         chunks' = [chunks EXCEPT ![s] = Append(@, c)], UNCHANGED openVars
  PROVE  OpenerInv'
<1>1. TypeOK /\ OpenerInv
  BY DEF IInv
<1>2. /\ \A t \in Streams : \A i \in 1 .. Len(chunks[t]) :
           i \in 1 .. Len(chunks'[t]) /\ chunks'[t][i] = chunks[t][i]
      /\ \A t \in Streams : CounterFits(t)' => CounterFits(t)
  BY <1>1, SealedStaysSealed
<1>3. UNCHANGED <<opc, okey, oprefix, ocnt, out, res>>
  BY DEF openVars
<1>4. /\ (opc = "idle" => /\ out = <<>> /\ res = "none"
                         /\ oprefix = NoStream /\ ocnt = 0)'
      /\ (opc = "loop" =>
           /\ okey \in Keys
           /\ res = "none"
           /\ Len(out) < CounterMod => ocnt = Len(out)
           /\ oprefix = NoStream => out = <<>>)'
  BY <1>1, <1>3 DEF OpenerInv
<1>5. ASSUME oprefix \in Streams, CounterFits(oprefix)'
      PROVE  /\ opc = "loop" \/ res = "nil" =>
                  /\ Len(out) <= Len(chunks'[oprefix])
                  /\ \A i \in 1 .. Len(out) : out[i] = chunks'[oprefix][i]
             /\ opc = "loop" => \A i \in 1 .. Len(out) : ~out[i].aad.last
             /\ res = "nil" => out # <<>> /\ out[Len(out)].aad.last
             /\ CounterFits(oprefix) /\ DeliveredInOrder
  <2>1. CounterFits(oprefix)
    BY <1>2, <1>3, <1>5
  <2>2. Len(out) \in Nat /\ Len(chunks[oprefix]) \in Nat
    BY <1>1, <1>5, ChunksType
  <2>3. ASSUME opc = "loop" \/ res = "nil"
        PROVE  /\ Len(out) <= Len(chunks'[oprefix])
               /\ \A i \in 1 .. Len(out) : out[i] = chunks'[oprefix][i]
    <3>1. /\ Len(out) <= Len(chunks[oprefix])
          /\ \A i \in 1 .. Len(out) : out[i] = chunks[oprefix][i]
      BY <1>1, <1>5, <2>1, <2>3 DEF OpenerInv
    <3>2. Len(chunks[oprefix]) <= Len(chunks'[oprefix])
      <4>1. CASE oprefix = s
        BY <1>1, <4>1, SealedStaysSealed, <2>2
      <4>2. CASE oprefix # s
        BY <1>1, <1>5, <4>2, SealedStaysSealed, <2>2
      <4> QED BY <4>1, <4>2
    <3>3. ASSUME NEW i \in 1 .. Len(out) PROVE out[i] = chunks'[oprefix][i]
      <4>1. i \in 1 .. Len(chunks[oprefix])
        BY <2>2, <3>1
      <4> QED BY <1>2, <1>5, <3>1, <4>1
    <3>4. Len(chunks'[oprefix]) \in Nat
      <4>1. CASE oprefix = s
        BY <1>1, <2>2, <4>1, SealedStaysSealed
      <4>2. CASE oprefix # s
        BY <1>1, <1>5, <2>2, <4>2, SealedStaysSealed
      <4> QED BY <4>1, <4>2
    <3> QED BY <2>2, <3>1, <3>2, <3>3, <3>4
  <2> QED BY <1>1, <1>5, <2>1, <2>3 DEF OpenerInv
<1>6. DeliveredInOrder'
  BY <1>3, <1>5 DEF DeliveredInOrder
<1> QED BY <1>3, <1>4, <1>5, <1>6 DEF OpenerInv

\* Nor does a step that seals nothing disturb it.
LEMMA SameChunksOpener ==
  ASSUME IInv, UNCHANGED <<chunks, openVars>>
  PROVE  OpenerInv'
<1>1. OpenerInv
  BY DEF IInv
<1> QED BY <1>1 DEF OpenerInv, DeliveredInOrder, CounterFits, openVars

\* SealStream's steps preserve the inductive invariant: a new chunk is the
\* next one of its stream, under a nonce no other chunk has.
LEMMA SealInv ==
  ASSUME IInv, NEW s \in Streams, Seal(s)
  PROVE  IInv'
<1>1. TypeOK /\ SealerInv(s) /\ MediumInv
  BY DEF IInv
<1>2. TypeOK'
  BY <1>1, SealType
<1>3. ASSUME UNCHANGED <<chunks, src, scnt, frames>>, UNCHANGED openVars,
             \A t \in Streams \ {s} : /\ rd'[t] = rd[t] /\ spc'[t] = spc[t]
                                      /\ skey'[t] = skey[t] /\ csize'[t] = csize[t],
             rd'[s] <= src[s].len, spc'[s] # "start",
             spc'[s] = "loop" =>
               /\ skey'[s] \in Keys /\ ValidChunkSize(csize'[s])
               /\ spc[s] = "start" /\ rd'[s] = rd[s]
      PROVE  IInv'
  <2>1. OpenerInv'
    BY <1>3, SameChunksOpener
  <2>2. MediumInv'
    BY <1>1, <1>3 DEF MediumInv, WasSealed
  <2>3. ASSUME NEW t \in Streams \ {s} PROVE SealerInv(t)'
    <3>1. SealerInv(t)
      BY DEF IInv
    <3> QED BY <1>3, <3>1 DEF SealerInv, ChunkInv, EndOf, ValidChunkSize
  <2>4. SealerInv(s)'
    <3>1. \A i \in 1 .. Len(chunks'[s]) : ChunkInv(s, i)'
      BY <1>1, <1>3 DEF SealerInv, ChunkInv
    <3>2. spc'[s] = "loop" =>
            /\ skey'[s] \in Keys /\ ValidChunkSize(csize'[s])
            /\ rd'[s] = EndOf(chunks'[s])
            /\ Len(chunks'[s]) < CounterMod => scnt'[s] = Len(chunks'[s])
            /\ \A i \in 1 .. Len(chunks'[s]) : ~chunks'[s][i].aad.last
      BY <1>1, <1>3 DEF SealerInv, EndOf
    <3> QED BY <1>3, <3>1, <3>2 DEF SealerInv
  <2> QED BY <1>2, <2>1, <2>2, <2>3, <2>4 DEF IInv
<1>4. CASE SealRejects(s)
  <2>1. rd[s] <= src[s].len
    BY <1>1 DEF SealerInv
  <2> QED BY <1>1, <1>3, <1>4, <2>1 DEF SealRejects, mediumVars, TypeOK
<1>5. ASSUME NEW k \in Keys, NEW n \in ChunkSizes,
             SealStart(s, k, n) \/ SealHeaderFails(s, k, n)
      PROVE  IInv'
  <2>1. /\ UNCHANGED <<chunks, src, scnt, frames, rd>> /\ UNCHANGED openVars
        /\ spc[s] = "start" /\ ValidChunkSize(n)
        /\ skey' = [skey EXCEPT ![s] = k] /\ csize' = [csize EXCEPT ![s] = n]
        /\ \/ spc' = [spc EXCEPT ![s] = "loop"]
           \/ spc' = [spc EXCEPT ![s] = "err"]
    BY <1>5 DEF SealStart, SealHeaderFails
  <2>2. rd[s] <= src[s].len
    BY <1>1 DEF SealerInv
  <2>3. /\ skey'[s] = k /\ csize'[s] = n /\ spc'[s] \in {"loop", "err"}
        /\ \A t \in Streams \ {s} : /\ spc'[t] = spc[t] /\ skey'[t] = skey[t]
                                     /\ csize'[t] = csize[t]
    BY <1>1, <2>1 DEF TypeOK
  <2> QED BY <1>3, <2>1, <2>2, <2>3
<1>6. CASE SealReadFails(s)
  <2>1. spc[s] = "loop"
    BY <1>6 DEF SealReadFails
  <2>2. rd'[s] <= src[s].len
    <3>1. rd'[s] = rd[s] + NextRead(s).n
      BY <1>1, <1>6 DEF SealReadFails, TypeOK
    <3> QED BY <1>1, <2>1, <3>1, NextChunkFacts
  <2> QED BY <1>1, <1>3, <1>6, <2>2 DEF SealReadFails, mediumVars, TypeOK
<1>7. ASSUME spc[s] = "loop",
             chunks' = [chunks EXCEPT ![s] = Append(@, NextChunk(s))],
             \/ frames' = [frames EXCEPT ![s] = Append(@, NextFrame(s))]
             \/ frames' = frames
      PROVE  MediumInv'
  <2>0. PICK c : c = NextChunk(s)
    OBVIOUS
  <2>1. /\ \A b : WasSealed(b) => WasSealed(b)'
        /\ WasSealed(c)'
    BY <1>1, <1>7, <2>0, SealedStaysSealed
  <2>2. ASSUME NEW f \in Streams, NEW i \in 1 .. Len(frames'[f])
        PROVE  \/ i \in 1 .. Len(frames[f]) /\ frames'[f][i] = frames[f][i]
               \/ frames'[f][i].body = c
    <3>1. frames \in [Streams -> Seq(Frames)]
      BY <1>1 DEF TypeOK
    <3>2. CASE frames' = frames
      BY <3>2
    <3>3. CASE frames' = [frames EXCEPT ![s] = Append(@, NextFrame(s))] /\ f = s
      <4>1. frames'[f] = Append(frames[s], NextFrame(s)) /\ frames[s] \in Seq(Frames)
        BY <3>1, <3>3
      <4>2. NextFrame(s).body = NextChunk(s)
        BY DEF NextFrame
      <4> QED BY <2>0, <3>3, <4>1, <4>2
    <3>4. CASE frames' = [frames EXCEPT ![s] = Append(@, NextFrame(s))] /\ f # s
      BY <3>1, <3>4
    <3> QED BY <1>7, <3>2, <3>3, <3>4
  <2> SUFFICES ASSUME NEW f \in Streams, NEW i \in 1 .. Len(frames'[f]),
                      frames'[f][i].body.key # BadKey
               PROVE  WasSealed(frames[f][i].body)'
    BY DEF MediumInv
  <2>3. CASE i \in 1 .. Len(frames[f]) /\ frames'[f][i] = frames[f][i]
    <3>1. WasSealed(frames[f][i].body)
      BY <1>1, <2>3 DEF MediumInv
    <3>2. PICK b : b = frames[f][i].body
      OBVIOUS
    <3>3. WasSealed(b)'
      BY <2>1, <3>1, <3>2
    <3> QED BY <2>3, <3>2, <3>3 DEF WasSealed
  <2>4. CASE frames'[f][i].body = c
    BY <2>1, <2>4 DEF WasSealed
  <2> QED BY <2>2, <2>3, <2>4
<1>8. CASE SealChunk(s)
  <2>1. \A t \in Streams : SealerInv(t)'
    <3>1. /\ spc' = [spc EXCEPT ![s] = IF EndOfInput(NextRead(s).err)
                                       THEN "ok" ELSE "loop"]
          /\ scnt' = [scnt EXCEPT ![s] = Increment(@)]
          /\ spc[s] = "loop"
      BY <1>8 DEF SealChunk
    <3>2. /\ spc'[s] # "start"
          /\ spc'[s] = "loop" => /\ ~EndOfInput(NextRead(s).err)
                                 /\ scnt'[s] = Increment(scnt[s])
          /\ \A t \in Streams \ {s} : spc'[t] = spc[t] /\ scnt'[t] = scnt[t]
      BY <1>1, <3>1 DEF TypeOK
    <3> QED BY <1>8, <3>1, <3>2, AddChunkInv DEF SealChunk
  <2>2. MediumInv'
    BY <1>7, <1>8 DEF SealChunk
  <2>3. OpenerInv'
    BY <1>8, AddChunkOpener DEF SealChunk
  <2> QED BY <1>2, <2>1, <2>2, <2>3 DEF IInv
<1>9. CASE SealWriteFails(s)
  <2>1. \A t \in Streams : SealerInv(t)'
    <3>1. /\ spc' = [spc EXCEPT ![s] = "err"]
          /\ scnt' = scnt
          /\ spc[s] = "loop"
      BY <1>9 DEF SealWriteFails
    <3>2. /\ spc'[s] = "err"
          /\ \A t \in Streams \ {s} : spc'[t] = spc[t] /\ scnt'[t] = scnt[t]
      BY <1>1, <3>1 DEF TypeOK
    <3> QED BY <1>9, <3>1, <3>2, AddChunkInv DEF SealWriteFails
  <2>2. MediumInv'
    BY <1>7, <1>9 DEF SealWriteFails
  <2>3. OpenerInv'
    BY <1>9, AddChunkOpener DEF SealWriteFails
  <2> QED BY <1>2, <2>1, <2>2, <2>3 DEF IInv
<1> QED BY <1>4, <1>5, <1>6, <1>8, <1>9 DEF Seal

\* A body that authenticates is the very next chunk of the header's stream:
\* prefix, counter and flag leave it no other choice while the counter fits.
LEMMA AuthenticIsNext ==
  ASSUME IInv, HasFrame, Authentic
  PROVE  /\ oprefix \in Streams
         /\ Frame.body \in Bodies
         /\ Frame.body.aad.last = IsLast(Frame.len)
         /\ Frame.body.nonce.prefix = oprefix
         /\ CounterFits(oprefix) =>
              /\ Len(out) < Len(chunks[oprefix])
              /\ Frame.body = chunks[oprefix][Len(out) + 1]
<1>1. TypeOK /\ MediumInv /\ OpenerInv
  BY DEF IInv
<1>2. ofile \in Streams /\ pos \in 1 .. Len(frames[ofile]) /\ opc = "loop"
  BY <1>1 DEF HasFrame, TypeOK
<1>3. Frame \in Frames /\ Frame.body \in Bodies
  <2>1. Frame \in Frames
    BY <1>1, <1>2 DEF Frame, TypeOK
  <2> QED BY <2>1 DEF Frames
<1>4. okey \in Keys /\ okey # BadKey
  BY <1>1, <1>2, StreamAssumption DEF OpenerInv
<1>5. /\ Frame.body.key = okey
      /\ Frame.body.nonce.prefix = oprefix /\ Frame.body.nonce.counter = ocnt
      /\ Frame.body.aad.last = IsLast(Frame.len)
  BY DEF Authentic, GcmOpens, makeStreamNonce, streamAAD
<1>6. PICK t \in Streams : \E j \in 1 .. Len(chunks[t]) : Frame.body = chunks[t][j]
  BY <1>1, <1>2, <1>4, <1>5 DEF MediumInv, WasSealed, Frame
<1>7. PICK j \in 1 .. Len(chunks[t]) : Frame.body = chunks[t][j]
  BY <1>6
<1>8. ChunkInv(t, j)
  BY <1>7 DEF IInv, SealerInv
<1>9. t = oprefix
  BY <1>5, <1>7, <1>8 DEF ChunkInv
<1>10. ASSUME CounterFits(oprefix)
       PROVE  Len(out) < Len(chunks[oprefix]) /\ j = Len(out) + 1
  <2>1. Len(out) \in Nat /\ Len(chunks[oprefix]) \in Nat
    BY <1>1, <1>9 DEF TypeOK
  <2>2. /\ Len(out) <= Len(chunks[oprefix])
        /\ \A i \in 1 .. Len(out) : out[i] = chunks[oprefix][i] /\ ~out[i].aad.last
        /\ Len(out) < CounterMod => ocnt = Len(out)
    BY <1>1, <1>2, <1>9, <1>10 DEF OpenerInv
  <2>3. Len(chunks[oprefix]) <= CounterMod /\ CounterMod \in Nat \ {0}
    BY <1>10, StreamAssumption DEF CounterFits
  <2>4. ocnt = j - 1
    BY <1>5, <1>7, <1>8, <1>9, <2>1, <2>3 DEF ChunkInv
  <2>5. Len(out) # CounterMod
    <3> SUFFICES ASSUME Len(out) = CounterMod PROVE FALSE
      OBVIOUS
    <3>1. Len(chunks[oprefix]) = CounterMod /\ CounterMod \in 1 .. Len(out)
      BY <2>1, <2>2, <2>3
    <3>2. chunks[oprefix][CounterMod].aad.last
      BY <1>10, <3>1 DEF CounterFits
    <3> QED BY <2>2, <3>1, <3>2
  <2>6. ocnt = Len(out)
    BY <2>1, <2>2, <2>3, <2>5
  <2> QED BY <1>7, <1>9, <2>1, <2>4, <2>6
<1> QED BY <1>3, <1>5, <1>7, <1>9, <1>10

\* Appending that chunk, or the first part of it, keeps the output in order.
LEMMA AppendInOrder ==
  ASSUME IInv, HasFrame, Authentic, UNCHANGED <<oprefix, chunks>>,
         NEW b, out' = Append(out, b),
         b.from = Frame.body.from, b.nonce = Frame.body.nonce
  PROVE  DeliveredInOrder'
<1>1. TypeOK /\ OpenerInv /\ opc = "loop"
  BY DEF IInv, HasFrame
<1>2. out \in Seq(Bodies) /\ Len(out) \in Nat
  BY <1>1 DEF TypeOK
<1>3. /\ Len(out') = Len(out) + 1
      /\ out'[Len(out) + 1] = b
      /\ \A i \in 1 .. Len(out) : out'[i] = out[i]
  BY <1>2
<1>4. oprefix \in Streams /\ b.nonce.prefix = oprefix
  BY AuthenticIsNext
<1> SUFFICES ASSUME CounterFits(oprefix), NEW i \in 1 .. Len(out) + 1
             PROVE  /\ out'[i].nonce.prefix = oprefix
                    /\ out'[i].from = IF i = 1 THEN 0 ELSE out'[i - 1].to
  BY <1>3 DEF DeliveredInOrder, CounterFits
<1>5. CASE i \in 1 .. Len(out)
  <2>1. /\ out[i].nonce.prefix = oprefix
        /\ out[i].from = IF i = 1 THEN 0 ELSE out[i - 1].to
    BY <1>1, <1>4, <1>5 DEF OpenerInv, DeliveredInOrder
  <2>2. i # 1 => out'[i - 1] = out[i - 1]
    BY <1>2, <1>3, <1>5
  <2> QED BY <1>3, <1>5, <2>1, <2>2
<1>6. CASE i = Len(out) + 1
  <2>1. Len(out) < Len(chunks[oprefix]) /\ Frame.body = chunks[oprefix][i]
    BY <1>6, AuthenticIsNext
  <2>2. Len(chunks[oprefix]) \in Nat
    BY <1>1, <1>4 DEF TypeOK
  <2>3. ChunkInv(oprefix, i)
    BY <1>2, <1>4, <1>6, <2>1, <2>2 DEF IInv, SealerInv
  <2>4. b.from = IF i = 1 THEN 0 ELSE chunks[oprefix][i - 1].to
    BY <2>1, <2>3 DEF ChunkInv
  <2>5. i # 1 => out'[i - 1] = chunks[oprefix][i - 1]
    BY <1>1, <1>2, <1>3, <1>4, <1>6 DEF OpenerInv
  <2> QED BY <1>3, <1>4, <1>6, <2>4, <2>5
<1> QED BY <1>2, <1>5, <1>6

\* An iteration of OpenStream that delivers a chunk preserves it: the chunk
\* that opened is the one that follows what was delivered.
LEMMA OpenChunkInv ==
  ASSUME IInv, OpenChunk
  PROVE  OpenerInv'
<1>1. TypeOK /\ OpenerInv /\ opc = "loop" /\ HasFrame /\ Authentic
  BY DEF IInv, OpenChunk, HasFrame
<1>2. /\ out \in Seq(Bodies) /\ Len(out) \in Nat /\ ocnt \in 0 .. CounterMod - 1
  BY <1>1 DEF TypeOK
<1>3. UNCHANGED <<okey, oprefix, chunks>>
  BY DEF OpenChunk, sealVars
<1> DEFINE b == Frame.body
<1>4. /\ out' = Append(out, b)
      /\ Len(out') = Len(out) + 1
      /\ out'[Len(out) + 1] = b
      /\ \A i \in 1 .. Len(out) : out'[i] = out[i]
  BY <1>2 DEF OpenChunk
<1>5. /\ oprefix \in Streams /\ b.aad.last = IsLast(Frame.len)
      /\ CounterFits(oprefix) => /\ Len(out) < Len(chunks[oprefix])
                                 /\ b = chunks[oprefix][Len(out) + 1]
  BY <1>1, AuthenticIsNext
<1>6. DeliveredInOrder'
  BY <1>1, <1>3, <1>4, AppendInOrder
<1>7. \/ IsLast(Frame.len) /\ opc' = "done" /\ res' = "nil"
      \/ ~IsLast(Frame.len) /\ opc' = "loop" /\ res' = "none"
  BY <1>1 DEF OpenChunk, Return, OpenerInv
<1> HIDE DEF b
<1>8. opc' = "loop" =>
        /\ okey' \in Keys
        /\ Len(out') < CounterMod => ocnt' = Len(out')
  <2>1. ocnt' = Increment(ocnt)
    BY DEF OpenChunk
  <2>2. Len(out) < CounterMod => ocnt = Len(out)
    BY <1>1 DEF OpenerInv
  <2>3. okey' \in Keys
    BY <1>1, <1>3 DEF OpenerInv
  <2>4. ocnt + 1 < CounterMod => Increment(ocnt) = ocnt + 1
    BY <1>2, IncrementFacts
  <2>5. Len(out) + 1 < CounterMod => ocnt' = Len(out) + 1
    BY <1>2, <2>1, <2>2, <2>4, StreamAssumption
  <2> QED BY <1>4, <2>3, <2>5
<1>9. ASSUME CounterFits(oprefix)
      PROVE  /\ Len(out') <= Len(chunks[oprefix])
             /\ \A i \in 1 .. Len(out') : out'[i] = chunks[oprefix][i]
             /\ opc' = "loop" => \A i \in 1 .. Len(out') : ~out'[i].aad.last
             /\ res' = "nil" => out' # <<>> /\ out'[Len(out')].aad.last
  <2>1. /\ \A i \in 1 .. Len(out) : out[i] = chunks[oprefix][i]
        /\ \A i \in 1 .. Len(out) : ~out[i].aad.last
    BY <1>1, <1>5, <1>9 DEF OpenerInv
  <2>2. Len(chunks[oprefix]) \in Nat
    BY <1>1, <1>5 DEF TypeOK
  <2>3. Len(out') <= Len(chunks[oprefix])
    BY <1>2, <1>4, <1>5, <1>9, <2>2
  <2>4. ASSUME NEW i \in 1 .. Len(out')
        PROVE  /\ out'[i] = chunks[oprefix][i]
               /\ opc' = "loop" => ~out'[i].aad.last
    <3>1. CASE i \in 1 .. Len(out)
      BY <1>4, <2>1, <3>1
    <3>2. CASE i = Len(out) + 1
      BY <1>4, <1>5, <1>7, <1>9, <3>2
    <3> QED BY <1>2, <1>4, <3>1, <3>2
  <2>5. res' = "nil" => out' # <<>> /\ out'[Len(out')].aad.last
    BY <1>2, <1>4, <1>5, <1>7
  <2> QED BY <2>3, <2>4, <2>5
<1>10. oprefix' \in Streams /\ oprefix' # NoStream
       /\ (CounterFits(oprefix)' <=> CounterFits(oprefix))
  BY <1>3, <1>5, StreamAssumption DEF CounterFits
<1> QED BY <1>3, <1>6, <1>7, <1>8, <1>9, <1>10 DEF OpenerInv

\* All of OpenStream's steps preserve the inductive invariant.
LEMMA OpenInv ==
  ASSUME IInv, Open
  PROVE  IInv'
<1>1. TypeOK /\ OpenerInv /\ MediumInv
  BY DEF IInv
<1>2. TypeOK'
  BY <1>1, OpenType
<1>3. UNCHANGED <<sealVars, frames>>
  BY DEF Open, OpenStep, OpenStart, OpenHeaderFails, OpenChunk, OpenWriteFails,
         OpenTampered, OpenShortBody, OpenTruncated, OpenReadFails, mediumVars
<1>4. \A s \in Streams : SealerInv(s)'
  BY <1>3 DEF IInv, SealerInv, ChunkInv, EndOf, ValidChunkSize, sealVars
<1>5. MediumInv'
  BY <1>1, <1>3 DEF MediumInv, WasSealed, sealVars
<1>6. chunks' = chunks /\ \A s : CounterFits(s)' <=> CounterFits(s)
  BY <1>3 DEF sealVars, CounterFits
<1>7. ASSUME NEW f \in Streams, NEW k \in Keys \cup {BadKey}, OpenStart(f, k)
      PROVE  OpenerInv'
  <2>1. out = <<>> /\ res = "none" /\ oprefix = NoStream
    BY <1>1, <1>7 DEF OpenStart, OpenerInv
  <2>2. out' = <<>> /\ ocnt' = ocnt
    BY <1>7, <2>1 DEF OpenStart
  <2>3. DeliveredInOrder'
    BY <2>2 DEF DeliveredInOrder
  <2>4. \/ opc' = "done" /\ res' # "nil" /\ oprefix' = NoStream
        \/ opc' = "loop" /\ res' = "none" /\ okey' \in Keys
    BY <1>7, <2>1 DEF OpenStart, Return
  <2>5. ocnt = 0
    BY <1>1, <1>7 DEF OpenStart, OpenerInv
  <2>6. \A t \in Streams : Len(chunks[t]) \in Nat
    BY <1>1 DEF TypeOK
  <2> QED BY <1>2, <1>6, <2>2, <2>3, <2>4, <2>5, <2>6, StreamAssumption
          DEF OpenerInv, TypeOK
<1>8. ASSUME OpenWriteFails PROVE OpenerInv'
  <2>1. PICK m \in Frame.body.from .. Frame.body.to :
               out' = Append(out, [Frame.body EXCEPT !.to = m])
    BY <1>8 DEF OpenWriteFails
  <2>2. HasFrame /\ Authentic /\ UNCHANGED <<oprefix, chunks>>
    BY <1>6, <1>8 DEF OpenWriteFails
  <2>3. Frame.body \in Bodies
    BY <2>2, AuthenticIsNext
  <2>4. /\ [Frame.body EXCEPT !.to = m].from = Frame.body.from
        /\ [Frame.body EXCEPT !.to = m].nonce = Frame.body.nonce
    BY <2>3 DEF Bodies
  <2>5. DeliveredInOrder'
    BY <2>1, <2>2, <2>4, AppendInOrder
  <2>6. opc' = "done" /\ res' = "ioErr"
    BY <1>8 DEF OpenWriteFails, Return
  <2>7. opc' # "idle" /\ opc' # "loop" /\ res' # "nil"
    BY <2>6
  <2> QED BY <2>5, <2>7 DEF OpenerInv
<1>9. ASSUME \/ OpenTampered \/ OpenShortBody \/ OpenTruncated \/ OpenReadFails
             \/ \E f \in Streams, k \in Keys : OpenHeaderFails(f, k)
      PROVE  OpenerInv'
  <2>1. opc' = "done" /\ res' # "nil" /\ UNCHANGED <<oprefix, out>>
    BY <1>9 DEF OpenTampered, OpenShortBody, OpenTruncated, OpenReadFails,
                OpenHeaderFails, Return
  <2>2. DeliveredInOrder'
    BY <1>1, <1>6, <2>1 DEF OpenerInv, DeliveredInOrder
  <2>3. opc' # "idle" /\ opc' # "loop"
    BY <2>1
  <2> QED BY <2>1, <2>2, <2>3 DEF OpenerInv
<1>10. OpenerInv'
  BY <1>7, <1>8, <1>9, OpenChunkInv DEF Open, OpenStep
<1> QED BY <1>2, <1>4, <1>5, <1>10 DEF IInv

\* Faults of the medium preserve it: they only use recorded frames.
LEMMA MediumStepInv ==
  ASSUME IInv, Medium
  PROVE  IInv'
<1>1. TypeOK /\ MediumInv
  BY DEF IInv
<1>2. TypeOK'
  BY <1>1, MediumType
<1>3. UNCHANGED <<sealVars, openVars>>
  BY DEF Medium, Truncate, RemoveFrame, ChangeLen, GarbleFrame, ReplaceFrame,
         InsertFrame, ChangeHeader, Fault
<1>4. \A s \in Streams : SealerInv(s)'
  BY <1>3 DEF IInv, SealerInv, ChunkInv, EndOf, ValidChunkSize, sealVars
<1>5. OpenerInv'
  BY <1>3, SameChunksOpener DEF sealVars
<1>6. chunks' = chunks /\ \A b : WasSealed(b)' <=> WasSealed(b)
  BY <1>3 DEF WasSealed, sealVars
<1> DEFINE Good(fr) == fr.body.key # BadKey => WasSealed(fr.body)
<1>7. \A g \in Streams : \A m \in 1 .. Len(frames[g]) : Good(frames[g][m])
  BY <1>1 DEF MediumInv
<1>8. ASSUME NEW f \in Streams, NEW q \in Seq(Frames),
             frames' = [frames EXCEPT ![f] = q],
             \A m \in 1 .. Len(q) : Good(q[m])
      PROVE  MediumInv'
  <2>1. frames'[f] = q /\ \A g \in Streams \ {f} : frames'[g] = frames[g]
    BY <1>1, <1>8 DEF TypeOK
  <2>2. \A g \in Streams : \A m \in 1 .. Len(frames'[g]) : Good(frames'[g][m])
    BY <1>7, <1>8, <2>1
  <2> QED BY <1>6, <2>2 DEF MediumInv, WasSealed
<1> HIDE DEF Good
<1>9. PICK f \in Streams :
        \/ \E i \in Unread(f) .. Len(frames[f]) :
             \/ Truncate(f, i) \/ RemoveFrame(f, i) \/ ChangeLen(f, i)
             \/ GarbleFrame(f, i)
             \/ \E t \in Streams : \E j \in 1 .. Len(chunks[t]) :
                  ReplaceFrame(f, i, t, j)
        \/ \E i \in Unread(f) .. Len(frames[f]) + 1, t \in Streams :
             \E j \in 1 .. Len(chunks[t]) : InsertFrame(f, i, t, j)
        \/ ChangeHeader(f)
  BY DEF Medium
<1> DEFINE q == frames[f]
<1>10. q \in Seq(Frames) /\ Unread(f) \in Nat \ {0}
       /\ \A m \in 1 .. Len(q) : Good(q[m]) /\ q[m] \in Frames
  BY <1>1, <1>7 DEF TypeOK, Unread
<1>11. ASSUME NEW i \in 1 .. Len(q), Truncate(f, i) PROVE MediumInv'
  <2>1. /\ SubSeq(q, 1, i - 1) \in Seq(Frames)
        /\ \A m \in 1 .. Len(SubSeq(q, 1, i - 1)) :
             m \in 1 .. Len(q) /\ SubSeq(q, 1, i - 1)[m] = q[m]
    BY <1>10
  <2> QED BY <1>8, <1>10, <1>11, <2>1 DEF Truncate
<1>12. ASSUME NEW i \in 1 .. Len(q), RemoveFrame(f, i) PROVE MediumInv'
  <2>1. /\ RemoveAt(q, i) \in Seq(Frames)
        /\ \A k \in 1 .. Len(RemoveAt(q, i)) :
             \E m \in 1 .. Len(q) : RemoveAt(q, i)[k] = q[m]
    BY <1>10, RemoveType
  <2> QED BY <1>8, <1>10, <1>12, <2>1 DEF RemoveFrame
<1>13. ASSUME NEW i \in 1 .. Len(q), NEW e \in Frames, Good(e),
              frames' = [frames EXCEPT ![f] = [q EXCEPT ![i] = e]]
       PROVE  MediumInv'
  <2>1. /\ [q EXCEPT ![i] = e] \in Seq(Frames)
        /\ Len([q EXCEPT ![i] = e]) = Len(q)
        /\ \A m \in 1 .. Len(q) : [q EXCEPT ![i] = e][m] = IF m = i THEN e ELSE q[m]
    BY <1>10
  <2> QED BY <1>8, <1>10, <1>13, <2>1
<1>14. ASSUME NEW i \in 1 .. Len(q), ChangeLen(f, i) PROVE MediumInv'
  <2>1. PICK v \in 0 .. 2 * LastBit - 1 : frames' = [frames EXCEPT ![f][i].len = v]
    BY <1>14 DEF ChangeLen
  <2>2. v \in Nat
    BY StreamAssumption
  <2>3. [q[i] EXCEPT !.len = v] \in Frames /\ Good([q[i] EXCEPT !.len = v])
    <3>1. q[i] \in Frames /\ Good(q[i])
      BY <1>10
    <3>2. /\ [q[i] EXCEPT !.len = v] \in Frames
          /\ [q[i] EXCEPT !.len = v].body = q[i].body
      BY <2>2, <3>1, FrameUpdate
    <3> QED BY <3>1, <3>2 DEF Good
  <2>4. frames' = [frames EXCEPT ![f] = [q EXCEPT ![i] = [q[i] EXCEPT !.len = v]]]
    BY <2>1
  <2> QED BY <1>13, <2>3, <2>4
<1>15. ASSUME NEW i \in 1 .. Len(q), GarbleFrame(f, i) PROVE MediumInv'
  <2>1. /\ [q[i] EXCEPT !.body.key = BadKey] \in Frames
        /\ Good([q[i] EXCEPT !.body.key = BadKey])
    BY <1>10, FrameUpdate DEF Good
  <2>2. frames' = [frames EXCEPT ![f] = [q EXCEPT ![i] = [q[i] EXCEPT !.body.key = BadKey]]]
    BY <1>15 DEF GarbleFrame
  <2> QED BY <1>13, <2>1, <2>2
<1>16. ASSUME NEW t \in Streams, NEW j \in 1 .. Len(chunks[t])
       PROVE  Recorded(t, j) \in Frames /\ Good(Recorded(t, j))
  BY <1>1, RecordedType DEF Good, WasSealed
<1>17. ASSUME NEW i \in 1 .. Len(q), NEW t \in Streams,
              NEW j \in 1 .. Len(chunks[t]), ReplaceFrame(f, i, t, j)
       PROVE  MediumInv'
  BY <1>13, <1>16, <1>17 DEF ReplaceFrame, ReplaceAt
<1>18. ASSUME NEW i \in 1 .. Len(q) + 1, NEW t \in Streams,
              NEW j \in 1 .. Len(chunks[t]), InsertFrame(f, i, t, j)
       PROVE  MediumInv'
  <2> DEFINE r == InsertAt(q, i, Recorded(t, j))
  <2>1. /\ r \in Seq(Frames)
        /\ \A m \in 1 .. Len(r) : \/ r[m] = Recorded(t, j)
                                  \/ \E n \in 1 .. Len(q) : r[m] = q[n]
    BY <1>10, <1>16, InsertType
  <2>2. frames' = [frames EXCEPT ![f] = r]
    BY <1>18 DEF InsertFrame
  <2> HIDE DEF r
  <2>3. \A m \in 1 .. Len(r) : Good(r[m])
    BY <1>10, <1>16, <2>1
  <2> QED BY <1>8, <2>1, <2>2, <2>3
<1>19. ASSUME ChangeHeader(f) PROVE MediumInv'
  BY <1>1, <1>6, <1>19 DEF ChangeHeader, MediumInv, WasSealed
<1>20. /\ \A i \in Unread(f) .. Len(q) : i \in 1 .. Len(q)
       /\ \A i \in Unread(f) .. Len(q) + 1 : i \in 1 .. Len(q) + 1
  <2>1. Len(q) \in Nat
    BY <1>10
  <2> QED BY <1>10, <2>1, UnreadIsWithin
<1>21. MediumInv'
  BY <1>9, <1>11, <1>12, <1>14, <1>15, <1>17, <1>18, <1>19, <1>20
<1> QED BY <1>2, <1>4, <1>5, <1>21 DEF IInv

\* The inductive invariant holds in every reachable state.
LEMMA Inductive == Spec => []IInv
<1>1. Init => IInv
  BY InitInv
<1>2. IInv /\ [Next]_vars => IInv'
  <2> SUFFICES ASSUME IInv, [Next]_vars PROVE IInv'
    OBVIOUS
  <2>1. CASE Next
    BY <2>1, SealInv, OpenInv, MediumStepInv DEF Next
  <2>2. CASE UNCHANGED vars
    <3>1. TypeOK'
      BY <2>2 DEF vars, sealVars, mediumVars, openVars, IInv, TypeOK
    <3>2. \A s \in Streams : SealerInv(s)'
      BY <2>2 DEF vars, sealVars, IInv, SealerInv, ChunkInv, EndOf, ValidChunkSize
    <3>3. MediumInv'
      BY <2>2 DEF vars, sealVars, mediumVars, IInv, MediumInv, WasSealed
    <3>4. OpenerInv'
      BY <2>2, SameChunksOpener DEF vars, sealVars
    <3> QED BY <3>1, <3>2, <3>3, <3>4 DEF IInv
  <2> QED BY <2>1, <2>2
<1> QED BY <1>1, <1>2, PTL DEF Spec

-----------------------------------------------------------------------------
(* The theorems                                                            *)

\* Whatever the medium does to the stored stream, OpenStream's output is at
\* every moment the beginning of one stream's source.
THEOREM OutputInOrder == Spec => []DeliveredInOrder
<1>1. IInv => DeliveredInOrder
  BY DEF IInv, OpenerInv
<1> QED BY <1>1, Inductive, PTL

\* OpenStream returns nil only when it has written the whole source: a
\* truncated stream is never taken for a complete one.
THEOREM NilMeansComplete == Spec => []SuccessMeansComplete
<1>1. IInv => SuccessMeansComplete
  <2> SUFFICES ASSUME IInv, res = "nil", oprefix \in Streams, CounterFits(oprefix)
               PROVE  /\ out # <<>>
                      /\ out[Len(out)].to = src[oprefix].len
                      /\ src[oprefix].end # "ioErr"
    BY DEF SuccessMeansComplete, Last
  <2>1. out \in Seq(Bodies) /\ chunks[oprefix] \in Seq(Bodies)
    BY DEF IInv, TypeOK
  <2>2. /\ out # <<>> /\ out[Len(out)].aad.last
        /\ Len(out) <= Len(chunks[oprefix])
        /\ \A i \in 1 .. Len(out) : out[i] = chunks[oprefix][i]
    BY DEF IInv, OpenerInv
  <2>3. Len(out) \in 1 .. Len(out) /\ Len(out) \in 1 .. Len(chunks[oprefix])
    BY <2>1, <2>2
  <2>4. ChunkInv(oprefix, Len(out))
    BY <2>3 DEF IInv, SealerInv
  <2> QED BY <2>2, <2>3, <2>4 DEF ChunkInv
<1> QED BY <1>1, Inductive, PTL

\* Under one key no nonce is used for two chunks, of one stream or of two, as
\* long as no stream outgrows its 32-bit counter.
THEOREM NoncesUnique == Spec => []NonceNeverReused
<1>1. IInv => NonceNeverReused
  <2> SUFFICES ASSUME IInv, NEW s \in Streams, NEW t \in Streams,
                      NEW i \in 1 .. Len(chunks[s]), NEW j \in 1 .. Len(chunks[t]),
                      CounterFits(s), chunks[s][i].nonce = chunks[t][j].nonce
               PROVE  s = t /\ i = j
    BY DEF NonceNeverReused
  <2>1. ChunkInv(s, i) /\ ChunkInv(t, j)
    BY DEF IInv, SealerInv
  <2>2. s = t
    BY <2>1 DEF ChunkInv
  <2>3. Len(chunks[s]) \in Nat /\ Len(chunks[s]) <= CounterMod
    BY DEF IInv, TypeOK, CounterFits
  <2>4. i <= CounterMod /\ j <= CounterMod
    BY <2>2, <2>3, StreamAssumption
  <2> QED BY <2>1, <2>2, <2>4 DEF ChunkInv
<1> QED BY <1>1, Inductive, PTL
-----------------------------------------------------------------------------
(* Stream implements Delivery                                              *)

\* Every chunk but the last holds at least one unit, so chunk i ends at i or
\* later: the number of chunks is bounded by the source's length.
SizeInv ==
  \A s \in Streams : \A i \in 1 .. Len(chunks[s]) :
    ~chunks[s][i].aad.last => i <= chunks[s][i].to

\* Adding a sealer's next chunk keeps SizeInv: every chunk but the last holds a byte.
LEMMA AddChunkSize ==
  ASSUME IInv, SizeInv, NEW s \in Streams, spc[s] = "loop",
         NextRead(s).err = "nil" \/ EndOfInput(NextRead(s).err),
         chunks' = [chunks EXCEPT ![s] = Append(@, NextChunk(s))]
  PROVE  SizeInv'
<1> DEFINE q == chunks[s]
           c == NextChunk(s)
<1>1. TypeOK /\ SealerInv(s)
  BY DEF IInv
<1>2. q \in Seq(Bodies) /\ Len(q) \in Nat /\ rd[s] \in Nat /\ csize[s] \in Nat
  BY <1>1 DEF TypeOK
<1>3. /\ \A t \in Streams : \A i \in 1 .. Len(chunks[t]) :
           i \in 1 .. Len(chunks'[t]) /\ chunks'[t][i] = chunks[t][i]
      /\ Len(chunks'[s]) = Len(q) + 1
      /\ chunks'[s][Len(q) + 1] = c
      /\ \A t \in Streams \ {s} : chunks'[t] = chunks[t]
  BY <1>1, SealedStaysSealed
<1>4. Len(q) <= rd[s]
  <2>1. rd[s] = EndOf(q) /\ \A i \in 1 .. Len(q) : ~q[i].aad.last
    BY <1>1 DEF SealerInv
  <2>2. CASE q = <<>>
    BY <1>2, <2>2
  <2>3. CASE q # <<>>
    <3>1. Len(q) \in 1 .. Len(q)
      BY <1>2, <2>3
    <3>2. Len(q) <= q[Len(q)].to
      BY <2>1, <3>1 DEF SizeInv
    <3> QED BY <2>1, <2>3, <3>2 DEF EndOf
  <2> QED BY <2>2, <2>3
<1>5. ~c.aad.last => Len(q) + 1 <= c.to
  <2> SUFFICES ASSUME ~c.aad.last PROVE Len(q) + 1 <= c.to
    OBVIOUS
  <2>1. /\ c.aad.last = EndOfInput(NextRead(s).err)
        /\ c.to = rd[s] + NextRead(s).n
    BY <1>1, NextChunkFacts
  <2>2. NextRead(s).err = "nil"
    BY <2>1
  <2>3. src[s].end \in SourceEnds
    <3>1. src[s] \in Sources
      BY <1>1 DEF TypeOK
    <3> QED BY <3>1, StreamAssumption
  <2>4. NextRead(s).n = csize[s]
    BY <2>2, <2>3 DEF NextRead, ReadFull, SourceEnds
  <2>5. csize[s] >= 1
    BY <1>1, <1>2 DEF SealerInv, ValidChunkSize
  <2> QED BY <1>2, <1>4, <2>1, <2>4, <2>5
<1> HIDE DEF q, c
<1>6. ASSUME NEW t \in Streams, NEW i \in 1 .. Len(chunks'[t]),
             ~chunks'[t][i].aad.last
      PROVE  i <= chunks'[t][i].to
  <2>1. CASE t = s /\ i = Len(q) + 1
    BY <1>3, <1>5, <1>6, <2>1
  <2>2. CASE t # s
    BY <1>3, <1>6, <2>2 DEF SizeInv
  <2>3. CASE t = s /\ i # Len(q) + 1
    <3>1. i \in 1 .. Len(chunks[t])
      BY <1>2, <1>3, <2>3 DEF q
    <3> QED BY <1>3, <1>6, <3>1 DEF SizeInv
  <2> QED BY <2>1, <2>2, <2>3
<1> QED BY <1>6 DEF SizeInv

\* Every step preserves SizeInv.
LEMMA SizeStep ==
  ASSUME IInv, SizeInv, [Next]_vars
  PROVE  SizeInv'
<1>1. CASE chunks' = chunks
  BY <1>1 DEF SizeInv
<1>2. CASE \E s \in Streams : SealChunk(s) \/ SealWriteFails(s)
  BY <1>2, AddChunkSize DEF SealChunk, SealWriteFails
<1>3. CASE Open
  BY <1>1, <1>3 DEF Open, OpenStep, OpenStart, OpenHeaderFails, OpenChunk, OpenWriteFails,
     OpenTampered, OpenShortBody, OpenTruncated, OpenReadFails, sealVars
<1>4. CASE Medium
  BY <1>1, <1>4 DEF Medium, Truncate, RemoveFrame, ChangeLen, GarbleFrame,
     ReplaceFrame, InsertFrame, ChangeHeader, Fault, sealVars
<1>5. CASE \E s \in Streams : Seal(s) /\ ~(SealChunk(s) \/ SealWriteFails(s))
  BY <1>1, <1>5 DEF Seal, SealRejects, SealStart, SealHeaderFails, SealReadFails
<1>6. CASE UNCHANGED vars
  BY <1>1, <1>6 DEF vars, sealVars
<1> QED BY <1>2, <1>3, <1>4, <1>5, <1>6 DEF Next

\* With short sources no counter ever wraps.
LEMMA AllFit ==
  ASSUME ShortSources, IInv, SizeInv, NEW s \in Streams
  PROVE  CounterFits(s)
<1> DEFINE n == Len(chunks[s])
<1>1. chunks[s] \in Seq(Bodies) /\ n \in Nat /\ src[s].len \in Nat
  <2>1. src[s] \in Sources
    BY DEF IInv, TypeOK
  <2>2. src[s].len \in Nat
    BY <2>1, StreamAssumption
  <2> QED BY <2>2 DEF IInv, TypeOK
<1>2. src[s].len < CounterMod /\ CounterMod \in Nat \ {0}
  BY StreamAssumption DEF ShortSources, IInv, TypeOK
<1>3. ASSUME NEW i \in 1 .. n, ~chunks[s][i].aad.last PROVE i < CounterMod
  <2>1. ChunkInv(s, i) /\ i <= chunks[s][i].to
    BY <1>3 DEF IInv, SealerInv, SizeInv
  <2>2. chunks[s][i].to \in Nat /\ chunks[s][i].to <= src[s].len
    <3>1. chunks[s][i] \in Bodies
      BY <1>1
    <3> QED BY <2>1, <3>1 DEF ChunkInv, Bodies
  <2> QED BY <1>1, <1>2, <2>1, <2>2
<1>4. CASE n <= 1
  <2>1. CASE n = 1 /\ ~chunks[s][1].aad.last
    BY <1>1, <1>2, <1>3, <2>1 DEF CounterFits
  <2>2. CASE n = 0
    BY <1>2, <2>2 DEF CounterFits
  <2>3. CASE n = 1 /\ chunks[s][1].aad.last
    <3>1. n <= CounterMod
      BY <1>2, <2>3
    <3>2. n = CounterMod => chunks[s][CounterMod].aad.last
      BY <2>3
    <3> QED BY <3>1, <3>2 DEF CounterFits
  <2>4. n = 0 \/ n = 1
    <3>1. n \in Nat /\ n <= 1
      BY <1>1, <1>4
    <3> HIDE DEF n
    <3> QED BY <3>1
  <2> QED BY <2>1, <2>2, <2>3, <2>4
<1>5. CASE n > 1
  <2>1. n - 1 \in 1 .. n /\ n \in 1 .. n /\ n - 1 # n
    BY <1>1, <1>5
  <2>2. ChunkInv(s, n - 1)
    BY <2>1 DEF IInv, SealerInv
  <2>3. ~chunks[s][n - 1].aad.last
    BY <2>1, <2>2 DEF ChunkInv
  <2>4. n - 1 < CounterMod
    BY <1>3, <2>1, <2>3
  <2>5. chunks[s][n].aad.last \/ n < CounterMod
    BY <1>3, <2>1
  <2> QED BY <1>1, <1>2, <2>4, <2>5 DEF CounterFits
<1> QED BY <1>1, <1>4, <1>5

\* What the opener has delivered so far ends inside the chosen source.
LEMMA ReceivedFacts ==
  ASSUME ShortSources, IInv, SizeInv, opc = "loop", oprefix \in Streams
  PROVE  /\ src[oprefix].len \in Nat
         /\ Received \in 0 .. src[oprefix].len
         /\ Received = IF Len(out) = 0 THEN 0 ELSE chunks[oprefix][Len(out)].to
         /\ Len(out) \in Nat
<1>1. /\ out \in Seq(Bodies) /\ chunks[oprefix] \in Seq(Bodies)
      /\ src[oprefix] \in Sources
  BY DEF IInv, TypeOK
<1>2. src[oprefix].len \in Nat
  BY <1>1, StreamAssumption
<1>3. CounterFits(oprefix)
  BY AllFit
<1>4. /\ Len(out) <= Len(chunks[oprefix])
      /\ \A i \in 1 .. Len(out) : out[i] = chunks[oprefix][i]
  BY <1>3 DEF IInv, OpenerInv
<1>5. CASE out = <<>>
  BY <1>1, <1>2, <1>5 DEF Received
<1>6. CASE out # <<>>
  <2>1. Len(out) \in 1 .. Len(out) /\ Len(out) \in 1 .. Len(chunks[oprefix])
    BY <1>1, <1>4, <1>6
  <2>2. ChunkInv(oprefix, Len(out)) /\ chunks[oprefix][Len(out)] \in Bodies
    BY <1>1, <2>1 DEF IInv, SealerInv
  <2>3. Received = chunks[oprefix][Len(out)].to
    BY <1>4, <1>6, <2>1 DEF Received, Last
  <2>4. Received \in 0 .. src[oprefix].len
    <3>1. /\ chunks[oprefix][Len(out)].to \in Nat
          /\ chunks[oprefix][Len(out)].to <= src[oprefix].len
      BY <2>2 DEF ChunkInv, Bodies
    <3> QED BY <1>2, <2>3, <3>1
  <2>5. Len(out) \in Nat /\ Len(out) # 0
    BY <1>1, <2>1
  <2> QED BY <1>2, <2>3, <2>4, <2>5
<1> QED BY <1>5, <1>6

\* ... and the chunk that authenticates next continues it.
LEMMA NextPieceFacts ==
  ASSUME ShortSources, IInv, SizeInv, HasFrame, Authentic
  PROVE  /\ oprefix \in Streams
         /\ Frame.body \in Bodies
         /\ Frame.body.from = Received
         /\ Frame.body.from <= Frame.body.to
         /\ Frame.body.to <= src[oprefix].len
         /\ IsLast(Frame.len) => /\ Frame.body.to = src[oprefix].len
                                 /\ src[oprefix].end # "ioErr"
<1>1. /\ oprefix \in Streams /\ Frame.body \in Bodies
      /\ Frame.body.aad.last = IsLast(Frame.len) /\ opc = "loop"
  BY AuthenticIsNext DEF HasFrame
<1>2. CounterFits(oprefix)
  BY <1>1, AllFit
<1>3. /\ Len(out) < Len(chunks[oprefix])
      /\ Frame.body = chunks[oprefix][Len(out) + 1]
  BY <1>2, AuthenticIsNext
<1>4. /\ Received = IF Len(out) = 0 THEN 0 ELSE chunks[oprefix][Len(out)].to
      /\ Len(out) \in Nat
  BY <1>1, ReceivedFacts
<1>5. Len(chunks[oprefix]) \in Nat
  BY <1>1 DEF IInv, TypeOK
<1>6. PICK i \in 1 .. Len(chunks[oprefix]) : i = Len(out) + 1
  BY <1>3, <1>4, <1>5
<1>7. ChunkInv(oprefix, i)
  BY <1>1, <1>6 DEF IInv, SealerInv
<1>8. Frame.body.from = Received
  BY <1>3, <1>4, <1>6, <1>7 DEF ChunkInv
<1> QED BY <1>1, <1>3, <1>6, <1>7, <1>8 DEF ChunkInv

-----------------------------------------------------------------------------
\* Initial states of Stream map to initial states of Delivery.
LEMMA RefineInit == Init => D!Init
BY DEF Init, D!Init, Received, Status

\* Every step of OpenStream maps to a step of Delivery or leaves it unchanged.
LEMMA RefineOpen ==
  ASSUME ShortSources, IInv, SizeInv, Open
  PROVE  [D!Next]_(D!vars)
<1> USE DEF D!Next, D!vars
<1>1. TypeOK /\ OpenerInv /\ NoStream \notin Streams
  BY StreamAssumption DEF IInv
<1>2. UNCHANGED src
  BY DEF Open, OpenStep, OpenStart, OpenHeaderFails, OpenChunk, OpenWriteFails,
         OpenTampered, OpenShortBody, OpenTruncated, OpenReadFails, sealVars
<1>3. ASSUME NEW f \in Streams, NEW k \in Keys \cup {BadKey}, OpenStart(f, k)
      PROVE  D!Next
  <2>1. opc = "idle" /\ oprefix = NoStream /\ UNCHANGED out
    BY <1>1, <1>3 DEF OpenStart, OpenerInv
  <2>2. Status = "idle" /\ UNCHANGED Received
    BY <2>1 DEF Status, Received
  <2>3. CASE opc' = "loop"
    <3>1. oprefix' \in Streams \cup {NoStream}
      BY <1>1, <1>3, OpenType DEF TypeOK
    <3>2. Status' = "open"
      BY <2>3 DEF Status
    <3>3. D!Choose(oprefix')
      BY <1>2, <2>2, <3>2 DEF D!Choose
    <3> QED BY <3>1, <3>3
  <2>4. CASE opc' # "loop"
    <3>1. opc' = "done" /\ res' # "nil" /\ oprefix' = oprefix
      BY <1>3, <2>4 DEF OpenStart, Return
    <3>2. Status' = "failed"
      BY <3>1 DEF Status
    <3>3. Received \in D!Beginnings
      BY <1>1, <2>1 DEF D!Beginnings
    <3>4. D!Fail(Received)
      BY <1>2, <2>2, <3>1, <3>2 DEF D!Fail
    <3> QED BY <3>3, <3>4
  <2> QED BY <2>3, <2>4
<1>4. ASSUME OpenChunk PROVE D!Next
  <2>1. HasFrame /\ Authentic /\ opc = "loop" /\ oprefix' = oprefix
    BY <1>4 DEF OpenChunk, HasFrame
  <2> DEFINE b == Frame.body
  <2>2. /\ oprefix \in Streams /\ b \in Bodies /\ b.from = Received
        /\ b.from <= b.to /\ b.to <= src[oprefix].len
        /\ IsLast(Frame.len) => b.to = src[oprefix].len /\ src[oprefix].end # "ioErr"
    BY <2>1, NextPieceFacts
  <2>3. src[oprefix].len \in Nat /\ Received \in 0 .. src[oprefix].len
    BY <2>1, <2>2, ReceivedFacts
  <2>4. Received' = b.to
    <3>1. out \in Seq(Bodies) /\ out' = Append(out, b)
      BY <1>1, <1>4 DEF OpenChunk, TypeOK
    <3>2. out' # <<>> /\ out'[Len(out')] = b
      BY <3>1
    <3> QED BY <3>2 DEF Received, Last
  <2>5. Status = "open"
    BY <2>1 DEF Status
  <2>6. b.to \in D!Beginnings
    BY <2>2, <2>3 DEF D!Beginnings, Bodies
  <2>7. CASE IsLast(Frame.len)
    <3>1. Status' = "complete"
      BY <1>4, <2>7 DEF OpenChunk, Return, Status
    <3>2. D!Complete
      BY <1>2, <2>1, <2>2, <2>4, <2>5, <2>7, <3>1 DEF D!Complete
    <3> QED BY <3>2
  <2>8. CASE ~IsLast(Frame.len)
    <3>1. Status' = "open"
      BY <1>4, <2>1, <2>8 DEF OpenChunk, Status
    <3>2. D!Receive(b.to)
      BY <1>2, <2>1, <2>4, <2>5, <3>1 DEF D!Receive
    <3> QED BY <2>6, <3>2
  <2> QED BY <2>7, <2>8
<1>5. ASSUME OpenWriteFails PROVE D!Next
  <2>1. /\ HasFrame /\ Authentic /\ opc = "loop" /\ oprefix' = oprefix
        /\ opc' = "done" /\ res' = "ioErr"
    BY <1>5 DEF OpenWriteFails, HasFrame, Return
  <2>2. PICK m \in Frame.body.from .. Frame.body.to :
               out' = Append(out, [Frame.body EXCEPT !.to = m])
    BY <1>5 DEF OpenWriteFails
  <2>3. /\ oprefix \in Streams /\ Frame.body \in Bodies
        /\ Frame.body.from = Received /\ Frame.body.to <= src[oprefix].len
    BY <2>1, NextPieceFacts
  <2>4. src[oprefix].len \in Nat /\ Received \in 0 .. src[oprefix].len
    BY <2>1, <2>3, ReceivedFacts
  <2>5. Received' = m
    <3> DEFINE b == [Frame.body EXCEPT !.to = m]
    <3>1. b.to = m
      BY <2>3 DEF Bodies
    <3> HIDE DEF b
    <3>2. out \in Seq(Bodies) /\ out' = Append(out, b)
      BY <1>1, <2>2 DEF TypeOK, b
    <3>3. out' # <<>> /\ out'[Len(out')] = b
      BY <3>2
    <3> QED BY <3>1, <3>3 DEF Received, Last
  <2>6. m \in D!Beginnings
    <3>1. Frame.body.to \in Nat
      BY <2>3 DEF Bodies
    <3> QED BY <2>3, <2>4, <3>1 DEF D!Beginnings
  <2>7. Status = "open" /\ Status' = "failed"
    BY <2>1 DEF Status
  <2>8. D!Fail(m)
    BY <1>2, <2>1, <2>5, <2>7 DEF D!Fail
  <2> QED BY <2>6, <2>8
<1>6. ASSUME OpenTampered \/ OpenShortBody \/ OpenTruncated \/ OpenReadFails
      PROVE  D!Next
  <2>1. /\ opc = "loop" /\ opc' = "done" /\ res' # "nil"
        /\ UNCHANGED <<oprefix, out>>
    BY <1>6 DEF OpenTampered, OpenShortBody, OpenTruncated, OpenReadFails,
                Return, HasFrame
  <2>2. Status = "open" /\ Status' = "failed" /\ UNCHANGED Received
    BY <2>1 DEF Status, Received
  <2>3. Received \in D!Beginnings
    BY <2>1, ReceivedFacts DEF D!Beginnings
  <2>4. D!Fail(Received)
    BY <1>2, <2>1, <2>2 DEF D!Fail
  <2> QED BY <2>3, <2>4
<1>7. ASSUME NEW f \in Streams, NEW k \in Keys, OpenHeaderFails(f, k)
      PROVE  D!Next
  <2>1. /\ opc = "idle" /\ opc' = "done" /\ res' # "nil"
        /\ UNCHANGED <<oprefix, out>>
    BY <1>7 DEF OpenHeaderFails, Return
  <2>2. oprefix = NoStream
    BY <1>1, <2>1 DEF OpenerInv
  <2>3. Status = "idle" /\ Status' = "failed" /\ UNCHANGED Received
    BY <2>1 DEF Status, Received
  <2>4. Received \in D!Beginnings
    BY <1>1, <2>2 DEF D!Beginnings
  <2>5. D!Fail(Received)
    BY <1>2, <2>1, <2>3 DEF D!Fail
  <2> QED BY <2>4, <2>5
<1> HIDE DEF D!Next
<1> QED BY <1>3, <1>4, <1>5, <1>6, <1>7 DEF Open, OpenStep

\* SealStream and OpenStream implement the delivery of one source, all of it
\* or a beginning, over any medium, for sources shorter than the counter's
\* range and every value of the constants.
THEOREM StreamDelivers ==
  ASSUME ShortSources
  PROVE  Spec => Delivers
<1>1. Init => SizeInv
  BY DEF Init, SizeInv
<1>2. Spec => [](IInv /\ SizeInv)
  <2>1. IInv /\ SizeInv /\ [Next]_vars => SizeInv'
    BY SizeStep
  <2> QED BY <1>1, <2>1, Inductive, PTL DEF Spec
<1>3. IInv /\ SizeInv /\ [Next]_vars => [D!Next]_(D!vars)
  <2> SUFFICES ASSUME IInv, SizeInv, [Next]_vars PROVE [D!Next]_(D!vars)
    OBVIOUS
  <2>1. CASE Open
    BY <2>1, RefineOpen
  <2>2. ASSUME UNCHANGED <<src, oprefix, out, opc, res>> PROVE UNCHANGED D!vars
    BY <2>2 DEF D!vars, Received, Status
  <2>3. CASE Medium
    BY <2>2, <2>3 DEF Medium, Truncate, RemoveFrame, ChangeLen, GarbleFrame,
       ReplaceFrame, InsertFrame, ChangeHeader, Fault, sealVars, openVars
  <2>4. CASE \E s \in Streams : Seal(s)
    BY <2>2, <2>4 DEF Seal, SealRejects, SealStart, SealHeaderFails, SealChunk,
       SealReadFails, SealWriteFails, openVars
  <2>5. CASE UNCHANGED vars
    BY <2>2, <2>5 DEF vars, sealVars, openVars
  <2> QED BY <2>1, <2>3, <2>4, <2>5 DEF Next
<1> QED BY <1>2, <1>3, RefineInit, PTL DEF Spec, Delivers, D!Spec
-----------------------------------------------------------------------------
(* Files that were at most cut                                             *)

\* Nothing happened to the files but cuts, and failing reads and writes.
Cut == \A i \in 1 .. Len(faults) : faults[i] \in {"truncate", "io"}

\* The counter with which the chunk after the first n of stream s is sealed,
\* also when counters wrap.
CounterAfter(s, n) == IF n = 0 THEN 0 ELSE Increment(chunks[s][n].aad.counter)

\* Chunk i of stream s was sealed under the counter that was due, with the
\* key of its call, and its length leaves the flag bit free.
LinkInv(s, i) ==
  /\ chunks[s][i].key = skey[s]
  /\ chunks[s][i].aad.counter = CounterAfter(s, i - 1)
  /\ chunks[s][i].nonce = makeStreamNonce(s, chunks[s][i].aad.counter)
  /\ BodyLen(chunks[s][i]) \in 0 .. LastBit - 1

SealedInv(s) ==
  /\ spc[s] \in {"start", "loop"} => scnt[s] = CounterAfter(s, Len(chunks[s]))
  /\ spc[s] \in {"loop", "ok"} => skey[s] \in Keys
  /\ spc[s] = "ok" => chunks[s] # <<>> /\ chunks[s][Len(chunks[s])].aad.last
  /\ \A i \in 1 .. Len(chunks[s]) : LinkInv(s, i)

\* File s holds its header and its sealer's first frames, all of them if it
\* was not cut.
FileInv(s) ==
  /\ hdr[s].prefix = s /\ hdr[s].magic /\ hdr[s].version
  /\ hdr[s].whole => spc[s] # "start"
  /\ spc[s] \in {"loop", "ok"} => hdr[s].whole
  /\ Len(frames[s]) <= Len(chunks[s])
  /\ \A i \in 1 .. Len(frames[s]) : frames[s][i] = Recorded(s, i)
  /\ spc[s] \in {"start", "loop"} \/ (spc[s] = "ok" /\ faults = <<>>) =>
       Len(frames[s]) = Len(chunks[s]) /\ tail[s] = "clean"

\* The opener is in step with the sealer of the file it reads.
InStep ==
  /\ oprefix = ofile
  /\ ocnt = CounterAfter(ofile, pos - 1)
  /\ pos <= Len(frames[ofile]) + 1
  /\ \A i \in 1 .. pos - 1 : ~chunks[ofile][i].aad.last

\* It returns nil, with the whole source written, unless it was given another
\* key, the sealer failed, or something happened to the file.
Completed ==
  /\ opc = "done" /\ faults = <<>>
  /\ okey \in Keys /\ okey = skey[ofile] /\ spc[ofile] # "err"
  => res = "nil" /\ out # <<>> /\ out[Len(out)].to = src[ofile].len

\* It stopped at a failing read, maybe before there was a header to read.
StoppedAtRead == opc = "done" /\ res = "ErrInvalidCiphertext" /\ faults # <<>>

ReaderInv ==
  /\ opc = "idle" => pos = 1
  /\ opc # "idle" /\ okey \in Keys => spc[ofile] # "start" \/ StoppedAtRead
  /\ opc = "loop" => InStep
  /\ res = "ErrTampered" => okey \in Keys /\ okey # skey[ofile]
  /\ Completed

HonestInv ==
  /\ \A s \in Streams : SealedInv(s)
  /\ Cut => (\A s \in Streams : FileInv(s)) /\ ReaderInv

\* A length below the flag bit is read back from the field, and so is the flag.
LEMMA LenFieldFacts ==
  ASSUME NEW n \in 0 .. LastBit - 1, NEW last \in BOOLEAN
  PROVE  CtLen(LenField(n, last)) = n /\ IsLast(LenField(n, last)) = last
<1>1. LastBit \in Nat /\ n \in Nat /\ n < LastBit /\ n < 2 * LastBit
  BY StreamAssumption
<1>2. n % (2 * LastBit) = n
  BY <1>1
<1> DEFINE v == n % (2 * LastBit)
<1>3. LenField(n, last) = IF last THEN n + LastBit ELSE n
  BY <1>1, <1>2 DEF LenField
<1> QED BY <1>1, <1>3 DEF CtLen, IsLast

\* A full or final chunk leaves the flag bit of its length field free.
LEMMA NextChunkLength ==
  ASSUME TypeOK, NEW s \in Streams, SealerInv(s), spc[s] = "loop"
  PROVE  BodyLen(NextChunk(s)) \in 0 .. LastBit - 1
<1>1. /\ src[s].len \in Nat /\ rd[s] \in Nat /\ csize[s] \in Nat
  <2>1. src[s] \in Sources
    BY DEF TypeOK
  <2>2. src[s] \in [len : Nat, end : SourceEnds]
    BY <2>1, StreamAssumption
  <2> QED BY <2>2 DEF TypeOK
<1>2. src[s].len - rd[s] \in Nat /\ csize[s] <= MaxChunk
  BY <1>1 DEF SealerInv, ValidChunkSize
<1>3. NextRead(s).n \in 0 .. MaxChunk
  BY <1>1, <1>2, StreamAssumption DEF NextRead, ReadFull
<1>4. NextChunk(s).from = rd[s] /\ NextChunk(s).to = rd[s] + NextRead(s).n
  BY DEF NextChunk
<1>5. BodyLen(NextChunk(s)) = NextRead(s).n + TagSize
  BY <1>1, <1>3, <1>4, StreamAssumption DEF BodyLen
<1> QED BY <1>3, <1>5, StreamAssumption

\* The counters of chunks already sealed do not change.
LEMMA CounterStays ==
  ASSUME TypeOK, NEW s \in Streams, NEW c,
         chunks' = [chunks EXCEPT ![s] = Append(@, c)],
         NEW t \in Streams, NEW n \in 0 .. Len(chunks[t])
  PROVE  CounterAfter(t, n)' = CounterAfter(t, n)
<1>1. CASE n = 0
  BY <1>1 DEF CounterAfter
<1>2. CASE n # 0
  <2>1. n \in 1 .. Len(chunks[t])
    BY <1>2
  <2>2. chunks'[t][n] = chunks[t][n]
    BY <2>1, SealedStaysSealed
  <2> QED BY <1>2, <2>2 DEF CounterAfter
<1> QED BY <1>1, <1>2

\* A step that seals a chunk keeps the chain of counters.
LEMMA AddChunkLinks ==
  ASSUME IInv, \A t \in Streams : SealedInv(t), NEW s \in Streams, spc[s] = "loop",
         chunks' = [chunks EXCEPT ![s] = Append(@, NextChunk(s))],
         UNCHANGED skey, NEW n \in Nat, n = Len(chunks[s])
  PROVE  /\ \A t \in Streams : \A i \in 1 .. Len(chunks'[t]) : LinkInv(t, i)'
         /\ CounterAfter(s, n + 1)' = Increment(scnt[s])
         /\ Recorded(s, n + 1)' = NextFrame(s)
<1> DEFINE c == NextChunk(s)
<1>1. TypeOK /\ SealerInv(s) /\ SealedInv(s)
  BY DEF IInv
<1>2. /\ \A t \in Streams : \A i \in 1 .. Len(chunks[t]) :
           i \in 1 .. Len(chunks'[t]) /\ chunks'[t][i] = chunks[t][i]
      /\ Len(chunks'[s]) = n + 1
      /\ chunks'[s][n + 1] = c
      /\ \A t \in Streams \ {s} : chunks'[t] = chunks[t]
  <2>1. /\ \A t \in Streams : \A i \in 1 .. Len(chunks[t]) :
             i \in 1 .. Len(chunks'[t]) /\ chunks'[t][i] = chunks[t][i]
        /\ Len(chunks'[s]) = Len(chunks[s]) + 1
        /\ chunks'[s][Len(chunks[s]) + 1] = c
        /\ \A t \in Streams \ {s} : chunks'[t] = chunks[t]
    BY <1>1, SealedStaysSealed
  <2> QED BY <2>1
<1>3. /\ c.key = skey[s] /\ c.aad.counter = scnt[s]
      /\ c.nonce = makeStreamNonce(s, scnt[s])
      /\ c.aad.last = EndOfInput(NextRead(s).err)
  BY DEF NextChunk, streamAAD
<1>4. scnt[s] = CounterAfter(s, n)
  BY <1>1 DEF SealedInv
<1>5. BodyLen(c) \in 0 .. LastBit - 1
  BY <1>1, NextChunkLength
<1>6. CounterAfter(s, n)' = CounterAfter(s, n)
  <2>1. n \in 0 .. Len(chunks[s])
    OBVIOUS
  <2> QED BY <1>1, <2>1, CounterStays
<1>7. NextFrame(s) = [len |-> LenField(BodyLen(c), c.aad.last), body |-> c]
  BY <1>3 DEF NextFrame
<1>8. ASSUME NEW t \in Streams, NEW i \in 1 .. Len(chunks[t])
      PROVE  LinkInv(t, i)'
  <2>1. LinkInv(t, i) /\ chunks'[t][i] = chunks[t][i]
    BY <1>2, <1>8 DEF SealedInv
  <2>2. i - 1 \in 0 .. Len(chunks[t])
    BY <1>1, ChunksType
  <2>3. CounterAfter(t, i - 1)' = CounterAfter(t, i - 1)
    BY <1>1, <2>2, CounterStays
  <2> QED BY <2>1, <2>3 DEF LinkInv
<1> HIDE DEF c
<1>9. LinkInv(s, n + 1)'
  <2>1. n + 1 - 1 = n
    OBVIOUS
  <2> QED BY <1>2, <1>3, <1>4, <1>5, <1>6, <2>1 DEF LinkInv
<1>10. ASSUME NEW t \in Streams, NEW i \in 1 .. Len(chunks'[t])
       PROVE  LinkInv(t, i)'
  <2>1. CASE t = s
    <3>1. i \in 1 .. Len(chunks[s]) \/ i = n + 1
      BY <1>2, <2>1
    <3> QED BY <1>8, <1>9, <2>1, <3>1
  <2>2. CASE t # s
    BY <1>2, <1>8, <2>2
  <2> QED BY <2>1, <2>2
<1>11. CounterAfter(s, n + 1)' = Increment(scnt[s])
  <2>1. n + 1 # 0
    OBVIOUS
  <2> QED BY <1>2, <1>3, <2>1 DEF CounterAfter
<1>12. Recorded(s, n + 1)' = NextFrame(s)
  BY <1>2, <1>7 DEF Recorded
<1> QED BY <1>10, <1>11, <1>12

\* Every step keeps the chain of counters, keys and lengths of what was sealed.
LEMMA SealedStep ==
  ASSUME IInv, \A s \in Streams : SealedInv(s), [Next]_vars
  PROVE  \A s \in Streams : SealedInv(s)'
<1>1. ASSUME UNCHANGED <<spc, skey, scnt, chunks>>
      PROVE  \A s \in Streams : SealedInv(s)'
  BY <1>1 DEF SealedInv, LinkInv, CounterAfter, BodyLen, makeStreamNonce, Increment
<1>2. ASSUME NEW s \in Streams, Seal(s)
      PROVE  \A t \in Streams : SealedInv(t)'
  <2>0. TypeOK /\ SealerInv(s) /\ SealedInv(s)
    BY DEF IInv
  <2>1. ASSUME SealRejects(s) \/ SealReadFails(s)
        PROVE  \A t \in Streams : SealedInv(t)'
    <3>1. UNCHANGED <<skey, scnt, chunks>> /\ spc' = [spc EXCEPT ![s] = "err"]
      BY <2>1 DEF SealRejects, SealReadFails
    <3>2. \A t \in Streams : spc'[t] = "err" \/ spc'[t] = spc[t]
      BY <2>0, <3>1 DEF TypeOK
    <3>3. ASSUME NEW t \in Streams PROVE SealedInv(t)'
      <4>1. \A i \in 1 .. Len(chunks[t]) : LinkInv(t, i)'
        BY <3>1 DEF SealedInv, LinkInv, CounterAfter, Increment
      <4>2. CounterAfter(t, Len(chunks[t]))' = CounterAfter(t, Len(chunks[t]))
        BY <3>1 DEF CounterAfter, Increment
      <4> QED BY <3>1, <3>2, <4>1, <4>2 DEF SealedInv
    <3> QED BY <3>3
  <2>2. ASSUME NEW k \in Keys, NEW n \in ChunkSizes,
               SealStart(s, k, n) \/ SealHeaderFails(s, k, n)
        PROVE  \A t \in Streams : SealedInv(t)'
    <3>1. /\ UNCHANGED <<scnt, chunks>> /\ spc[s] = "start"
          /\ spc' = [spc EXCEPT ![s] = "loop"] \/ spc' = [spc EXCEPT ![s] = "err"]
          /\ skey' = [skey EXCEPT ![s] = k]
      BY <2>2 DEF SealStart, SealHeaderFails
    <3>2. /\ spc'[s] \in {"loop", "err"} /\ skey'[s] = k
          /\ \A t \in Streams \ {s} : spc'[t] = spc[t] /\ skey'[t] = skey[t]
      BY <2>0, <3>1 DEF TypeOK
    <3>3. chunks[s] = <<>> /\ Len(chunks[s]) = 0
      BY <2>0, <3>1 DEF SealerInv
    <3>4. SealedInv(s)'
      <4>1. \A i \in 1 .. Len(chunks'[s]) : FALSE
        BY <3>1, <3>3
      <4>2. CounterAfter(s, Len(chunks[s]))' = CounterAfter(s, Len(chunks[s]))
        BY <3>1 DEF CounterAfter, Increment
      <4>3. scnt'[s] = CounterAfter(s, Len(chunks[s]))'
        BY <2>0, <3>1, <4>2 DEF SealedInv
      <4> QED BY <3>2, <4>1, <4>3 DEF SealedInv
    <3>5. ASSUME NEW t \in Streams \ {s} PROVE SealedInv(t)'
      <4>1. \A i \in 1 .. Len(chunks[t]) : LinkInv(t, i)'
        BY <3>1, <3>2 DEF SealedInv, LinkInv, CounterAfter, Increment
      <4>2. CounterAfter(t, Len(chunks[t]))' = CounterAfter(t, Len(chunks[t]))
        BY <3>1 DEF CounterAfter, Increment
      <4> QED BY <3>1, <3>2, <4>1, <4>2 DEF SealedInv
    <3> QED BY <3>4, <3>5
  <2>3. ASSUME SealChunk(s) \/ SealWriteFails(s)
        PROVE  \A t \in Streams : SealedInv(t)'
    <3>1. PICK n \in Nat : n = Len(chunks[s])
      BY <2>0, ChunksType
    <3>2. /\ spc[s] = "loop" /\ UNCHANGED skey
          /\ chunks' = [chunks EXCEPT ![s] = Append(@, NextChunk(s))]
          /\ \/ /\ spc' = [spc EXCEPT ![s] =
                             IF EndOfInput(NextRead(s).err) THEN "ok" ELSE "loop"]
                /\ scnt' = [scnt EXCEPT ![s] = Increment(@)]
             \/ /\ spc' = [spc EXCEPT ![s] = "err"]
                /\ scnt' = scnt
      BY <2>3 DEF SealChunk, SealWriteFails
    <3>3. /\ \A t \in Streams : \A i \in 1 .. Len(chunks'[t]) : LinkInv(t, i)'
          /\ CounterAfter(s, n + 1)' = Increment(scnt[s])
      BY <3>1, <3>2, AddChunkLinks
    <3>4. /\ Len(chunks'[s]) = n + 1
          /\ chunks'[s][n + 1] = NextChunk(s)
          /\ \A t \in Streams \ {s} : chunks'[t] = chunks[t]
      <4>1. /\ Len(chunks'[s]) = Len(chunks[s]) + 1
            /\ chunks'[s][Len(chunks[s]) + 1] = NextChunk(s)
            /\ \A t \in Streams \ {s} : chunks'[t] = chunks[t]
        BY <2>0, <3>2, SealedStaysSealed
      <4> QED BY <3>1, <4>1
    <3>5. NextChunk(s).aad.last = EndOfInput(NextRead(s).err)
      BY <2>0, <3>2, NextChunkFacts
    <3>6. \/ /\ spc'[s] = IF EndOfInput(NextRead(s).err) THEN "ok" ELSE "loop"
             /\ scnt'[s] = Increment(scnt[s])
          \/ spc'[s] = "err"
      BY <2>0, <3>2 DEF TypeOK
    <3>7. SealedInv(s)'
      <4>1. skey'[s] \in Keys
        BY <2>0, <3>2 DEF SealedInv
      <4>2. spc'[s] \in {"start", "loop"} => scnt'[s] = CounterAfter(s, Len(chunks[s]))'
        <5>1. CounterAfter(s, Len(chunks[s]))' = CounterAfter(s, n + 1)'
          BY <3>4 DEF CounterAfter
        <5> QED BY <3>3, <3>6, <5>1
      <4>3. spc'[s] = "ok" =>
              chunks'[s] # <<>> /\ chunks'[s][Len(chunks'[s])].aad.last
        <5>1. chunks'[s] # <<>>
          BY <3>1, <3>4
        <5>2. spc'[s] = "ok" => EndOfInput(NextRead(s).err)
          BY <3>6
        <5> QED BY <3>4, <3>5, <5>1, <5>2
      <4> QED BY <3>3, <4>1, <4>2, <4>3 DEF SealedInv
    <3>8. ASSUME NEW t \in Streams \ {s} PROVE SealedInv(t)'
      <4>1. spc'[t] = spc[t] /\ scnt'[t] = scnt[t] /\ skey'[t] = skey[t]
        BY <2>0, <3>2 DEF TypeOK
      <4>2. CounterAfter(t, Len(chunks[t]))' = CounterAfter(t, Len(chunks[t]))
        BY <3>4 DEF CounterAfter
      <4> QED BY <3>3, <3>4, <4>1, <4>2 DEF SealedInv
    <3> QED BY <3>7, <3>8
  <2> QED BY <1>2, <2>1, <2>2, <2>3 DEF Seal
<1>3. CASE Open
  BY <1>1, <1>3 DEF Open, OpenStep, OpenStart, OpenHeaderFails, OpenChunk, OpenWriteFails,
     OpenTampered, OpenShortBody, OpenTruncated, OpenReadFails, sealVars
<1>4. CASE Medium
  BY <1>1, <1>4 DEF Medium, Truncate, RemoveFrame, ChangeLen, GarbleFrame,
     ReplaceFrame, InsertFrame, ChangeHeader, Fault, sealVars
<1>5. CASE UNCHANGED vars
  BY <1>1, <1>5 DEF vars, sealVars
<1> QED BY <1>2, <1>3, <1>4, <1>5 DEF Next

\* A recorded frame is there as long as its chunk is.
LEMMA RecordedStays ==
  ASSUME TypeOK, NEW s \in Streams, NEW c,
         chunks' = [chunks EXCEPT ![s] = Append(@, c)],
         NEW t \in Streams, NEW i \in 1 .. Len(chunks[t])
  PROVE  Recorded(t, i)' = Recorded(t, i)
<1>1. chunks'[t][i] = chunks[t][i]
  BY SealedStaysSealed
<1> QED BY <1>1 DEF Recorded

\* A step of one SealStream call leaves the other calls' files alone.
LEMMA OtherFiles ==
  ASSUME TypeOK, NEW s \in Streams, Seal(s)
  PROVE  /\ UNCHANGED <<src, faults, openVars>>
         /\ \A t \in Streams \ {s} :
              /\ spc'[t] = spc[t] /\ skey'[t] = skey[t] /\ hdr'[t] = hdr[t]
              /\ chunks'[t] = chunks[t]
              /\ frames'[t] = frames[t] /\ tail'[t] = tail[t]
<1> USE DEF TypeOK
<1>1. CASE SealRejects(s) \/ SealReadFails(s)
  BY <1>1 DEF SealRejects, SealReadFails, mediumVars
<1>2. ASSUME NEW k \in Keys, NEW n \in ChunkSizes,
             SealStart(s, k, n) \/ SealHeaderFails(s, k, n)
      PROVE  /\ UNCHANGED <<src, faults, openVars>>
             /\ \A t \in Streams \ {s} :
                  /\ spc'[t] = spc[t] /\ skey'[t] = skey[t] /\ hdr'[t] = hdr[t]
                  /\ chunks'[t] = chunks[t]
                  /\ frames'[t] = frames[t] /\ tail'[t] = tail[t]
  <2>1. PICK w \in BOOLEAN : hdr' = [hdr EXCEPT ![s].whole = w]
    BY <1>2, Zenon DEF SealStart, SealHeaderFails
  <2>2. \A t \in Streams \ {s} : hdr'[t] = hdr[t]
    BY <2>1
  <2> QED BY <1>2, <2>2 DEF SealStart, SealHeaderFails
<1>3. CASE SealChunk(s)
  BY <1>3 DEF SealChunk
<1>4. CASE SealWriteFails(s)
  BY <1>4 DEF SealWriteFails
<1> QED BY <1>1, <1>2, <1>3, <1>4 DEF Seal

\* SealStream keeps what it wrote in step with what it sealed.
LEMMA SealFile ==
  ASSUME IInv, \A t \in Streams : SealedInv(t), \A t \in Streams : FileInv(t),
         NEW s \in Streams, Seal(s)
  PROVE  \A t \in Streams : FileInv(t)'
<1>0. TypeOK /\ SealerInv(s) /\ SealedInv(s) /\ FileInv(s)
  BY DEF IInv
<1>2. ASSUME NEW t \in Streams \ {s} PROVE FileInv(t)'
  <2>1. /\ spc'[t] = spc[t] /\ hdr'[t] = hdr[t] /\ chunks'[t] = chunks[t]
        /\ frames'[t] = frames[t] /\ tail'[t] = tail[t] /\ UNCHANGED faults
    BY <1>0, OtherFiles
  <2>2. \A i \in 1 .. Len(frames[t]) : Recorded(t, i)' = Recorded(t, i)
    BY <2>1 DEF Recorded
  <2> QED BY <2>1, <2>2 DEF FileInv
<1>3. ASSUME SealRejects(s) \/ SealReadFails(s) PROVE FileInv(s)'
  <2>1. UNCHANGED <<hdr, chunks, frames, tail>> /\ spc'[s] = "err"
    BY <1>0, <1>3 DEF SealRejects, SealReadFails, mediumVars, TypeOK
  <2> QED BY <1>0, <2>1 DEF FileInv, Recorded
<1>4. ASSUME NEW k \in Keys, NEW n \in ChunkSizes,
             SealStart(s, k, n) \/ SealHeaderFails(s, k, n)
      PROVE  FileInv(s)'
  <2>1. /\ UNCHANGED <<chunks, frames, tail, faults>> /\ spc[s] = "start"
    BY <1>4 DEF SealStart, SealHeaderFails
  <2>2. PICK w \in BOOLEAN :
          /\ hdr' = [hdr EXCEPT ![s].whole = w]
          /\ (w /\ spc'[s] = "loop") \/ spc'[s] = "err"
    <3>1. CASE SealStart(s, k, n)
      BY <1>0, <3>1 DEF SealStart, TypeOK
    <3>2. CASE SealHeaderFails(s, k, n)
      <4>1. spc'[s] = "err"
        BY <1>0, <3>2 DEF SealHeaderFails, TypeOK
      <4> QED BY <3>2, <4>1, Zenon DEF SealHeaderFails
    <3> QED BY <1>4, <3>1, <3>2
  <2>3. hdr'[s] = [hdr[s] EXCEPT !.whole = w] /\ hdr[s] \in Headers
    BY <1>0, <2>2 DEF TypeOK
  <2>4. /\ hdr'[s].prefix = hdr[s].prefix /\ hdr'[s].magic = hdr[s].magic
        /\ hdr'[s].version = hdr[s].version /\ hdr'[s].whole = w
    BY <2>3 DEF Headers
  <2> QED BY <1>0, <2>1, <2>2, <2>4 DEF FileInv, Recorded
<1>5. ASSUME SealChunk(s) \/ SealWriteFails(s) PROVE FileInv(s)'
  <2>1. PICK n \in Nat : n = Len(chunks[s])
    BY <1>0, ChunksType
  <2>2. /\ spc[s] = "loop" /\ UNCHANGED <<skey, hdr, faults>>
        /\ chunks' = [chunks EXCEPT ![s] = Append(@, NextChunk(s))]
        /\ \/ /\ frames' = [frames EXCEPT ![s] = Append(@, NextFrame(s))]
              /\ UNCHANGED tail
              /\ spc'[s] \in {"ok", "loop", "err"}
           \/ UNCHANGED frames /\ spc'[s] = "err"
    BY <1>0, <1>5 DEF SealChunk, SealWriteFails, TypeOK
  <2>3. Recorded(s, n + 1)' = NextFrame(s)
    BY <2>1, <2>2, AddChunkLinks
  <2>4. Len(chunks'[s]) = n + 1
    <3>1. Len(chunks'[s]) = Len(chunks[s]) + 1
      BY <1>0, <2>2, SealedStaysSealed
    <3> QED BY <2>1, <3>1
  <2>5. \A i \in 1 .. n : Recorded(s, i)' = Recorded(s, i)
    BY <1>0, <2>1, <2>2, RecordedStays
  <2>6. frames[s] \in Seq(Frames) /\ Len(frames[s]) = n /\ tail[s] = "clean"
    BY <1>0, <2>1, <2>2 DEF FileInv, TypeOK
  <2>7. \A i \in 1 .. n : frames[s][i] = Recorded(s, i)'
    BY <1>0, <2>5, <2>6 DEF FileInv
  <2>8. hdr[s].whole /\ hdr[s].prefix = s /\ hdr[s].magic /\ hdr[s].version
    BY <1>0, <2>2 DEF FileInv
  <2>9. CASE frames' = [frames EXCEPT ![s] = Append(@, NextFrame(s))] /\ UNCHANGED tail
    <3>1. frames'[s] = Append(frames[s], NextFrame(s))
      BY <1>0, <2>9 DEF TypeOK
    <3>2. /\ Len(frames'[s]) = n + 1 /\ frames'[s][n + 1] = NextFrame(s)
          /\ \A i \in 1 .. n : frames'[s][i] = frames[s][i]
      BY <2>6, <3>1
    <3>3. \A i \in 1 .. n + 1 : frames'[s][i] = Recorded(s, i)'
      <4> SUFFICES ASSUME NEW i \in 1 .. n + 1 PROVE frames'[s][i] = Recorded(s, i)'
        OBVIOUS
      <4>1. i \in 1 .. n \/ i = n + 1
        OBVIOUS
      <4> QED BY <2>3, <2>7, <3>2, <4>1
    <3>4. spc'[s] # "start"
      BY <2>2, <2>9
    <3> QED BY <2>2, <2>4, <2>6, <2>8, <2>9, <3>2, <3>3, <3>4 DEF FileInv
  <2>10. CASE UNCHANGED frames /\ spc'[s] = "err"
    BY <2>2, <2>4, <2>6, <2>7, <2>8, <2>10 DEF FileInv
  <2> QED BY <2>2, <2>9, <2>10
<1> QED BY <1>2, <1>3, <1>4, <1>5 DEF Seal

\* What one step of a SealStream call may do to its own state and file.
LEMMA SealGrows ==
  ASSUME TypeOK, NEW s \in Streams, Seal(s)
  PROVE  /\ spc[s] # "err" /\ spc'[s] # "start"
         /\ spc[s] # "start" => skey'[s] = skey[s]
         /\ Len(frames'[s]) >= Len(frames[s])
         /\ \/ UNCHANGED chunks
            \/ chunks' = [chunks EXCEPT ![s] = Append(@, NextChunk(s))]
<1> USE DEF TypeOK
<1>0. frames[s] \in Seq(Frames) /\ Len(frames[s]) \in Nat
  OBVIOUS
<1>1. CASE SealRejects(s) \/ SealReadFails(s)
  <2>1. /\ spc[s] # "err" /\ spc'[s] = "err" /\ UNCHANGED <<skey, frames, chunks>>
    BY <1>1 DEF SealRejects, SealReadFails, mediumVars
  <2> QED BY <1>0, <2>1
<1>2. ASSUME NEW k \in Keys, NEW n \in ChunkSizes,
             SealStart(s, k, n) \/ SealHeaderFails(s, k, n)
      PROVE  /\ spc[s] = "start" /\ spc'[s] # "start" /\ UNCHANGED <<frames, chunks>>
  BY <1>2 DEF SealStart, SealHeaderFails
<1>3. CASE SealChunk(s) \/ SealWriteFails(s)
  <2>1. /\ spc[s] = "loop" /\ spc'[s] # "start" /\ UNCHANGED skey
        /\ chunks' = [chunks EXCEPT ![s] = Append(@, NextChunk(s))]
        /\ frames'[s] = frames[s] \/ frames'[s] = Append(frames[s], NextFrame(s))
    BY <1>3 DEF SealChunk, SealWriteFails
  <2>2. Len(Append(frames[s], NextFrame(s))) = Len(frames[s]) + 1
    BY <1>0
  <2> QED BY <1>0, <2>1, <2>2
<1> QED BY <1>0, <1>1, <1>2, <1>3 DEF Seal

\* SealStream does not disturb the opener that reads what it writes.
LEMMA SealReader ==
  ASSUME IInv, \A t \in Streams : FileInv(t), ReaderInv, NEW s \in Streams, Seal(s)
  PROVE  ReaderInv'
<1>1. TypeOK /\ UNCHANGED <<src, faults, openVars>>
  BY OtherFiles DEF IInv
<1>2. CASE opc = "idle"
  <2>1. res = "none"
    BY <1>2 DEF IInv, OpenerInv
  <2> QED BY <1>1, <1>2, <2>1 DEF ReaderInv, Completed, openVars
<1>3. CASE StoppedAtRead
  BY <1>1, <1>3 DEF ReaderInv, StoppedAtRead, Completed, openVars
<1>4. CASE opc # "idle" /\ ~StoppedAtRead
  <2>1. ofile \in Streams /\ FileInv(ofile) /\ Len(chunks[ofile]) \in Nat
    BY <1>1, <1>4, ChunksType DEF TypeOK
  <2>2. /\ okey \in Keys => spc'[ofile] # "start" /\ skey'[ofile] = skey[ofile]
        /\ spc'[ofile] # "err" => spc[ofile] # "err"
        /\ Len(frames'[ofile]) >= Len(frames[ofile])
    <3>1. okey \in Keys => spc[ofile] # "start"
      BY <1>4 DEF ReaderInv
    <3>2. CASE ofile = s
      BY <1>1, <3>1, <3>2, SealGrows
    <3>3. CASE ofile # s
      <4>1. ofile \in Streams \ {s}
        BY <2>1, <3>3
      <4>2. /\ spc'[ofile] = spc[ofile] /\ skey'[ofile] = skey[ofile]
            /\ frames'[ofile] = frames[ofile]
        BY <1>1, <4>1, OtherFiles
      <4>3. Len(frames[ofile]) \in Nat
        BY <1>1, <2>1 DEF TypeOK
      <4> QED BY <3>1, <4>2, <4>3
    <3> QED BY <3>2, <3>3
  <2>3. opc = "loop" => InStep'
    <3> SUFFICES ASSUME opc = "loop" PROVE InStep'
      OBVIOUS
    <3>1. InStep /\ pos \in Nat \ {0}
      BY <1>1 DEF ReaderInv, TypeOK
    <3>2. Len(frames[ofile]) \in Nat /\ Len(frames'[ofile]) \in Nat
      <4>1. TypeOK'
        BY <1>1, SealType
      <4>2. /\ frames[ofile] \in Seq(Frames) /\ frames'[ofile] \in Seq(Frames)
        BY <1>1, <2>1, <4>1 DEF TypeOK
      <4> QED BY <4>2
    <3>3. pos - 1 \in 0 .. Len(chunks[ofile])
      BY <2>1, <3>1, <3>2 DEF InStep, FileInv
    <3>4. /\ CounterAfter(ofile, pos - 1)' = CounterAfter(ofile, pos - 1)
          /\ \A i \in 1 .. pos - 1 : chunks'[ofile][i] = chunks[ofile][i]
      <4>1. UNCHANGED <<ofile, pos>>
        BY <1>1 DEF openVars
      <4>2. CASE UNCHANGED chunks
        BY <4>1, <4>2 DEF CounterAfter, Increment
      <4>3. CASE chunks' = [chunks EXCEPT ![s] = Append(@, NextChunk(s))]
        <5>0. PICK f \in Streams : f = ofile
          BY <2>1
        <5>1. PICK n \in 0 .. Len(chunks[f]) : n = pos - 1
          BY <3>3, <5>0
        <5>2. CounterAfter(f, n)' = CounterAfter(f, n)
          BY <1>1, <4>3, CounterStays
        <5>3. CounterAfter(ofile, pos - 1)' = CounterAfter(f, n)'
          BY <4>1, <5>0, <5>1 DEF CounterAfter
        <5>4. CounterAfter(ofile, pos - 1) = CounterAfter(f, n)
          BY <5>0, <5>1
        <5>5. \A i \in 1 .. pos - 1 : i \in 1 .. Len(chunks[ofile])
          BY <2>1, <3>1, <3>3
        <5>6. \A i \in 1 .. pos - 1 : chunks'[ofile][i] = chunks[ofile][i]
          BY <1>1, <2>1, <4>3, <5>5, SealedStaysSealed
        <5> QED BY <5>2, <5>3, <5>4, <5>6
      <4> QED BY <1>1, <4>2, <4>3, SealGrows
    <3>5. pos <= Len(frames'[ofile]) + 1
      BY <2>2, <3>1, <3>2 DEF InStep
    <3> QED BY <1>1, <3>1, <3>4, <3>5 DEF InStep, openVars
  <2>4. Completed'
    BY <1>1, <2>2 DEF ReaderInv, Completed, openVars
  <2> QED BY <1>1, <1>4, <2>2, <2>3, <2>4 DEF ReaderInv, openVars
<1> QED BY <1>2, <1>4, <1>3

\* Faults are only ever added.
LEMMA FaultsGrow ==
  ASSUME TypeOK, [Next]_vars
  PROVE  faults' = faults \/ \E k \in FaultKinds : faults' = Append(faults, k)
<1>1. CASE \E s \in Streams : Seal(s)
  BY <1>1, OtherFiles
<1>2. CASE Open
  BY <1>2 DEF Open, OpenStep, OpenStart, OpenHeaderFails, OpenChunk, OpenWriteFails,
     OpenTampered, OpenShortBody, OpenTruncated, OpenReadFails, mediumVars, FaultKinds
<1>3. CASE Medium
  BY <1>3 DEF Medium, Truncate, RemoveFrame, ChangeLen, GarbleFrame,
     ReplaceFrame, InsertFrame, ChangeHeader, Fault, FaultKinds
<1>4. CASE UNCHANGED vars
  BY <1>4 DEF vars, mediumVars
<1> QED BY <1>1, <1>2, <1>3, <1>4 DEF Next

\* So a file that was only cut had only been cut before.
LEMMA CutBefore ==
  ASSUME TypeOK, [Next]_vars
  PROVE  /\ Cut' => Cut
         /\ faults' = <<>> => faults = <<>>
<1>1. faults \in Seq(FaultKinds)
  BY DEF TypeOK
<1>2. CASE faults' = faults
  BY <1>2 DEF Cut
<1>3. ASSUME NEW k \in FaultKinds, faults' = Append(faults, k)
      PROVE  faults' # <<>> /\ (Cut' => Cut)
  <2>1. /\ Len(faults') = Len(faults) + 1 /\ Len(faults) \in Nat
        /\ \A i \in 1 .. Len(faults) : faults'[i] = faults[i]
    BY <1>1, <1>3
  <2>2. \A i \in 1 .. Len(faults) : i \in 1 .. Len(faults')
    BY <2>1
  <2>3. faults' # <<>>
    BY <2>1
  <2> QED BY <2>1, <2>2, <2>3 DEF Cut
<1> QED BY <1>2, <1>3, FaultsGrow

\* The only step of the medium that leaves files at most cut is a cut.
LEMMA OnlyCuts ==
  ASSUME TypeOK, Medium, Cut'
  PROVE  \E f \in Streams : \E i \in Unread(f) .. Len(frames[f]) : Truncate(f, i)
<1>1. ASSUME NEW k \in FaultKinds, Fault(k) PROVE k \in {"truncate", "io"}
  <2>1. faults \in Seq(FaultKinds) /\ faults' = Append(faults, k)
    BY <1>1 DEF Fault, TypeOK
  <2>2. /\ Len(faults) + 1 \in 1 .. Len(faults') /\ faults'[Len(faults) + 1] = k
    BY <2>1
  <2> QED BY <2>2 DEF Cut
<1>2. ASSUME NEW f \in Streams, NEW i \in Nat,
             \/ RemoveFrame(f, i) \/ ChangeLen(f, i) \/ GarbleFrame(f, i)
             \/ ChangeHeader(f)
             \/ \E t \in Streams : \E j \in 1 .. Len(chunks[t]) :
                  ReplaceFrame(f, i, t, j) \/ InsertFrame(f, i, t, j)
      PROVE  FALSE
  <2>1. Fault("remove") \/ Fault("len") \/ Fault("garble") \/ Fault("header")
          \/ Fault("replace") \/ Fault("insert")
    BY <1>2 DEF RemoveFrame, ChangeLen, GarbleFrame, ChangeHeader, ReplaceFrame,
                InsertFrame
  <2> QED BY <1>1, <2>1 DEF FaultKinds
<1>3. PICK f \in Streams :
        \/ \E i \in Unread(f) .. Len(frames[f]) :
             \/ Truncate(f, i) \/ RemoveFrame(f, i) \/ ChangeLen(f, i)
             \/ GarbleFrame(f, i)
             \/ \E t \in Streams : \E j \in 1 .. Len(chunks[t]) :
                  ReplaceFrame(f, i, t, j)
        \/ \E i \in Unread(f) .. Len(frames[f]) + 1, t \in Streams :
             \E j \in 1 .. Len(chunks[t]) : InsertFrame(f, i, t, j)
        \/ ChangeHeader(f)
  BY DEF Medium
<1>4. /\ Unread(f) \in Nat /\ Len(frames[f]) \in Nat
      /\ \A i \in Unread(f) .. Len(frames[f]) + 1 : i \in Nat
      /\ \A i \in Unread(f) .. Len(frames[f]) : i \in Nat
  <2>1. Unread(f) \in Nat /\ frames[f] \in Seq(Frames)
    BY DEF Unread, TypeOK
  <2> QED BY <2>1
<1> QED BY <1>2, <1>3, <1>4

\* A cut leaves the first frames, and none the opener has read.
LEMMA CutKeeps ==
  ASSUME IInv, \A t \in Streams : FileInv(t), ReaderInv,
         NEW f \in Streams, NEW i \in Unread(f) .. Len(frames[f]), Truncate(f, i)
  PROVE  (\A t \in Streams : FileInv(t)') /\ ReaderInv'
<1>1. /\ TypeOK /\ Closed(f) /\ UNCHANGED <<sealVars, openVars, hdr>>
      /\ opc # "done"
  BY DEF Truncate, Fault, IInv
<1>2. faults' # <<>>
  <2>1. faults \in Seq(FaultKinds) /\ faults' = Append(faults, "truncate")
    BY <1>1 DEF TypeOK, Truncate, Fault
  <2> QED BY <2>1
<1>3. i \in 1 .. Len(frames[f]) /\ Len(frames[f]) \in Nat
      /\ (f = ofile => pos <= i)
  <2>1. Unread(f) \in Nat \ {0} /\ frames[f] \in Seq(Frames)
        /\ (f = ofile => Unread(f) = pos)
    BY <1>1 DEF Unread, TypeOK
  <2> QED BY <2>1
<1>4. /\ Len(frames'[f]) = i - 1
      /\ \A j \in 1 .. i - 1 : frames'[f][j] = frames[f][j]
      /\ \A t \in Streams \ {f} : frames'[t] = frames[t] /\ tail'[t] = tail[t]
  <2>1. frames'[f] = SubSeq(frames[f], 1, i - 1) /\ frames[f] \in Seq(Frames)
    BY <1>1 DEF Truncate, TypeOK
  <2>2. \A t \in Streams \ {f} : frames'[t] = frames[t] /\ tail'[t] = tail[t]
    BY <1>1 DEF Truncate, TypeOK
  <2> QED BY <1>3, <2>1, <2>2
<1>5. \A t \in Streams : \A j \in 1 .. Len(chunks[t]) : Recorded(t, j)' = Recorded(t, j)
  BY <1>1 DEF Recorded, sealVars
<1>6. FileInv(f)'
  <2>1. FileInv(f) /\ Len(chunks[f]) \in Nat /\ spc[f] \in {"ok", "err"}
    BY <1>1, ChunksType DEF Closed
  <2>2. \A j \in 1 .. i - 1 : j \in 1 .. Len(frames[f]) /\ j \in 1 .. Len(chunks[f])
    BY <1>3, <2>1 DEF FileInv
  <2>3. \A j \in 1 .. i - 1 : frames'[f][j] = Recorded(f, j)'
    BY <1>4, <1>5, <2>1, <2>2 DEF FileInv
  <2>4. Len(frames'[f]) <= Len(chunks[f])
    BY <1>3, <1>4, <2>1 DEF FileInv
  <2> QED BY <1>1, <1>2, <1>4, <2>1, <2>3, <2>4 DEF FileInv, sealVars
<1>7. ASSUME NEW t \in Streams \ {f} PROVE FileInv(t)'
  <2>1. /\ FileInv(t) /\ Len(chunks[t]) \in Nat /\ Len(frames[t]) \in Nat
    BY <1>1, ChunksType DEF TypeOK
  <2>2. \A j \in 1 .. Len(frames[t]) : j \in 1 .. Len(chunks[t])
    BY <2>1 DEF FileInv
  <2> QED BY <1>1, <1>2, <1>4, <1>5, <2>1, <2>2 DEF FileInv, sealVars
<1>8. ReaderInv'
  <2>1. opc = "loop" => InStep'
    <3> SUFFICES ASSUME opc = "loop" PROVE InStep'
      OBVIOUS
    <3>1. InStep /\ ofile \in Streams /\ pos \in Nat
      BY <1>1 DEF ReaderInv, TypeOK
    <3>2. CounterAfter(ofile, pos - 1)' = CounterAfter(ofile, pos - 1)
      BY <1>1 DEF CounterAfter, sealVars, openVars
    <3>3. pos <= Len(frames'[ofile]) + 1
      BY <1>3, <1>4, <3>1 DEF InStep
    <3> QED BY <1>1, <3>1, <3>2, <3>3 DEF InStep, sealVars, openVars
  <2> QED BY <1>1, <1>2, <2>1 DEF ReaderInv, StoppedAtRead, Completed, sealVars,
                                  openVars
<1> QED BY <1>6, <1>7, <1>8

\* The frame the opener reads next from such a file is the sealer's, with its
\* own length and flag, and authenticates under the sealer's key.
LEMMA FrameFacts ==
  ASSUME IInv, \A s \in Streams : SealedInv(s), \A s \in Streams : FileInv(s),
         InStep, HasFrame
  PROVE  /\ pos \in 1 .. Len(chunks[ofile])
         /\ Frame.body = chunks[ofile][pos]
         /\ CtLen(Frame.len) = BodyLen(Frame.body)
         /\ IsLast(Frame.len) = Frame.body.aad.last
         /\ Frame.body.aad.counter = ocnt
         /\ okey = skey[ofile] => Authentic
<1>1. TypeOK /\ ofile \in Streams /\ pos \in Nat \ {0} /\ opc = "loop"
  BY DEF IInv, TypeOK, HasFrame
<1>2. frames[ofile] \in Seq(Frames) /\ chunks[ofile] \in Seq(Bodies)
  BY <1>1 DEF TypeOK
<1>3. /\ pos \in 1 .. Len(frames[ofile]) /\ pos \in 1 .. Len(chunks[ofile])
      /\ FileInv(ofile) /\ SealedInv(ofile)
  BY <1>1, <1>2 DEF HasFrame, FileInv
<1> DEFINE c == chunks[ofile][pos]
<1>4. Frame = Recorded(ofile, pos)
  BY <1>3 DEF Frame, FileInv
<1>5. Frame.body = c /\ Frame.len = LenField(BodyLen(c), c.aad.last)
  BY <1>4 DEF Recorded
<1>6. LinkInv(ofile, pos) /\ c \in Bodies
  BY <1>2, <1>3 DEF SealedInv
<1>7. c.aad \in AADs /\ c.aad.last \in BOOLEAN
  BY <1>6 DEF Bodies, AADs
<1>8. /\ BodyLen(c) \in 0 .. LastBit - 1 /\ c.aad.counter = ocnt
      /\ c.key = skey[ofile] /\ c.nonce = makeStreamNonce(oprefix, ocnt)
  BY <1>6 DEF LinkInv, InStep
<1>9. CtLen(Frame.len) = BodyLen(c) /\ IsLast(Frame.len) = c.aad.last
  BY <1>5, <1>7, <1>8, LenFieldFacts
<1>10. c.aad = streamAAD(ocnt, IsLast(Frame.len))
  <2>1. c.aad = [counter |-> c.aad.counter, last |-> c.aad.last]
    BY <1>7 DEF AADs
  <2> QED BY <1>8, <1>9, <2>1, Zenon DEF streamAAD
<1> HIDE DEF c
<1>11. okey = skey[ofile] => Authentic
  BY <1>5, <1>8, <1>9, <1>10 DEF Authentic, GcmOpens
<1> QED BY <1>3, <1>5, <1>8, <1>9, <1>11 DEF c

\* OpenStream only reads the files.
LEMMA OpenFile ==
  ASSUME IInv, \A s \in Streams : FileInv(s), Open
  PROVE  \A s \in Streams : FileInv(s)'
<1>1. UNCHANGED <<sealVars, hdr, frames, tail>>
  BY DEF Open, OpenStep, OpenStart, OpenHeaderFails, OpenChunk, OpenWriteFails,
         OpenTampered, OpenShortBody, OpenTruncated, OpenReadFails, mediumVars
<1>2. faults' = <<>> => faults = <<>>
  BY CutBefore DEF IInv, Next
<1> QED BY <1>1, <1>2 DEF FileInv, Recorded, sealVars

\* A sealer that has returned nil left a whole file behind, which an opener
\* with its key reads to the end.
LEMMA WholeFile ==
  ASSUME IInv, \A s \in Streams : SealedInv(s), \A s \in Streams : FileInv(s),
         InStep, opc = "loop", faults = <<>>, Closed(ofile), spc[ofile] # "err"
  PROVE  HasFrame /\ tail[ofile] = "clean"
<1>1. /\ TypeOK /\ ofile \in Streams /\ pos \in Nat \ {0} /\ spc[ofile] = "ok"
  BY DEF IInv, TypeOK, Closed
<1>2. /\ Len(frames[ofile]) = Len(chunks[ofile]) /\ tail[ofile] = "clean"
      /\ chunks[ofile] # <<>> /\ chunks[ofile][Len(chunks[ofile])].aad.last
  BY <1>1 DEF FileInv, SealedInv
<1>3. Len(chunks[ofile]) \in Nat /\ Len(chunks[ofile]) # 0
  BY <1>1, <1>2 DEF TypeOK
<1>4. CASE pos > Len(frames[ofile])
  <2>1. Len(chunks[ofile]) \in 1 .. pos - 1
    BY <1>1, <1>2, <1>3, <1>4
  <2> QED BY <1>2, <2>1 DEF InStep
<1> QED BY <1>1, <1>2, <1>3, <1>4 DEF HasFrame

\* An iteration that delivers keeps the opener in step.
LEMMA OpenChunkReader ==
  ASSUME IInv, \A s \in Streams : SealedInv(s), \A s \in Streams : FileInv(s),
         ReaderInv, OpenChunk
  PROVE  ReaderInv'
<1>1. /\ TypeOK /\ opc = "loop" /\ HasFrame /\ InStep /\ ofile \in Streams
      /\ pos \in Nat \ {0} /\ res = "none"
  BY DEF OpenChunk, HasFrame, ReaderInv, IInv, TypeOK, OpenerInv
<1>2. /\ pos' = pos + 1 /\ ocnt' = Increment(ocnt) /\ out' = Append(out, Frame.body)
      /\ UNCHANGED <<okey, ofile, oprefix, sealVars, mediumVars>>
      /\ \/ IsLast(Frame.len) /\ opc' = "done" /\ res' = "nil"
         \/ ~IsLast(Frame.len) /\ opc' = "loop" /\ res' = "none"
  BY <1>1 DEF OpenChunk, Return
<1>3. /\ pos \in 1 .. Len(chunks[ofile]) /\ Frame.body = chunks[ofile][pos]
      /\ IsLast(Frame.len) = Frame.body.aad.last /\ Frame.body.aad.counter = ocnt
  BY <1>1, FrameFacts
<1>4. opc' = "loop" => InStep'
  <2> SUFFICES ASSUME opc' = "loop" PROVE InStep'
    OBVIOUS
  <2>1. ~chunks[ofile][pos].aad.last
    BY <1>2, <1>3
  <2>2. CounterAfter(ofile, pos - 1)' = Increment(chunks[ofile][pos].aad.counter)
    <3>1. pos' - 1 = pos /\ pos # 0
      BY <1>1, <1>2
    <3> QED BY <1>2, <3>1 DEF CounterAfter, sealVars, Increment
  <2>3. pos' <= Len(frames[ofile]) + 1
    <3>1. Len(frames[ofile]) \in Nat /\ pos <= Len(frames[ofile])
      BY <1>1 DEF TypeOK, HasFrame
    <3> QED BY <1>1, <1>2, <3>1
  <2>4. \A i \in 1 .. pos' - 1 : ~chunks[ofile][i].aad.last
    <3>1. \A i \in 1 .. pos' - 1 : i \in 1 .. pos - 1 \/ i = pos
      BY <1>1, <1>2
    <3> QED BY <1>1, <2>1, <3>1 DEF InStep
  <2> QED BY <1>1, <1>2, <1>3, <2>2, <2>3, <2>4 DEF InStep, sealVars, mediumVars
<1>5. Completed'
  <2> SUFFICES ASSUME opc' = "done"
               PROVE  /\ res' = "nil" /\ out' # <<>>
                      /\ out'[Len(out')].to = src'[ofile'].len
    BY DEF Completed
  <2>1. chunks[ofile][pos].aad.last /\ res' = "nil"
    BY <1>2, <1>3
  <2>2. ChunkInv(ofile, pos)
    BY <1>1, <1>3 DEF IInv, SealerInv
  <2>3. chunks[ofile][pos].to = src[ofile].len
    BY <2>1, <2>2 DEF ChunkInv
  <2>4. out \in Seq(Bodies) /\ out' = Append(out, chunks[ofile][pos])
    BY <1>1, <1>2, <1>3 DEF TypeOK
  <2>5. out' # <<>> /\ out'[Len(out')] = chunks[ofile][pos]
    BY <2>4
  <2> QED BY <1>2, <2>1, <2>3, <2>5 DEF sealVars
<1>6. okey \in Keys => spc[ofile] # "start"
  BY <1>1 DEF ReaderInv, StoppedAtRead
<1> QED BY <1>1, <1>2, <1>4, <1>5, <1>6 DEF ReaderInv, sealVars

\* Every step of OpenStream on such a file keeps it in step, and it gives up
\* only where it should.
LEMMA OpenReader ==
  ASSUME IInv, \A s \in Streams : SealedInv(s), \A s \in Streams : FileInv(s),
         ReaderInv, Open
  PROVE  ReaderInv'
<1>1. TypeOK /\ OpenerInv /\ BadKey \notin Keys
  BY StreamAssumption DEF IInv
<1>2. ASSUME NEW f \in Streams, NEW k \in Keys \cup {BadKey}, OpenStart(f, k)
      PROVE  ReaderInv'
  <2>1. /\ opc = "idle" /\ pos = 1 /\ ocnt = 0 /\ res = "none"
        /\ ofile' = f /\ okey' = k
        /\ UNCHANGED <<pos, ocnt, out, sealVars, mediumVars>>
        /\ FileInv(f) /\ SealedInv(f)
    BY <1>1, <1>2 DEF OpenStart, OpenerInv, ReaderInv
  <2>2. CASE k = BadKey
    <3>1. opc' = "done" /\ res' = "ErrInvalidKey"
      BY <1>2, <2>2 DEF OpenStart, Return
    <3> QED BY <1>1, <2>1, <2>2, <3>1 DEF ReaderInv, Completed
  <2>3. CASE k # BadKey /\ ~hdr[f].whole
    <3>1. opc' = "done" /\ res' = "ErrInvalidCiphertext" /\ Closed(f)
      BY <1>2, <2>3 DEF OpenStart, Return
    <3>2. spc'[f] = "err"
      BY <2>1, <2>3, <3>1 DEF FileInv, Closed, sealVars
    <3> QED BY <2>1, <3>1, <3>2 DEF ReaderInv, Completed
  <2>4. CASE k # BadKey /\ hdr[f].whole
    <3>1. opc' = "loop" /\ oprefix' = f /\ res' = "none"
      BY <1>2, <2>1, <2>4 DEF OpenStart, FileInv
    <3>2. spc'[f] # "start"
      BY <2>1, <2>4 DEF FileInv, sealVars
    <3>3. InStep'
      <4>1. frames[f] \in Seq(Frames) /\ Len(frames[f]) \in Nat
        BY <1>1 DEF TypeOK
      <4>2. pos' - 1 = 0 /\ pos' <= Len(frames[f]) + 1
        BY <2>1, <4>1
      <4>3. CounterAfter(ofile, pos - 1)' = 0
        BY <4>2 DEF CounterAfter
      <4> QED BY <2>1, <3>1, <4>2, <4>3 DEF InStep, mediumVars
    <3> QED BY <2>1, <3>1, <3>2, <3>3 DEF ReaderInv, Completed
  <2> QED BY <2>2, <2>3, <2>4
<1>3. CASE OpenChunk
  BY <1>3, OpenChunkReader
<1>4. ASSUME OpenWriteFails \/ OpenReadFails PROVE ReaderInv'
  <2>1. /\ opc = "loop" /\ opc' = "done" /\ res' # "ErrTampered"
        /\ faults' = Append(faults, "io")
        /\ UNCHANGED <<okey, ofile, sealVars>>
    BY <1>4 DEF OpenWriteFails, OpenReadFails, HasFrame, Return
  <2>2. faults' # <<>>
    BY <1>1, <2>1 DEF TypeOK
  <2>3. okey \in Keys => spc[ofile] # "start"
    BY <2>1 DEF ReaderInv, StoppedAtRead
  <2> QED BY <2>1, <2>2, <2>3 DEF ReaderInv, Completed, sealVars
<1>5. ASSUME NEW f \in Streams, NEW k \in Keys, OpenHeaderFails(f, k)
      PROVE  ReaderInv'
  <2>1. opc' = "done" /\ res' = "ErrInvalidCiphertext" /\ faults' = Append(faults, "io")
    BY <1>5 DEF OpenHeaderFails, Return
  <2>2. faults' # <<>>
    <3>1. faults \in Seq(FaultKinds)
      BY <1>1 DEF TypeOK
    <3> QED BY <2>1, <3>1
  <2> QED BY <2>1, <2>2 DEF ReaderInv, StoppedAtRead, Completed
<1>6. ASSUME OpenTampered \/ OpenShortBody \/ OpenTruncated PROVE ReaderInv'
  <2>1. /\ opc = "loop" /\ opc' = "done" /\ InStep /\ okey \in Keys
        /\ UNCHANGED <<okey, ofile, sealVars, mediumVars>>
        /\ ofile \in Streams /\ spc[ofile] # "start"
    BY <1>1, <1>6 DEF OpenTampered, OpenShortBody, OpenTruncated, HasFrame,
                      Return, ReaderInv, StoppedAtRead, OpenerInv, TypeOK
  <2>2. HasFrame => CtLen(Frame.len) = BodyLen(Frame.body)
    BY <2>1, FrameFacts
  <2>3. HasFrame => BodyLen(Frame.body) \in Int
    <3> SUFFICES ASSUME HasFrame PROVE BodyLen(Frame.body) \in Int
      OBVIOUS
    <3>1. Frame.body = chunks[ofile][pos] /\ pos \in 1 .. Len(chunks[ofile])
      BY <2>1, FrameFacts
    <3>2. LinkInv(ofile, pos)
      BY <2>1, <3>1 DEF SealedInv
    <3> QED BY <3>1, <3>2, StreamAssumption DEF LinkInv
  <2>4. ~(HasFrame /\ Misaligned) /\ ~(HasFrame /\ RunsOut)
    BY <2>2, <2>3 DEF Misaligned, RunsOut
  <2>5. OpenTampered => HasFrame /\ ~Authentic
    BY <2>4 DEF OpenTampered
  <2>6. OpenTampered => okey # skey[ofile]
    BY <2>1, <2>5, FrameFacts
  <2>7. OpenShortBody \/ OpenTruncated =>
          res' # "ErrTampered" /\ ~HasFrame /\ Closed(ofile)
    BY <2>4 DEF OpenShortBody, OpenTruncated, Return
  <2>8. OpenShortBody \/ OpenTruncated => faults # <<>> \/ spc[ofile] = "err"
    BY <2>1, <2>7, WholeFile
  <2>9. Completed'
    BY <1>6, <2>1, <2>6, <2>8 DEF Completed, sealVars, mediumVars
  <2>10. res' = "ErrTampered" => okey \in Keys /\ okey # skey[ofile]
    BY <1>6, <2>1, <2>6, <2>7
  <2> QED BY <2>1, <2>9, <2>10 DEF ReaderInv, sealVars
<1> QED BY <1>2, <1>3, <1>4, <1>5, <1>6 DEF Open, OpenStep

\* Every step keeps cut files, and the opener that reads one, as described.
LEMMA HonestStep ==
  ASSUME IInv, HonestInv, [Next]_vars
  PROVE  HonestInv'
<1>1. \A s \in Streams : SealedInv(s)
  BY DEF HonestInv
<1>2. \A s \in Streams : SealedInv(s)'
  BY <1>1, SealedStep
<1>3. ASSUME Cut' PROVE (\A s \in Streams : FileInv(s)') /\ ReaderInv'
  <2>1. TypeOK /\ (\A s \in Streams : FileInv(s)) /\ ReaderInv
    BY <1>3, CutBefore DEF HonestInv, IInv
  <2>2. ASSUME NEW s \in Streams, Seal(s)
        PROVE  (\A t \in Streams : FileInv(t)') /\ ReaderInv'
    BY <1>1, <2>1, <2>2, SealFile, SealReader
  <2>3. CASE Open
    BY <1>1, <2>1, <2>3, OpenFile, OpenReader
  <2>4. CASE Medium
    BY <1>3, <2>1, <2>4, OnlyCuts, CutKeeps
  <2>5. CASE UNCHANGED vars
    <3>1. UNCHANGED <<sealVars, mediumVars, openVars>>
      BY <2>5 DEF vars
    <3>2. \A s \in Streams : FileInv(s)'
      BY <2>1, <3>1 DEF FileInv, Recorded, sealVars, mediumVars
    <3>3. ReaderInv'
      BY <2>1, <3>1 DEF ReaderInv, InStep, Completed, CounterAfter, Increment,
                        StoppedAtRead, sealVars, mediumVars, openVars
    <3> QED BY <3>2, <3>3
  <2> QED BY <2>2, <2>3, <2>4, <2>5 DEF Next
<1> QED BY <1>2, <1>3 DEF HonestInv

\* The initial state has nothing sealed, written or read.
LEMMA HonestInit == Init => HonestInv
<1> SUFFICES ASSUME Init PROVE HonestInv
  OBVIOUS
<1>1. ASSUME NEW s \in Streams PROVE SealedInv(s) /\ FileInv(s)
  <2>1. /\ spc[s] = "start" /\ scnt[s] = 0 /\ chunks[s] = <<>> /\ frames[s] = <<>>
        /\ tail[s] = "clean"
        /\ hdr[s] = [whole |-> FALSE, magic |-> TRUE, version |-> TRUE, prefix |-> s]
    BY DEF Init
  <2>2. Len(chunks[s]) = 0 /\ Len(frames[s]) = 0
    BY <2>1
  <2>3. SealedInv(s)
    BY <2>1, <2>2 DEF SealedInv, CounterAfter
  <2>4. FileInv(s)
    BY <2>1, <2>2 DEF FileInv
  <2> QED BY <2>3, <2>4
<1>2. ReaderInv
  BY DEF Init, ReaderInv, Completed
<1> QED BY <1>1, <1>2 DEF HonestInv

\* Nothing but cuts: what such files and their openers look like, at all times.
LEMMA HonestInductive == Spec => [](IInv /\ HonestInv)
<1>1. IInv /\ HonestInv /\ [Next]_vars => HonestInv'
  BY HonestStep
<1> QED BY <1>1, HonestInit, Inductive, PTL DEF Spec

\* What a SealStream call that returned nil wrote is read to the end by
\* OpenStream with the same key, also when the counter wrapped.
THEOREM SealedStreamOpens == Spec => []RoundTrip
<1>1. IInv /\ HonestInv => RoundTrip
  <2> SUFFICES ASSUME IInv, HonestInv, opc = "done", faults = <<>>,
                      spc[ofile] = "ok", okey = skey[ofile]
               PROVE  res = "nil" /\ Last(out).to = src[ofile].len
    BY DEF RoundTrip
  <2>1. ofile \in Streams
    BY DEF IInv, TypeOK
  <2>2. Cut
    BY DEF Cut
  <2>3. okey \in Keys /\ Completed
    BY <2>1, <2>2 DEF HonestInv, SealedInv, ReaderInv
  <2> QED BY <2>3 DEF Completed, Last
<1> QED BY <1>1, HonestInductive, PTL

\* A stream that was only cut, or left unfinished, is never reported as
\* tampered with by OpenStream with the right key, wherever the cut fell.
THEOREM CutsAreNotAttacks == Spec => []CutIsNotTampering
<1>1. IInv /\ HonestInv => CutIsNotTampering
  <2> SUFFICES ASSUME IInv, HonestInv, ToSet(faults) \subseteq {"truncate", "io"},
                      okey = skey[ofile]
               PROVE  res # "ErrTampered"
    BY DEF CutIsNotTampering
  <2>1. faults \in Seq(FaultKinds)
    BY DEF IInv, TypeOK
  <2>2. \A i \in 1 .. Len(faults) : faults[i] \in ToSet(faults)
    <3>1. DOMAIN faults = 1 .. Len(faults)
      BY <2>1
    <3> QED BY <3>1, Zenon DEF ToSet
  <2>3. Cut
    BY <2>2 DEF Cut
  <2> QED BY <2>3 DEF HonestInv, ReaderInv
<1> QED BY <1>1, HonestInductive, PTL
=============================================================================
