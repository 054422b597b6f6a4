------------------------------- MODULE Stream -------------------------------
(***************************************************************************)
(* The chunked streaming AEAD of stream.go: any number of SealStream calls *)
(* (one per member of Streams) and one OpenStream call that reads the      *)
(* output of one of them, over a medium (a file, a socket, a pipe) that    *)
(* may lose, cut, reorder, duplicate, splice or corrupt what it carries.   *)
(*                                                                         *)
(* Plaintext is abstracted to positions: a chunk holds the units from+1..to*)
(* of its stream's source.  AES-GCM is ideal: a ciphertext body remembers  *)
(* the key, nonce and additional data it was sealed under and opens under  *)
(* nothing else; a body nobody sealed carries the key BadKey.  The 8-byte  *)
(* nonce prefixes drawn from crypto/rand are distinct, so the stream's own *)
(* identifier stands for its prefix.                                       *)
(***************************************************************************)
EXTENDS Integers, Sequences, SequencesExt

CONSTANTS
  Streams,     \* the SealStream calls
  NoStream,    \* a nonce prefix no SealStream call drew
  Keys,        \* 32-byte keys
  BadKey,      \* a key of any other length; also "sealed by nobody"
  Sources,     \* what the readers given to SealStream will yield
  ChunkSizes,  \* the chunkSize arguments callers pass, valid or not
  MaxChunk,    \* streamMaxChunkSize
  TagSize,     \* the GCM tag's length
  LastBit,     \* weight of chunk_len's most significant bit
  CounterMod,  \* number of values of the uint32 chunk counter
  MaxFaults    \* bound: faults of the medium in one behaviour

\* How a source ends: cleanly, with an error of its own, or with the error
\* value io.ErrUnexpectedEOF of its own (a truncated download, a cut archive).
SourceEnds == {"EOF", "ioErr", "ErrUnexpectedEOF"}

ASSUME StreamAssumption ==
  /\ NoStream \notin Streams
  /\ BadKey \notin Keys
  /\ Sources \subseteq [len : Nat, end : SourceEnds]
  /\ ChunkSizes \subseteq Int
  /\ MaxChunk \in Nat \ {0}
  /\ TagSize \in Nat \ {0}
  /\ LastBit \in Nat
  /\ MaxChunk + TagSize < LastBit
  /\ CounterMod \in Nat \ {0}
  /\ MaxFaults \in Nat

VARIABLES
  \* one SealStream call per stream
  src,     \* the reader: how many units it yields and how it ends
  spc,     \* "start", "loop" (header written), "ok" / "err" (returned)
  skey,    \* the key passed
  csize,   \* the chunk size passed
  rd,      \* units read from the source so far
  scnt,    \* counter
  chunks,  \* history: every body gcm.Seal produced, in order
  \* the medium
  hdr,     \* the stream header as stored
  frames,  \* the [chunk_len][ciphertext] frames as stored
  tail,    \* what follows the last whole frame
  faults,  \* history: the faults injected
  \* the OpenStream call
  opc,     \* "idle", "loop", "done"
  okey, ofile, oprefix,  \* key, the file it reads, the nonce prefix read
  pos,     \* next frame of ofile
  ocnt,    \* counter
  out,     \* the pieces of plaintext written to w
  res      \* the error returned

sealVars == <<src, spc, skey, csize, rd, scnt, chunks>>
mediumVars == <<hdr, frames, tail, faults>>
openVars == <<opc, okey, ofile, oprefix, pos, ocnt, out, res>>
vars == <<sealVars, mediumVars, openVars>>

-----------------------------------------------------------------------------
(* Values                                                                  *)

Nonces == [prefix : Streams \cup {NoStream}, counter : 0 .. CounterMod - 1]
AADs == [counter : 0 .. CounterMod - 1, last : BOOLEAN]
Bodies == [key : Keys \cup {BadKey}, nonce : Nonces, aad : AADs,
           from : Nat, to : Nat]
Frames == [len : Nat, body : Bodies]
Headers == [whole : BOOLEAN, magic : BOOLEAN, version : BOOLEAN,
            prefix : Streams \cup {NoStream}]
Tails == {"clean", "cutLen", "cutBody"}
FaultKinds == {"truncate", "remove", "insert", "replace", "len", "garble",
               "header", "io"}
Results == {"none", "nil", "ErrInvalidKey", "ErrInvalidCiphertext",
            "ErrUnsupportedVersion", "ErrTruncated", "ErrTampered", "ioErr"}

\* The nonce of a chunk and the data authenticated with it.
makeStreamNonce_Fixed(prefix, counter) ==  \* mutant: the prefix is not used
  [prefix |-> NoStream, counter |-> counter]
makeStreamNonce(prefix, counter) == [prefix |-> prefix, counter |-> counter]
streamAAD_NoFlag(counter, last) == [counter |-> counter, last |-> FALSE] \* mutant
streamAAD(counter, last) == [counter |-> counter, last |-> last]

\* counter++ on a uint32
Increment_Stuck(counter) == counter  \* mutant: the increment is forgotten
Increment_Wide(counter) == counter + 1  \* mutant: the counter outgrows its field
Increment(counter) == (counter + 1) % CounterMod

\* The length field: a big-endian uint32 whose top bit is set on the last
\* chunk (an OR: it changes nothing if it is set already) and masked on reading.
LenField(ctLen, last) ==
  LET v == ctLen % (2 * LastBit)
  IN IF last /\ v < LastBit THEN v + LastBit ELSE v
IsLast(lenField) == lenField >= LastBit
CtLen_Unmasked(lenField) == lenField  \* mutant: the flag is left in the length
CtLen(lenField) ==
  IF IsLast(lenField) THEN lenField - LastBit ELSE lenField

\* len(ct): gcm.Seal appends the tag to the plaintext.
BodyLen(body) == (body.to - body.from) + TagSize

\* gcm.Open succeeds.
GcmOpens(body, key, nonce, aad) ==
  body.key = key /\ body.nonce = nonce /\ body.aad = aad

ValidChunkSize(n) == n > 0 /\ n <= MaxChunk

\* io.ReadFull on a source with `left` units to go: a full buffer is never an
\* error; a partly filled one turns EOF, and only EOF, into ErrUnexpectedEOF.
ReadFull(left, end, size) ==
  IF left >= size THEN [n |-> size, err |-> "nil"]
  ELSE [n |-> left,
        err |-> IF left > 0 /\ end = "EOF" THEN "ErrUnexpectedEOF" ELSE end]

NextRead(s) == ReadFull(src[s].len - rd[s], src[s].end, csize[s])

\* The switch on ReadFull's error: which errors mean "no more input".
EndOfInput(err) == err \in {"EOF", "ErrUnexpectedEOF"}

\* The chunk the next iteration of SealStream's loop seals.
NextChunk(s) ==
  LET last == EndOfInput(NextRead(s).err)
  IN [key |-> skey[s], nonce |-> makeStreamNonce(s, scnt[s]),
      aad |-> streamAAD(scnt[s], last),
      from |-> rd[s], to |-> rd[s] + NextRead(s).n]
NextFrame(s) ==
  [len |-> LenField(BodyLen(NextChunk(s)), EndOfInput(NextRead(s).err)),
   body |-> NextChunk(s)]

Closed(s) == spc[s] \in {"ok", "err"}

-----------------------------------------------------------------------------
Init ==
  /\ src \in [Streams -> Sources]
  /\ spc = [s \in Streams |-> "start"]
  /\ skey = [s \in Streams |-> BadKey]
  /\ csize = [s \in Streams |-> 0]
  /\ rd = [s \in Streams |-> 0]
  /\ scnt = [s \in Streams |-> 0]
  /\ chunks = [s \in Streams |-> <<>>]
  /\ hdr = [s \in Streams |-> [whole |-> FALSE, magic |-> TRUE,
                               version |-> TRUE, prefix |-> s]]
  /\ frames = [s \in Streams |-> <<>>]
  /\ tail = [s \in Streams |-> "clean"]
  /\ faults = <<>>
  /\ opc = "idle" /\ okey = BadKey /\ ofile = NoStream /\ oprefix = NoStream
  /\ pos = 1 /\ ocnt = 0 /\ out = <<>> /\ res = "none"

-----------------------------------------------------------------------------
(* SealStream                                                              *)

\* Argument checks, then the random prefix: an error before any write.
SealRejects(s) ==
  /\ spc[s] = "start"
  /\ \E k \in Keys \cup {BadKey}, n \in ChunkSizes, rngFails \in BOOLEAN :
       k = BadKey \/ ~ValidChunkSize(n) \/ rngFails
  /\ spc' = [spc EXCEPT ![s] = "err"]
  /\ UNCHANGED <<src, skey, csize, rd, scnt, chunks, mediumVars, openVars>>

\* The header is written: magic, version, nonce prefix.
SealStart(s, k, n) ==
  /\ spc[s] = "start"
  /\ ValidChunkSize(n)
  /\ spc' = [spc EXCEPT ![s] = "loop"]
  /\ skey' = [skey EXCEPT ![s] = k]
  /\ csize' = [csize EXCEPT ![s] = n]
  /\ hdr' = [hdr EXCEPT ![s].whole = TRUE]
  /\ UNCHANGED <<src, rd, scnt, chunks, frames, tail, faults, openVars>>

\* One of the header's writes fails; its bytes may have gone out all the same.
SealHeaderFails(s, k, n) ==
  /\ spc[s] = "start"
  /\ ValidChunkSize(n)
  /\ spc' = [spc EXCEPT ![s] = "err"]
  /\ skey' = [skey EXCEPT ![s] = k]
  /\ csize' = [csize EXCEPT ![s] = n]
  /\ \E w \in BOOLEAN : hdr' = [hdr EXCEPT ![s].whole = w]
  /\ UNCHANGED <<src, rd, scnt, chunks, frames, tail, faults, openVars>>

\* An iteration of the loop: read, seal, write the length and the body.
SealChunk(s) ==
  /\ spc[s] = "loop"
  /\ NextRead(s).err = "nil" \/ EndOfInput(NextRead(s).err)
  /\ chunks' = [chunks EXCEPT ![s] = Append(@, NextChunk(s))]
  /\ frames' = [frames EXCEPT ![s] = Append(@, NextFrame(s))]
  /\ rd' = [rd EXCEPT ![s] = @ + NextRead(s).n]
  /\ scnt' = [scnt EXCEPT ![s] = Increment(@)]
  /\ spc' = [spc EXCEPT ![s] =
               IF EndOfInput(NextRead(s).err) THEN "ok" ELSE "loop"]
  /\ UNCHANGED <<src, skey, csize, hdr, tail, faults, openVars>>

\* The source fails with an error the switch does not take for the end.
SealReadFails(s) ==
  /\ spc[s] = "loop"
  /\ ~(NextRead(s).err = "nil" \/ EndOfInput(NextRead(s).err))
  /\ rd' = [rd EXCEPT ![s] = @ + NextRead(s).n]
  /\ spc' = [spc EXCEPT ![s] = "err"]
  /\ UNCHANGED <<src, skey, csize, scnt, chunks, mediumVars, openVars>>

\* One of the iteration's two writes fails, having written nothing, part of
\* the length, the length and part of the body, or everything.
SealWriteFails(s) ==
  /\ spc[s] = "loop"
  /\ NextRead(s).err = "nil" \/ EndOfInput(NextRead(s).err)
  /\ chunks' = [chunks EXCEPT ![s] = Append(@, NextChunk(s))]
  /\ rd' = [rd EXCEPT ![s] = @ + NextRead(s).n]
  /\ spc' = [spc EXCEPT ![s] = "err"]
  /\ \/ /\ \E t \in Tails : tail' = [tail EXCEPT ![s] = t]
        /\ UNCHANGED frames
     \/ /\ frames' = [frames EXCEPT ![s] = Append(@, NextFrame(s))]
        /\ UNCHANGED tail
  /\ UNCHANGED <<src, skey, csize, scnt, hdr, faults, openVars>>

-----------------------------------------------------------------------------
(* OpenStream                                                              *)

Return(r) == opc' = "done" /\ res' = r

\* Key check and header: the call reads file f with key k.
OpenStart(f, k) ==
  /\ opc = "idle"
  /\ ofile' = f /\ okey' = k
  /\ \/ /\ k = BadKey
        /\ Return("ErrInvalidKey") /\ UNCHANGED oprefix
     \/ /\ k # BadKey /\ ~hdr[f].whole /\ Closed(f)
        /\ Return("ErrInvalidCiphertext") /\ UNCHANGED oprefix
     \/ /\ k # BadKey /\ hdr[f].whole /\ ~hdr[f].magic
        /\ Return("ErrInvalidCiphertext") /\ UNCHANGED oprefix
     \/ /\ k # BadKey /\ hdr[f].whole /\ hdr[f].magic /\ ~hdr[f].version
        /\ Return("ErrUnsupportedVersion") /\ UNCHANGED oprefix
     \/ /\ k # BadKey /\ hdr[f].whole /\ hdr[f].magic /\ hdr[f].version
        /\ opc' = "loop" /\ oprefix' = hdr[f].prefix /\ UNCHANGED res
  /\ UNCHANGED <<pos, ocnt, out, sealVars, mediumVars>>

\* r.Read fails before the header is whole.
OpenHeaderFails(f, k) ==
  /\ opc = "idle"
  /\ k # BadKey
  /\ Len(faults) < MaxFaults
  /\ ofile' = f /\ okey' = k
  /\ Return("ErrInvalidCiphertext")
  /\ faults' = Append(faults, "io")
  /\ UNCHANGED <<oprefix, pos, ocnt, out, sealVars, hdr, frames, tail>>

HasFrame == opc = "loop" /\ pos <= Len(frames[ofile])
Frame == frames[ofile][pos]

\* Mutant: each chunk is opened under a nonce of its own, not the header's.
Authentic_OwnNonce ==
  /\ CtLen(Frame.len) = BodyLen(Frame.body)
  /\ GcmOpens(Frame.body, okey, Frame.body.nonce,
              streamAAD(ocnt, IsLast(Frame.len)))

\* The whole frame is there and its body authenticates at this position.
Authentic ==
  /\ CtLen(Frame.len) = BodyLen(Frame.body)
  /\ GcmOpens(Frame.body, okey, makeStreamNonce(oprefix, ocnt),
              streamAAD(ocnt, IsLast(Frame.len)))

\* Reading CtLen(Frame.len) bytes runs past the last byte of a closed file.
RunsOut ==
  /\ CtLen(Frame.len) > BodyLen(Frame.body)
  /\ Closed(ofile)

\* The bytes read for the body are there and are not the body's own.
Misaligned ==
  \/ CtLen(Frame.len) < BodyLen(Frame.body)
  \/ /\ CtLen(Frame.len) > BodyLen(Frame.body)
     /\ pos < Len(frames[ofile]) \/ tail[ofile] # "clean"

\* An iteration that decrypts a chunk and writes it out.
OpenChunk ==
  /\ HasFrame /\ Authentic
  /\ out' = Append(out, Frame.body)
  /\ pos' = pos + 1
  /\ ocnt' = Increment(ocnt)
  /\ IF IsLast(Frame.len) THEN Return("nil") ELSE UNCHANGED <<opc, res>>
  /\ UNCHANGED <<okey, ofile, oprefix, sealVars, mediumVars>>

\* ... whose w.Write fails after writing some of the plaintext.
OpenWriteFails ==
  /\ HasFrame /\ Authentic
  /\ Len(faults) < MaxFaults
  /\ \E m \in Frame.body.from .. Frame.body.to :
       out' = Append(out, [Frame.body EXCEPT !.to = m])
  /\ Return("ioErr")
  /\ faults' = Append(faults, "io")
  /\ UNCHANGED <<okey, ofile, oprefix, pos, ocnt, sealVars, hdr, frames, tail>>

\* gcm.Open fails.
OpenTampered ==
  /\ HasFrame
  /\ Misaligned \/ (CtLen(Frame.len) = BodyLen(Frame.body) /\ ~Authentic)
  /\ Return("ErrTampered")
  /\ UNCHANGED <<okey, ofile, oprefix, pos, ocnt, out, sealVars, mediumVars>>

\* Mutant: what was read of a body that ends early goes to gcm.Open.
OpenShortBody_PassesOn ==
  /\ opc = "loop"
  /\ \/ HasFrame /\ RunsOut
     \/ ~HasFrame /\ Closed(ofile) /\ tail[ofile] = "cutBody"
  /\ Return("ErrTampered")
  /\ UNCHANGED <<okey, ofile, oprefix, pos, ocnt, out, sealVars, mediumVars>>

\* The input ends inside a body.
OpenShortBody ==
  /\ opc = "loop"
  /\ \/ HasFrame /\ RunsOut
     \/ ~HasFrame /\ Closed(ofile) /\ tail[ofile] = "cutBody"
  /\ Return("ErrInvalidCiphertext")
  /\ UNCHANGED <<okey, ofile, oprefix, pos, ocnt, out, sealVars, mediumVars>>

\* Mutant: a partly read length field is retried.
OpenTruncated_Retries ==
  /\ opc = "loop" /\ ~HasFrame /\ Closed(ofile)
  /\ tail[ofile] = "clean"
  /\ Return("ErrTruncated")
  /\ UNCHANGED <<okey, ofile, oprefix, pos, ocnt, out, sealVars, mediumVars>>

\* The input ends before or inside a length field.
OpenTruncated ==
  /\ opc = "loop" /\ ~HasFrame /\ Closed(ofile)
  /\ tail[ofile] \in {"clean", "cutLen"}
  /\ Return("ErrTruncated")
  /\ UNCHANGED <<okey, ofile, oprefix, pos, ocnt, out, sealVars, mediumVars>>

\* r.Read fails: reported as is for a length field, as ErrInvalidCiphertext
\* for a body.
OpenReadFails ==
  /\ opc = "loop"
  /\ Len(faults) < MaxFaults
  /\ \E r \in {"ioErr", "ErrInvalidCiphertext"} : Return(r)
  /\ faults' = Append(faults, "io")
  /\ UNCHANGED <<okey, ofile, oprefix, pos, ocnt, out, sealVars,
                 hdr, frames, tail>>

-----------------------------------------------------------------------------
(* The medium, outside the code: faults on what the opener has not read.   *)

Unread(f) == IF f = ofile THEN pos ELSE 1

Fault(kind) ==
  /\ Len(faults) < MaxFaults
  /\ opc # "done"
  /\ faults' = Append(faults, kind)
  /\ UNCHANGED <<sealVars, openVars>>

\* A stored file is cut at frame i, leaving a piece of that frame or nothing.
Truncate(f, i) ==
  /\ Closed(f)
  /\ Fault("truncate")
  /\ frames' = [frames EXCEPT ![f] = SubSeq(@, 1, i - 1)]
  /\ \E t \in Tails : tail' = [tail EXCEPT ![f] = t]
  /\ UNCHANGED hdr

RemoveFrame(f, i) ==
  /\ Fault("remove")
  /\ frames' = [frames EXCEPT ![f] = RemoveAt(@, i)]
  /\ UNCHANGED <<hdr, tail>>

\* Chunk j of stream t, as its sealer wrote it.
Recorded(t, j) ==
  [len |-> LenField(BodyLen(chunks[t][j]), chunks[t][j].aad.last),
   body |-> chunks[t][j]]

InsertFrame(f, i, t, j) ==
  /\ Fault("insert")
  /\ frames' = [frames EXCEPT ![f] = InsertAt(@, i, Recorded(t, j))]
  /\ UNCHANGED <<hdr, tail>>

ReplaceFrame(f, i, t, j) ==
  /\ Fault("replace")
  /\ frames' = [frames EXCEPT ![f] = ReplaceAt(@, i, Recorded(t, j))]
  /\ UNCHANGED <<hdr, tail>>

ChangeLen(f, i) ==
  /\ Fault("len")
  /\ \E v \in 0 .. 2 * LastBit - 1 :
       frames' = [frames EXCEPT ![f][i].len = v]
  /\ UNCHANGED <<hdr, tail>>

GarbleFrame(f, i) ==
  /\ Fault("garble")
  /\ frames' = [frames EXCEPT ![f][i].body.key = BadKey]
  /\ UNCHANGED <<hdr, tail>>

ChangeHeader(f) ==
  /\ opc = "idle"
  /\ hdr[f].whole
  /\ Fault("header")
  /\ \E h \in Headers : hdr' = [hdr EXCEPT ![f] = h]
  /\ UNCHANGED <<frames, tail>>

-----------------------------------------------------------------------------
Seal(s) ==
  \/ SealRejects(s)
  \/ \E k \in Keys, n \in ChunkSizes : SealStart(s, k, n)
  \/ \E k \in Keys, n \in ChunkSizes : SealHeaderFails(s, k, n)
  \/ SealChunk(s)
  \/ SealReadFails(s)
  \/ SealWriteFails(s)

OpenStep ==
  \/ OpenChunk \/ OpenTampered \/ OpenShortBody \/ OpenTruncated

Open ==
  \/ \E f \in Streams, k \in Keys \cup {BadKey} : OpenStart(f, k)
  \/ \E f \in Streams, k \in Keys : OpenHeaderFails(f, k)
  \/ OpenStep
  \/ OpenWriteFails
  \/ OpenReadFails

Medium ==
  \E f \in Streams :
    \/ \E i \in Unread(f) .. Len(frames[f]) :
         \/ Truncate(f, i) \/ RemoveFrame(f, i) \/ ChangeLen(f, i) \/ GarbleFrame(f, i)
         \/ \E t \in Streams : \E j \in 1 .. Len(chunks[t]) :
              ReplaceFrame(f, i, t, j)
    \/ \E i \in Unread(f) .. Len(frames[f]) + 1, t \in Streams :
         \E j \in 1 .. Len(chunks[t]) : InsertFrame(f, i, t, j)
    \/ ChangeHeader(f)

Next == (\E s \in Streams : Seal(s)) \/ Open \/ Medium

Spec == Init /\ [][Next]_vars

\* Each call runs in a goroutine the scheduler does not starve, and both its
\* source and its writer answer.
Fairness ==
  /\ \A s \in Streams : WF_vars(Seal(s))
  /\ WF_vars(OpenStep)

FairSpec == Spec /\ Fairness

-----------------------------------------------------------------------------
(* Properties                                                              *)

\* The state of both calls and of what they wrote has its types; in particular
\* the counters stay uint32 values.
TypeOK ==
  /\ src \in [Streams -> Sources]
  /\ spc \in [Streams -> {"start", "loop", "ok", "err"}]
  /\ skey \in [Streams -> Keys \cup {BadKey}]
  /\ csize \in [Streams -> Nat]
  /\ rd \in [Streams -> Nat]
  /\ scnt \in [Streams -> 0 .. CounterMod - 1]
  /\ chunks \in [Streams -> Seq(Bodies)]
  /\ hdr \in [Streams -> Headers]
  /\ frames \in [Streams -> Seq(Frames)]
  /\ tail \in [Streams -> Tails]
  /\ faults \in Seq(FaultKinds)
  /\ opc \in {"idle", "loop", "done"}
  /\ okey \in Keys \cup {BadKey}
  /\ ofile \in Streams \cup {NoStream}
  /\ opc # "idle" => ofile \in Streams
  /\ oprefix \in Streams \cup {NoStream}
  /\ pos \in Nat \ {0}
  /\ ocnt \in 0 .. CounterMod - 1
  /\ out \in Seq(Bodies)
  /\ res \in Results

\* Stream s has not used any counter value twice: it has at most CounterMod
\* chunks, and CounterMod of them only when the last one ends the stream.
CounterFits(s) ==
  /\ Len(chunks[s]) <= CounterMod
  /\ Len(chunks[s]) = CounterMod => chunks[s][CounterMod].aad.last

\* What OpenStream has written is, at every moment and whatever the medium
\* did, the beginning of the source of the one stream whose prefix the header
\* names: no gap, repetition, reordering or splice.
DeliveredInOrder ==
  oprefix \in Streams /\ CounterFits(oprefix) =>
    \A i \in 1 .. Len(out) :
      /\ out[i].nonce.prefix = oprefix
      /\ out[i].from = IF i = 1 THEN 0 ELSE out[i - 1].to

\* OpenStream returns nil only after writing the whole source of that stream,
\* so no cut, however placed, passes for the end.
SuccessMeansComplete ==
  res = "nil" /\ oprefix \in Streams /\ CounterFits(oprefix) =>
    /\ out # <<>>
    /\ Last(out).to = src[oprefix].len
    /\ src[oprefix].end # "ioErr"

\* SealStream's output opens: with the right key and an honest medium,
\* OpenStream never rejects what a SealStream call that returned nil wrote,
\* even where the counter wrapped.
RoundTrip ==
  opc = "done" /\ faults = <<>> /\ spc[ofile] = "ok" /\ okey = skey[ofile] =>
    res = "nil" /\ Last(out).to = src[ofile].len

\* A file that was only cut, at any byte and however often, or left unfinished
\* by a sealer that failed, is never reported as tampered with: under the key
\* it was sealed with OpenStream returns ErrTruncated or ErrInvalidCiphertext,
\* or the error of the reader or the writer, whatever chunk the cut fell in.
CutIsNotTampering ==
  ToSet(faults) \subseteq {"truncate", "io"} /\ ofile \in Streams /\ okey = skey[ofile] =>
    res # "ErrTampered"

\* No two chunks sealed under one key share a nonce while counters fit: the
\* condition AES-GCM's security rests on.
NonceNeverReused ==
  \A s, t \in Streams :
    \A i \in 1 .. Len(chunks[s]), j \in 1 .. Len(chunks[t]) :
      /\ CounterFits(s)
      /\ chunks[s][i].key = chunks[t][j].key
      /\ chunks[s][i].nonce = chunks[t][j].nonce
      => s = t /\ i = j

\* Every SealStream call returns, and an OpenStream call that got past the
\* header returns too: no read waits for ever and no loop runs for ever.
CallsReturn ==
  /\ \A s \in Streams : <>Closed(s)
  /\ opc = "loop" ~> opc = "done"

-----------------------------------------------------------------------------
(* What a comment says that the code does not do.                          *)

\* stream.go:63: errors are returned from r.Read().
SourceErrorReported ==
  \A s \in Streams : spc[s] = "ok" => src[s].end = "EOF"
=============================================================================
