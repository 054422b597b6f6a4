------------------------------ MODULE Envelope ------------------------------
(***************************************************************************)
(* kms.go: EnvelopeSealer over the in-memory StaticKMS.  Callers seal and  *)
(* open at once while keys are registered; StaticKMS's lock makes AddKey   *)
(* and lookup single steps, and everything between them can interleave.    *)
(*                                                                         *)
(* A call holds its data key in a buffer, buf[p], which it zeroes when it  *)
(* returns.  A ciphertext is a wrapped data key and an inner ciphertext,   *)
(* named by their numbers; whoever stores them may pair them otherwise.    *)
(***************************************************************************)
EXTENDS Naturals, Sequences, Aead

CONSTANTS
  Callers,
  KeyIDs,
  KEKs,       \* 32-byte key encryption keys
  NoKek,      \* what a map lookup gives for an unknown keyID
  DataKeys,   \* the values crypto/rand can draw for a data key
  Zero,       \* a zeroed buffer
  AADs,
  NilAAD,     \* the aad of a wrapped key
  MaxWraps,   \* bound: keys wrapped
  MaxInners   \* bound: plaintexts sealed

ASSUME EnvelopeAssumption ==
  /\ NoKek \notin KEKs
  /\ BadKey \notin KEKs \cup DataKeys
  /\ Zero \notin DataKeys
  /\ NilAAD \notin AADs
  /\ MaxWraps \in Nat /\ MaxInners \in Nat

VARIABLES
  keks,    \* StaticKMS.keks
  call,    \* per caller: the EnvelopeSealer call under way
  buf,     \* per caller: the contents of its data key buffer
  ret,     \* what the last call to return returned, and what it opened
  wraps,   \* history: the wrapped keys StaticKMS issued
  inners,  \* history: the inner ciphertexts
  left,    \* history: data keys StaticKMS drew and could not wrap
  cts      \* history: the ciphertexts Seal returned

vars == <<keks, call, buf, ret, wraps, inners, left, cts>>

Idle == [op |-> "idle", id |-> NoKek, kek |-> NoKek, w |-> 0, i |-> 0,
         aad |-> NilAAD]
NoRet == [err |-> "none", w |-> 0, i |-> 0, aad |-> NilAAD]

Init ==
  /\ keks = [id \in KeyIDs |-> NoKek]
  /\ call = [p \in Callers |-> Idle]
  /\ buf = [p \in Callers |-> Zero]
  /\ ret = NoRet
  /\ wraps = <<>> /\ inners = <<>> /\ left = {} /\ cts = <<>>

Continue(p, c) == call' = [call EXCEPT ![p] = c]
Return(p, err) ==
  /\ call' = [call EXCEPT ![p] = Idle]
  /\ ret' = [err |-> err, w |-> call[p].w, i |-> call[p].i, aad |-> call[p].aad]
ReturnAtOnce(err) == ret' = [NoRet EXCEPT !.err = err] /\ UNCHANGED call

\* zeroBytes(dek)
zeroBytes_Skipped(p) == UNCHANGED buf  \* mutant
zeroBytes(p) == buf' = [buf EXCEPT ![p] = Zero]

\* The data keys drawn so far: a fresh draw is none of them.
Drawn == {wraps[w].pt : w \in 1 .. Len(wraps)} \cup left

-----------------------------------------------------------------------------
(* StaticKMS                                                               *)

AddKey_Any(p, id, key) ==  \* mutant: the length check is forgotten
  /\ call[p] = Idle
  /\ ReturnAtOnce("nil")
  /\ keks' = [keks EXCEPT ![id] = key]
  /\ UNCHANGED <<buf, wraps, inners, left, cts>>

\* AddKey registers a key, in place of the one the keyID had.
AddKey(p, id, key) ==
  /\ call[p] = Idle
  /\ IF key = BadKey
     THEN ReturnAtOnce("ErrInvalidKey") /\ UNCHANGED keks
     ELSE ReturnAtOnce("nil") /\ keks' = [keks EXCEPT ![id] = key]
  /\ UNCHANGED <<buf, wraps, inners, left, cts>>

\* Encrypt wraps a blob of the caller's, here one that is no data key.  No
\* step of it but the lookup reads the map, so it is one step.
Encrypt(p, id) ==
  /\ call[p] = Idle
  /\ Len(wraps) < MaxWraps
  /\ IF keks[id] = NoKek
     THEN ReturnAtOnce("unknownKeyID") /\ UNCHANGED wraps
     ELSE /\ wraps' = Append(wraps, Sealed(keks[id], BadKey, NilAAD))
          /\ ReturnAtOnce("nil")
  /\ UNCHANGED <<keks, buf, inners, left, cts>>

-----------------------------------------------------------------------------
(* EnvelopeSealer.Seal                                                     *)

\* GenerateDataKey looks the key up.
SealLooksUp(p, id, aad) ==
  /\ call[p] = Idle
  /\ IF keks[id] = NoKek
     THEN ReturnAtOnce("unknownKeyID")
     ELSE /\ Continue(p, [Idle EXCEPT !.op = "generate", !.id = id,
                                      !.kek = keks[id], !.aad = aad])
          /\ UNCHANGED ret
  /\ UNCHANGED <<keks, buf, wraps, inners, left, cts>>

\* GenerateDataKey draws a key and wraps it under the KEK it looked up.
SealGenerates_Fixed(p, d) ==  \* mutant: a key that was drawn before is used again
  /\ call[p].op = "generate"
  /\ Len(wraps) < MaxWraps
  /\ buf' = [buf EXCEPT ![p] = d]
  /\ wraps' = Append(wraps, Sealed(call[p].kek, d, NilAAD))
  /\ Continue(p, [call[p] EXCEPT !.op = "encrypt", !.w = Len(wraps) + 1])
  /\ UNCHANGED <<keks, ret, inners, left, cts>>
SealGenerates(p, d) ==
  /\ call[p].op = "generate"
  /\ Len(wraps) < MaxWraps
  /\ d \notin Drawn
  /\ buf' = [buf EXCEPT ![p] = d]
  /\ wraps' = Append(wraps, Sealed(call[p].kek, d, NilAAD))
  /\ Continue(p, [call[p] EXCEPT !.op = "encrypt", !.w = Len(wraps) + 1])
  /\ UNCHANGED <<keks, ret, inners, left, cts>>

\* The random source fails, for the data key or for the wrap's nonce; in the
\* second case the key drawn stays in memory.
SealGenerateFails(p) ==
  /\ call[p].op = "generate"
  /\ \/ Return(p, "rngErr") /\ UNCHANGED left
     \/ \E d \in DataKeys \ Drawn :
          left' = left \cup {d} /\ Return(p, "rngErr")
  /\ UNCHANGED <<keks, buf, wraps, inners, cts>>

\* The plaintext is sealed under what the buffer holds, then the buffer is
\* zeroed and the two parts are returned.
SealEncrypts_AfterZero(p) ==  \* mutant: the buffer is zeroed first
  /\ call[p].op = "encrypt"
  /\ Len(inners) < MaxInners
  /\ inners' = Append(inners, Sealed(Zero, Len(inners) + 1, call[p].aad))
  /\ cts' = Append(cts, [id |-> call[p].id, kek |-> call[p].kek, w |-> call[p].w,
                         i |-> Len(inners) + 1, aad |-> call[p].aad])
  /\ zeroBytes(p)
  /\ Return(p, "nil")
  /\ UNCHANGED <<keks, wraps, left>>
SealEncrypts(p) ==
  /\ call[p].op = "encrypt"
  /\ Len(inners) < MaxInners
  /\ inners' = Append(inners, Sealed(buf[p], Len(inners) + 1, call[p].aad))
  /\ cts' = Append(cts, [id |-> call[p].id, kek |-> call[p].kek, w |-> call[p].w,
                         i |-> Len(inners) + 1, aad |-> call[p].aad])
  /\ zeroBytes(p)
  /\ Return(p, "nil")
  /\ UNCHANGED <<keks, wraps, left>>

SealEncryptFails(p) ==
  /\ call[p].op = "encrypt"
  /\ zeroBytes(p)
  /\ Return(p, "rngErr")
  /\ UNCHANGED <<keks, wraps, inners, left, cts>>

-----------------------------------------------------------------------------
(* EnvelopeSealer.Open                                                     *)

\* Text that does not parse, by the first check it fails.
Malformed == {"ErrInvalidCiphertext", "ErrCiphertextTooShort", "ErrUnsupportedVersion"}

OpenRejects(p) ==
  /\ call[p] = Idle
  /\ \E err \in Malformed : ReturnAtOnce(err)
  /\ UNCHANGED <<keks, buf, wraps, inners, left, cts>>

\* The parts are told apart and StaticKMS.Decrypt looks the key up.
OpenLooksUp(p, id, w, i, aad) ==
  /\ call[p] = Idle
  /\ IF keks[id] = NoKek
     THEN ReturnAtOnce("unknownKeyID")
     ELSE /\ Continue(p, [op |-> "unwrap", id |-> id, kek |-> keks[id], w |-> w,
                          i |-> i, aad |-> aad])
          /\ UNCHANGED ret
  /\ UNCHANGED <<keks, buf, wraps, inners, left, cts>>

\* The wrapped key opens under the KEK looked up, or does not.
OpenUnwraps(p) ==
  LET err == OpenError(call[p].kek, wraps[call[p].w], NilAAD)
  IN /\ call[p].op = "unwrap"
     /\ IF err = "nil"
        THEN /\ buf' = [buf EXCEPT ![p] = wraps[call[p].w].pt]
             /\ Continue(p, [call[p] EXCEPT !.op = "decrypt"])
             /\ UNCHANGED ret
        ELSE Return(p, err) /\ UNCHANGED buf
     /\ UNCHANGED <<keks, wraps, inners, left, cts>>

OpenDecrypts(p) ==
  /\ call[p].op = "decrypt"
  /\ Return(p, OpenError(buf[p], inners[call[p].i], call[p].aad))
  /\ zeroBytes(p)
  /\ UNCHANGED <<keks, wraps, inners, left, cts>>

-----------------------------------------------------------------------------
(* The store may hand Open a part nobody issued: a copy of one, damaged.   *)

Spoil(form) ==
  \/ /\ Len(wraps) \in 1 .. MaxWraps - 1
     /\ \E w \in 1 .. Len(wraps) :
          wraps' = Append(wraps, [wraps[w] EXCEPT !.form = form])
     /\ UNCHANGED inners
  \/ /\ Len(inners) \in 1 .. MaxInners - 1
     /\ \E i \in 1 .. Len(inners) :
          inners' = Append(inners, [inners[i] EXCEPT !.form = form])
     /\ UNCHANGED wraps

Damage ==
  /\ \E form \in Forms \ {"whole"} : Spoil(form)
  /\ UNCHANGED <<keks, call, buf, ret, left, cts>>

Seal(p) ==
  \/ \E id \in KeyIDs, aad \in AADs : SealLooksUp(p, id, aad)
  \/ \E d \in DataKeys : SealGenerates(p, d)
  \/ SealGenerateFails(p) \/ SealEncrypts(p) \/ SealEncryptFails(p)

Open(p) ==
  \/ OpenRejects(p)
  \/ \E id \in KeyIDs, w \in 1 .. Len(wraps), i \in 1 .. Len(inners), aad \in AADs :
       OpenLooksUp(p, id, w, i, aad)
  \/ OpenUnwraps(p) \/ OpenDecrypts(p)

Kms(p) ==
  \E id \in KeyIDs : Encrypt(p, id) \/ \E key \in KEKs \cup {BadKey} : AddKey(p, id, key)

Next == Damage \/ \E p \in Callers : Seal(p) \/ Open(p) \/ Kms(p)

Spec == Init /\ [][Next]_vars

-----------------------------------------------------------------------------
Buffers == DataKeys \cup {Zero, BadKey}
Results == OpenErrors \cup {"none", "unknownKeyID", "rngErr"}

\* The registry, the calls and what they produced have their types; only
\* 32-byte KEKs are registered.
TypeOK ==
  /\ keks \in [KeyIDs -> KEKs \cup {NoKek}]
  /\ call \in [Callers -> [op : {"idle", "generate", "encrypt", "unwrap", "decrypt"},
                           id : KeyIDs \cup {NoKek}, kek : KEKs \cup {NoKek},
                           w : 0 .. Len(wraps), i : 0 .. Len(inners),
                           aad : AADs \cup {NilAAD}]]
  /\ buf \in [Callers -> Buffers]
  /\ left \in SUBSET DataKeys
  /\ ret \in [err : Results, w : Nat, i : Nat, aad : AADs \cup {NilAAD}]
  /\ wraps \in Seq([form : Forms, ver : {V1}, key : KEKs, aad : {NilAAD}, pt : Buffers])
  /\ inners \in Seq([form : Forms, ver : {V1}, key : DataKeys, aad : AADs, pt : Nat])
  /\ cts \in Seq([id : KeyIDs, kek : KEKs, w : 1 .. Len(wraps),
                  i : 1 .. Len(inners), aad : AADs])

\* Open gives back a plaintext only for a wrapped key and an inner ciphertext
\* that one Seal call returned together, and with that call's aad: rows whose
\* parts were exchanged or damaged never open, however calls interleave.
OpenedAsSealed ==
  ret.err = "nil" /\ ret.i # 0 =>
    \E n \in 1 .. Len(cts) :
      cts[n].w = ret.w /\ cts[n].i = ret.i /\ cts[n].aad = ret.aad

\* Every ciphertext Seal returned opens with its aad for as long as the KEK
\* its data key was wrapped under is the one registered: the wrapped key is the
\* key the plaintext was sealed under, although the buffer is zeroed.
SealedReadable ==
  \A n \in 1 .. Len(cts) :
    LET wrap == wraps[cts[n].w]
    IN /\ OpenError(cts[n].kek, wrap, NilAAD) = "nil"
       /\ OpenError(wrap.pt, inners[cts[n].i], cts[n].aad) = "nil"

\* A data key is in a caller's buffer only while Seal or Open is about to use
\* it: on every path out of them it is gone.  (What a failed wrap leaves behind
\* inside StaticKMS is in `left`: those keys have sealed nothing.)
KeysWiped ==
  /\ \A p \in Callers : buf[p] # Zero => call[p].op \in {"encrypt", "decrypt"}
  /\ \A i \in 1 .. Len(inners) : inners[i].key \notin left
=============================================================================
