------------------------------ MODULE KeyRing ------------------------------
(***************************************************************************)
(* keyring.go: one KeyRing shared by several callers.  The type has no     *)
(* lock, so a method that changes the ring or reads it twice is two steps: *)
(* its checks (or first read) and its effect (or second read).  Serialized *)
(* says whether the callers keep their calls apart themselves.             *)
(*                                                                         *)
(* AES-GCM is ideal: a ciphertext remembers the key and additional data it *)
(* was sealed under and opens under nothing else.  Its number in cts is    *)
(* its nonce and its plaintext.                                            *)
(***************************************************************************)
EXTENDS Naturals, Sequences

CONSTANTS
  Callers,
  Kids,        \* kids of 1..64 bytes
  BadKid,      \* a kid that is empty or longer
  Keys,        \* 32-byte keys
  BadKey,      \* a key of another length
  NoKey,       \* what a map lookup gives for a missing kid
  AADs,
  MaxCts,      \* bound: ciphertexts issued
  Serialized   \* callers never overlap their calls on the ring

ASSUME KeyRingAssumption ==
  /\ BadKid \notin Kids
  /\ BadKey \notin Keys
  /\ NoKey \notin Keys
  /\ NoKey # BadKey
  /\ MaxCts \in Nat
  /\ Serialized \in BOOLEAN

VARIABLES
  live,     \* NewKeyRing has returned a ring
  active,   \* r.active
  keys,     \* r.keys: the cipher.AEAD of a key, named by the key
  rawKeys,  \* r.rawKeys
  call,     \* per caller: the method under way and what it holds
  ret,      \* per caller: what its last call returned
  cts,      \* history: the ciphertexts issued
  dropped   \* history: the kids ever removed

ringVars == <<live, active, keys, rawKeys>>
vars == <<ringVars, call, ret, cts, dropped>>

Idle == [op |-> "idle", kid |-> BadKid, key |-> NoKey]

Has(kid) == kid \in Kids /\ keys[kid] # NoKey

\* A caller may start a method on the ring.
MayCall(p) ==
  /\ live
  /\ call[p] = Idle
  /\ Serialized => \A q \in Callers : call[q] = Idle

Returns(p, r) == ret' = [ret EXCEPT ![p] = r]
Begin(p, op, kid, key) ==
  call' = [call EXCEPT ![p] = [op |-> op, kid |-> kid, key |-> key]]
End(p) == call' = [call EXCEPT ![p] = Idle]

validKid(kid) == kid # BadKid
validKey_Any(key) == TRUE  \* mutant: the length check is forgotten
validKey(key) == key # BadKey

Init ==
  /\ live = FALSE
  /\ active = BadKid
  /\ keys = [k \in Kids |-> NoKey]
  /\ rawKeys = [k \in Kids |-> NoKey]
  /\ call = [p \in Callers |-> Idle]
  /\ ret = [p \in Callers |-> "none"]
  /\ cts = <<>>
  /\ dropped = {}

-----------------------------------------------------------------------------
NewKeyRing(p, kid, key) ==
  /\ ~live
  /\ \/ /\ ~validKid(kid)
        /\ Returns(p, "badKid") /\ UNCHANGED ringVars
     \/ /\ validKid(kid) /\ ~validKey(key)
        /\ Returns(p, "ErrInvalidKey") /\ UNCHANGED ringVars
     \/ /\ validKid(kid) /\ validKey(key)
        /\ live' = TRUE
        /\ active' = kid
        /\ keys' = [keys EXCEPT ![kid] = key]
        /\ rawKeys' = [rawKeys EXCEPT ![kid] = key]
        /\ Returns(p, "nil")
  /\ UNCHANGED <<call, cts, dropped>>

\* Mutant of AddChecks: an existing kid is overwritten.
AddChecks_Overwrites(p, kid, key) ==
  /\ MayCall(p)
  /\ validKid(kid) /\ validKey(key)
  /\ Begin(p, "Add", kid, key)
  /\ UNCHANGED <<ringVars, ret, cts, dropped>>

\* Add: kid, duplicate and key length are checked in this order; then both
\* maps are written.
AddChecks(p, kid, key) ==
  /\ MayCall(p)
  /\ \/ /\ ~validKid(kid)
        /\ Returns(p, "badKid") /\ UNCHANGED call
     \/ /\ validKid(kid) /\ Has(kid)
        /\ Returns(p, "exists") /\ UNCHANGED call
     \/ /\ validKid(kid) /\ ~Has(kid) /\ ~validKey(key)
        /\ Returns(p, "ErrInvalidKey") /\ UNCHANGED call
     \/ /\ validKid(kid) /\ ~Has(kid) /\ validKey(key)
        /\ Begin(p, "Add", kid, key) /\ UNCHANGED ret
  /\ UNCHANGED <<ringVars, cts, dropped>>

AddStores(p) ==
  /\ call[p].op = "Add"
  /\ keys' = [keys EXCEPT ![call[p].kid] = call[p].key]
  /\ rawKeys' = [rawKeys EXCEPT ![call[p].kid] = call[p].key]
  /\ End(p) /\ Returns(p, "nil")
  /\ UNCHANGED <<live, active, cts, dropped>>

\* Mutant of RemoveChecks: the active kid is not refused.
RemoveChecks_Active(p, kid) ==
  /\ MayCall(p)
  /\ Has(kid)
  /\ Begin(p, "Remove", kid, NoKey)
  /\ UNCHANGED <<ringVars, ret, cts, dropped>>

\* Remove: the active kid and an unknown kid are refused; then both maps lose
\* the kid.
RemoveChecks(p, kid) ==
  /\ MayCall(p)
  /\ \/ /\ kid = active
        /\ Returns(p, "isActive") /\ UNCHANGED call
     \/ /\ kid # active /\ ~Has(kid)
        /\ Returns(p, "noKid") /\ UNCHANGED call
     \/ /\ kid # active /\ Has(kid)
        /\ Begin(p, "Remove", kid, NoKey) /\ UNCHANGED ret
  /\ UNCHANGED <<ringVars, cts, dropped>>

RemoveDeletes(p) ==
  /\ call[p].op = "Remove"
  /\ keys' = [keys EXCEPT ![call[p].kid] = NoKey]
  /\ rawKeys' = [rawKeys EXCEPT ![call[p].kid] = NoKey]
  /\ dropped' = dropped \cup {call[p].kid}
  /\ End(p) /\ Returns(p, "nil")
  /\ UNCHANGED <<live, active, cts>>

SetActiveChecks(p, kid) ==
  /\ MayCall(p)
  /\ \/ /\ ~Has(kid)
        /\ Returns(p, "noKid") /\ UNCHANGED call
     \/ /\ Has(kid)
        /\ Begin(p, "SetActive", kid, NoKey) /\ UNCHANGED ret
  /\ UNCHANGED <<ringVars, cts, dropped>>

\* Mutant of SetActiveStores: the former active key is retired with it.
SetActiveStores_Retires(p) ==
  /\ call[p].op = "SetActive"
  /\ active' = call[p].kid
  /\ keys' = [k \in Kids |-> IF k = active /\ k # call[p].kid THEN NoKey ELSE keys[k]]
  /\ rawKeys' = keys'
  /\ End(p) /\ Returns(p, "nil")
  /\ UNCHANGED <<live, cts, dropped>>

SetActiveStores(p) ==
  /\ call[p].op = "SetActive"
  /\ active' = call[p].kid
  /\ End(p) /\ Returns(p, "nil")
  /\ UNCHANGED <<live, keys, rawKeys, cts, dropped>>

\* Seal reads the active kid's cipher, draws a nonce, which may fail, and then
\* reads the active kid again to tag the ciphertext with it.
SealReadsKey(p) ==
  /\ MayCall(p)
  /\ Begin(p, "Seal", active, keys[active])
  /\ UNCHANGED <<ringVars, ret, cts, dropped>>

SealTags(p, aad) ==
  /\ call[p].op = "Seal"
  /\ Len(cts) < MaxCts
  /\ IF call[p].key = NoKey
     THEN Returns(p, "panic") /\ UNCHANGED cts
     ELSE /\ cts' = Append(cts, [ver |-> 3, kid |-> active,
                                 key |-> call[p].key, aad |-> aad])
          /\ Returns(p, "nil")
  /\ End(p)
  /\ UNCHANGED <<ringVars, dropped>>

SealRngFails(p) ==
  /\ call[p].op = "Seal"
  /\ End(p) /\ Returns(p, "rngErr")
  /\ UNCHANGED <<ringVars, cts, dropped>>

\* A version-1 ciphertext written before the ring, by the package's Seal.
SealV1(key, aad) ==
  /\ Len(cts) < MaxCts
  /\ cts' = Append(cts, [ver |-> 1, kid |-> BadKid, key |-> key, aad |-> aad])
  /\ UNCHANGED <<ringVars, call, ret, dropped>>

-----------------------------------------------------------------------------
(* Open.  An input is a string that does not decode, one that decodes to   *)
(* too few bytes, or a version byte, a kid and a body, the body of          *)
(* ciphertext n or, for n = 0, one that nobody sealed.                      *)

Forms == {"notBase64", "short", "shortForKid", "whole"}
Inputs == [form : Forms, ver : {1, 3, 9}, kid : Kids \cup {BadKid},
           body : 0 .. Len(cts)]

AsIssued(n) ==
  [form |-> "whole", ver |-> cts[n].ver, kid |-> cts[n].kid, body |-> n]

GcmOpens(key, body, aad) ==
  body # 0 /\ cts[body].key = key /\ cts[body].aad = aad

\* Version 1: every key of the ring is tried, the active one first.
OpenV1(in, aad) ==
  IF ~Has(active) THEN "panic"
  ELSE IF \E k \in Kids : Has(k) /\ GcmOpens(keys[k], in.body, aad)
       THEN "nil" ELSE "ErrTampered"

\* Version 3: the embedded kid names the key.
OpenV3(in, aad) ==
  CASE in.kid = BadKid -> "ErrInvalidCiphertext"
    [] in.kid # BadKid /\ in.form = "shortForKid" -> "ErrCiphertextTooShort"
    [] OTHER -> IF Has(in.kid) /\ GcmOpens(keys[in.kid], in.body, aad)
                THEN "nil" ELSE "ErrTampered"

OpenResult(in, aad) ==
  CASE in.form = "notBase64" -> "ErrInvalidCiphertext"
    [] in.form = "short" -> "ErrCiphertextTooShort"
    [] in.form \in {"shortForKid", "whole"} /\ in.ver = 1 -> OpenV1(in, aad)
    [] in.form \in {"shortForKid", "whole"} /\ in.ver = 3 -> OpenV3(in, aad)
    [] OTHER -> "ErrUnsupportedVersion"

Open(p, in, aad) ==
  /\ MayCall(p)
  /\ Returns(p, OpenResult(in, aad))
  /\ UNCHANGED <<ringVars, call, cts, dropped>>

-----------------------------------------------------------------------------
Mutate(p) ==
  \/ \E kid \in Kids \cup {BadKid}, key \in Keys \cup {BadKey} :
       NewKeyRing(p, kid, key) \/ AddChecks(p, kid, key)
  \/ \E kid \in Kids \cup {BadKid} : RemoveChecks(p, kid) \/ SetActiveChecks(p, kid)
  \/ AddStores(p) \/ RemoveDeletes(p) \/ SetActiveStores(p)

Use(p) ==
  \/ SealReadsKey(p) \/ SealRngFails(p)
  \/ \E aad \in AADs : SealTags(p, aad)
  \/ \E in \in Inputs, aad \in AADs : Open(p, in, aad)

Next ==
  \/ \E p \in Callers : Mutate(p) \/ Use(p)
  \/ \E key \in Keys, aad \in AADs : SealV1(key, aad)

Spec == Init /\ [][Next]_vars

-----------------------------------------------------------------------------
Ops == {"idle", "Add", "Remove", "SetActive", "Seal"}
Returned == {"none", "nil", "badKid", "ErrInvalidKey", "exists", "isActive",
             "noKid", "rngErr", "panic", "ErrInvalidCiphertext",
             "ErrCiphertextTooShort", "ErrTampered", "ErrUnsupportedVersion"}

\* The ring, the calls on it and the ciphertexts issued have their types: no
\* key of a wrong length is ever stored or sealed with.
TypeOK ==
  /\ live \in BOOLEAN
  /\ active \in Kids \cup {BadKid}
  /\ live => active \in Kids
  /\ keys \in [Kids -> Keys \cup {NoKey}]
  /\ rawKeys \in [Kids -> Keys \cup {NoKey}]
  /\ call \in [Callers -> [op : Ops, kid : Kids \cup {BadKid},
                           key : Keys \cup {NoKey}]]
  /\ ret \in [Callers -> Returned]
  /\ cts \in Seq([ver : {1, 3}, kid : Kids \cup {BadKid}, key : Keys, aad : AADs])
  /\ dropped \in SUBSET Kids

\* Seal always finds a cipher and Open's try-each loop never calls a nil one:
\* no sequence of Add, SetActive and Remove leaves the ring without its active
\* key, and the two maps always agree.
ActiveUsable ==
  /\ \A p \in Callers : ret[p] # "panic"
  /\ live => Has(active)
  /\ rawKeys = keys

\* What the ring sealed, the ring opens, until its kid is removed: rotation
\* never makes a ciphertext unreadable.
SealedReadable ==
  \A n \in 1 .. Len(cts) :
    cts[n].ver = 3 /\ cts[n].kid \notin dropped =>
      OpenResult(AsIssued(n), cts[n].aad) = "nil"

\* A version-3 ciphertext the ring can open, whether or not its kid was ever
\* removed and added again, stops opening only in the effect of a Remove of
\* its own kid, and never while that kid is the active one: no Add, SetActive,
\* Seal or removal of another kid takes it away.
OnlyRemoveLoses ==
  [][\A n \in 1 .. Len(cts) :
       /\ cts[n].ver = 3
       /\ OpenResult(AsIssued(n), cts[n].aad) = "nil"
       /\ OpenResult(AsIssued(n), cts[n].aad)' # "nil"
       => /\ cts[n].kid # active
          /\ \E p \in Callers : call[p].op = "Remove" /\ call[p].kid = cts[n].kid]_vars
=============================================================================
