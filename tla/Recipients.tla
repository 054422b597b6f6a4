----------------------------- MODULE Recipients -----------------------------
(***************************************************************************)
(* Who can read a message of Wire: tenants whose keys are derived from one *)
(* root key (hkdf.go, examples/tenant_keys) use Seal and SealChaCha20,     *)
(* holders of an X25519 key pair are written to with SealAsymmetric        *)
(* (asymmetric.go), and a reader with several keys tries them in turn      *)
(* (examples/key_rotation).  The keys of KeyRing and EnvelopeSealer are    *)
(* modelled with them; here their messages only must not be taken for      *)
(* others.                                                                 *)
(***************************************************************************)
EXTENDS Wire, Sequences

CONSTANTS
  Parties,   \* tenants, who also hold a key pair each
  Root,      \* the application's root key
  NoKey      \* a key of a wrong length, or none

ASSUME RecipientsAssumption == NoKey # Root /\ NoKey \notin Parties

\* Every message is shorter than the number of values of the 32-bit length of
\* a wrapped key (4 GiB): in EnvelopeSealer.Open the slice bound 5 + wrappedLen
\* is a uint32, and with a longer message it could wrap.
MessagesFit ==
  /\ \A n \in Lengths : n < LenMod
  /\ X25519KeySize + aeadMinSize + MaxPt < LenMod
  /\ 1 + MaxKidLen + aeadMinSize + MaxPt < LenMod
  /\ 5 + MaxWrapped + aeadMinSize + MaxPt < LenMod

AEADKeySize == 32

VARIABLES
  owner,    \* history: whom the message was sealed for
  under,    \* the key its cipher was given
  readers,  \* history: whose keys the opener was called with
  err       \* what it returned

vars == <<wireVars, owner, under, readers, err>>

-----------------------------------------------------------------------------
\* HKDF and X25519 are ideal: a derived key is what it was derived from, and
\* both ends of a key agreement compute the same secret.
DeriveKey(master, info, length) ==
  IF length <= 0 \/ length > 255 * 32 \/ master = NoKey THEN NoKey
  ELSE [master |-> master, info |-> info, len |-> length]

deriveTenantKey(p) == DeriveKey(Root, p, AEADKeySize)

X25519(private, public) == [agreed |-> {private, public}]

\* The key that Seal..., called for p, gives its cipher; the key pair drawn
\* for each SealAsymmetric call is "eph".
SealKey(kind, p) ==
  IF kind = "v5" THEN X25519("eph", p) ELSE deriveTenantKey(p)

\* The key that p's opener gives its cipher.  The public key it finds in an
\* untouched message is the sender's.
OpenKey(name, p) ==
  IF name = "OpenAsymmetric" THEN X25519(p, "eph") ELSE deriveTenantKey(p)

-----------------------------------------------------------------------------
Init ==
  /\ InitWire
  /\ owner \in Parties
  /\ under = SealKey(layout.kind, owner)
  /\ readers = <<>> /\ err = "none"

\* The errors an opener may return for the parts r, with p's key.  In a
\* message that was touched the sender's public key may be one X25519 refuses.
Opened(name, r, p) ==
  IF p = NoKey THEN {"ErrInvalidKey"}
  ELSE IF r.err # "nil" THEN {r.err}
  ELSE IF layout = NoLayout
       THEN {"ErrTampered"} \cup IF name = "OpenAsymmetric" THEN {"x25519"} ELSE {}
  ELSE IF OpenKey(name, p) = under THEN {"nil"} ELSE {"ErrTampered"}

\* An opener is called with the keys of ps.  The key is checked first.
Called(name, r, ps, errs) ==
  /\ Return(name, IF \A i \in DOMAIN ps : ps[i] = NoKey THEN Fails("ErrInvalidKey") ELSE r)
  /\ readers' = ps
  /\ err' \in errs
  /\ UNCHANGED <<raw, layout, owner, under>>

OpenWith(name, r, p) == Called(name, r, <<p>>, Opened(name, r, p))

\* MultiKeyReader.Open: the first key that opens, or the last key's error.
MultiOpened_First(ps) == Opened("Open", Open, Head(ps))  \* mutant: the first key decides
MultiOpened(ps) ==
  IF \E i \in DOMAIN ps : "nil" \in Opened("Open", Open, ps[i]) THEN {"nil"}
  ELSE Opened("Open", Open, ps[Len(ps)])

MultiKeyReaderOpen(ps) == Called("MultiKeyReader.Open", Open, ps, MultiOpened(ps))

\* KeyRing and EnvelopeSealer on a message, whatever keys they hold.
OpenElsewhere(name, r) ==
  /\ Return(name, r)
  /\ err' = IF r.err = "nil" THEN "elsewhere" ELSE r.err
  /\ UNCHANGED <<raw, layout, owner, under, readers>>

Next ==
  \/ Touch /\ UNCHANGED <<owner, under, readers, err>>
  \/ \E p \in Parties \cup {NoKey} :
       \/ OpenWith("Open", Open, p)
       \/ OpenWith("OpenChaCha20", OpenChaCha20, p)
       \/ OpenWith("OpenAsymmetric", OpenAsymmetric, p)
  \/ \E p \in Parties : OpenWith("Sealer.Open", SealerOpen, p)
  \/ \E p, q \in Parties \cup {NoKey} : p # q /\ MultiKeyReaderOpen(<<p, q>>)
  \/ OpenElsewhere("KeyRing.Open", KeyRingOpen)
  \/ OpenElsewhere("EnvelopeSealer.Open", EnvelopeOpen)

Spec == Init /\ [][Next]_vars

-----------------------------------------------------------------------------
Own(name) ==
  \/ layout.kind = "v1" /\ name \in {"Open", "Sealer.Open", "MultiKeyReader.Open"}
  \/ layout.kind = "v2" /\ name = "OpenChaCha20"
  \/ layout.kind = "v5" /\ name = "OpenAsymmetric"

\* A message is read by its own format's opener with its owner's key, alone or
\* among others, as long as nobody touched it: always then and never else.
\* With other keys the answer is ErrTampered, as if the message had been
\* touched, unless the last key tried has a wrong length and hides it.
OnlyOwnerReads ==
  readers # <<>> =>
    LET own == \E i \in DOMAIN readers : readers[i] = owner
    IN /\ (err = "nil") = (Own(opener) /\ own)
       /\ Own(opener) /\ ~own =>
            err = IF readers[Len(readers)] = NoKey THEN "ErrInvalidKey" ELSE "ErrTampered"
=============================================================================
