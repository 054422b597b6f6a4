------------------------------ MODULE AuditLog ------------------------------
(***************************************************************************)
(* examples/audit_log_chain: a log each of whose entries carries an HMAC   *)
(* over the HMAC of the entry before it and its own text.  Whoever keeps   *)
(* the log, without the secret, may rewrite and drop entries and put any   *)
(* that was ever appended in again, anywhere, and the program goes on      *)
(* appending to what it then finds.                                        *)
(*                                                                         *)
(* A field is the sequence of its words, "|" between them: a field that    *)
(* holds no "|" is one word.                                               *)
(***************************************************************************)
EXTENDS Clock, Hmac, Sequences, SequencesExt

CONSTANTS
  Actors, Actions, Resources,  \* what the fields of an entry may be
  secret,
  MaxAppends,  \* bound: calls of Append
  MaxEdits     \* bound: changes made to the log outside the program

ASSUME AuditAssumption ==
  /\ \A f \in Actors \cup Actions \cup Resources : f \in Seq(Range(f)) /\ Len(f) > 0
  /\ MaxAppends \in Nat /\ MaxEdits \in Nat

VARIABLES
  entries,  \* the log
  truth,    \* history: the entries as Append made them, and the edits before
  edits     \* history: how often the log was changed outside the program

logVars == <<entries, truth, edits>>
vars == <<clockVars, logVars>>

AuditEntry(time, actor, action, resource) ==
  [Timestamp |-> time, Actor |-> actor, Action |-> action, Resource |-> resource]

\* The text of an entry: its timestamp and fields with "|" between them.
payload_NoResource(e) == <<e.Timestamp, e.Actor \o e.Action>>  \* mutant: a field is left out
payload(e) == <<e.Timestamp, e.Actor \o e.Action \o e.Resource>>

NoMAC == [len |-> 0]

\* What the MAC of an entry covers.
Chained_Alone(prev, e) == <<payload(e)>>  \* mutant: the MAC before it is left out
Chained(prev, e) == <<prev, payload(e)>>

-----------------------------------------------------------------------------
Init ==
  /\ now = 0 /\ backs = 0
  /\ entries = <<>> /\ truth = <<>> /\ edits = 0

\* The MAC Append chains to.
LastMAC_First == IF entries = <<>> THEN NoMAC ELSE Head(entries).MAC  \* mutant: the first
LastMAC == IF entries = <<>> THEN NoMAC ELSE Last(entries).MAC

AppendEntry(actor, action, resource) ==
  LET e == AuditEntry(now, actor, action, resource)
      mac == Sign(secret, Chained(LastMAC, e))
  IN /\ Len(truth) < MaxAppends
     /\ entries' = Append(entries, [body |-> e, MAC |-> mac])
     /\ truth' = Append(truth, [body |-> e, MAC |-> mac, edits |-> edits])
     /\ UNCHANGED <<clockVars, edits>>

\* The loop of AuditLog.Verify: the number of entries before the first that
\* breaks the chain (all of them, where the code returns -1).
Breaks(i) ==
  LET prev == IF i = 1 THEN NoMAC ELSE entries[i - 1].MAC
  IN ~Verify(secret, Chained(prev, entries[i].body), entries[i].MAC)
Sound ==
  LET bad == {i \in DOMAIN entries : Breaks(i)}
  IN IF bad = {} THEN Len(entries) ELSE Min(bad) - 1

-----------------------------------------------------------------------------
\* The log is changed outside the program.
Edited(new) ==
  /\ edits < MaxEdits
  /\ new # entries
  /\ entries' = new /\ edits' = edits + 1
  /\ UNCHANGED <<clockVars, truth>>

Rewrite(i, e) == Edited([entries EXCEPT ![i].body = e])
Drop(i) == Edited(RemoveAt(entries, i))
PutIn(k, j) ==
  Edited(InsertAt(entries, j, [body |-> truth[k].body, MAC |-> truth[k].MAC]))

Next ==
  \/ (Tick \/ \E t \in 0 .. MaxTime : SetBack(t)) /\ UNCHANGED logVars
  \/ \E actor \in Actors, action \in Actions, resource \in Resources :
       \/ AppendEntry(actor, action, resource)
       \/ \E i \in DOMAIN entries, time \in 0 .. MaxTime :
            Rewrite(i, AuditEntry(time, actor, action, resource))
  \/ \E i \in DOMAIN entries : Drop(i)
  \/ \E k \in DOMAIN truth, j \in 1 .. Len(entries) + 1 : PutIn(k, j)

Spec == Init /\ [][Next]_vars

-----------------------------------------------------------------------------
Texts(log) == [i \in DOMAIN log |-> payload(log[i].body)]

\* s is t with elements left out.
InOrderOf(s, t) ==
  \E at \in [DOMAIN s -> DOMAIN t] :
    \A i \in DOMAIN s : s[i] = t[at[i]] /\ (i > 1 => at[i - 1] < at[i])

\* The chain never breaks by itself, whatever the clock does.
HonestVerifies == edits = 0 => Sound = Len(entries)

\* The part of the log that AuditLog.Verify vouches for was appended in this
\* order, none of it twice: whatever was rewritten, dropped or put in again.
\* If nothing was appended to a changed log, it is a beginning of what was
\* appended: entries are missing at the end only.  Where the program appended
\* to a log that had lost its end, the entries it lost are missing before
\* those, and the log still verifies.
VouchedFor ==
  LET good == SubSeq(Texts(entries), 1, Sound)
  IN /\ InOrderOf(good, Texts(truth))
     /\ (\A k \in DOMAIN truth : truth[k].edits = 0) => IsPrefix(good, Texts(truth))

\* An entry that was appended with no "|" in any of its three fields is vouched
\* for with these very fields, although the text that is signed only joins
\* them: no other actor, action and resource, with or without a "|", has it.
FieldsKept ==
  \A i \in 1 .. Sound, k \in DOMAIN truth :
    LET t == truth[k].body
    IN /\ payload(entries[i].body) = payload(t)
       /\ Len(t.Actor) = 1 /\ Len(t.Action) = 1 /\ Len(t.Resource) = 1
       => entries[i].body = t
=============================================================================
