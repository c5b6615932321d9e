------------------------------ MODULE SayGate ------------------------------
(***************************************************************************)
(* The last two checks of Hub._route_say for one agent: its token bucket   *)
(* (core/bucket.py), then its window of recent messages (core/dedup.py).   *)
(* A say that an earlier check refuses touches neither.  Both objects live *)
(* in the Participant, so a reclaim keeps them.                            *)
(*                                                                         *)
(* Time is whole seconds of the monotonic clock, which stands still or     *)
(* moves on between two says.  A token is divided into Window parts, of    *)
(* which Messages come back every second: the refill rate of the code is   *)
(* rate_messages / rate_window tokens a second.                            *)
(*                                                                         *)
(* A definition whose name starts with Slip is a mistake one could make in *)
(* the definition that follows it; nothing uses it.                        *)
(***************************************************************************)
EXTENDS Integers, Sequences

CONSTANTS Key,         \* digests of (to, private, text)
          Burst,       \* Config.rate_burst
          Messages,    \* Config.rate_messages
          Window,      \* Config.rate_window
          Dedup,       \* Config.dedup_window
          MaxNow, MaxSays    \* bounds of the model, in the guards

ASSUME GateAssumption ==
  /\ Burst \in Nat \ {0} /\ Messages \in Nat \ {0} /\ Window \in Nat \ {0}
  /\ Dedup \in Nat /\ MaxNow \in Nat /\ MaxSays \in Nat

VARIABLES now, tokens, refilled,   \* the clock; TokenBucket._tokens and _last
          seen,      \* DedupWindow._seen: the keys on record, and since when
          takes,     \* history: the times at which a token was taken
          sent,      \* history: the says that passed, [key, at]
          told       \* history: the last refusal by the bucket, if no take
                     \* came after it: when, and the parts that were missing

gateVars == <<now, tokens, refilled, seen, takes, sent, told>>

NoRefusal == [at |-> 0, missing |-> 0]
Full      == Burst * Window

GateInit ==
  /\ now = 0 /\ tokens = Full /\ refilled = 0 /\ seen = [k \in {} |-> 0]
  /\ takes = << >> /\ sent = << >> /\ told = NoRefusal

SlipRefill == tokens + (now - refilled) * Messages
\* TokenBucket._refill, the tokens after it.
Refill ==
  LET sum == tokens + (now - refilled) * Messages
  IN  IF sum < Full THEN sum ELSE Full

SlipMissing == ((Window - Refill) \div Messages) * Messages
\* TokenBucket.retry_after, in parts of a token; the code divides by the rate.
Missing == Window - Refill

SlipOnRecord == {k \in DOMAIN seen : seen[k] > now - Dedup}
\* DedupWindow._expire: the keys that are still on record.
OnRecord == {k \in DOMAIN seen : seen[k] >= now - Dedup}

Refused ==     \* rate_limited
  /\ Refill < Window
  /\ told' = [at |-> now, missing |-> Missing]
  /\ UNCHANGED <<seen, takes, sent>>

SlipRecorded(k) == [j \in OnRecord \cup {k} |-> IF j = k THEN now ELSE seen[j]]
\* DedupWindow.seen: a key on record keeps its time.
Recorded(k) == [j \in OnRecord \cup {k} |-> IF j \in OnRecord THEN seen[j] ELSE now]

Checked(k) ==  \* the duplicate has spent its token
  /\ Refill >= Window
  /\ takes' = Append(takes, now)
  /\ sent' = IF k \in OnRecord THEN sent ELSE Append(sent, [key |-> k, at |-> now])
  /\ seen' = Recorded(k)
  /\ told' = NoRefusal

GateSay(k) ==
  /\ Len(takes) < MaxSays
  /\ Refused \/ Checked(k)
  /\ tokens' = IF Refill >= Window THEN Refill - Window ELSE Refill
  /\ refilled' = now
  /\ UNCHANGED now

Pass ==
  /\ now < MaxNow
  /\ now' = now + 1
  /\ UNCHANGED <<tokens, refilled, seen, takes, sent, told>>

GateNext == Pass \/ \E k \in Key : GateSay(k)
GateSpec == GateInit /\ [][GateNext]_gateVars

-----------------------------------------------------------------------------
(* Properties.                                                             *)

Times(f) == \A k \in DOMAIN f : f[k] \in Nat

\* The gate is typed, and the bucket is never over its capacity or in debt.
GateTypeOK ==
  /\ now \in Nat /\ refilled \in 0 .. now /\ tokens \in 0 .. Full
  /\ DOMAIN seen \subseteq Key /\ Times(seen)
  /\ takes \in Seq(Nat) /\ sent \in Seq([key : Key, at : Nat])
  /\ told \in [at : Nat, missing : Nat]

\* docs/PROTOCOL.md, "token bucket, 6 messages / 60 s, burst 3": over any span,
\* says that pass the bucket are no more than the burst and the refill of it.
RateBound ==
  \A i, j \in DOMAIN takes : i <= j =>
    (j - i + 1) * Window <= Full + (takes[j] - takes[i]) * Messages

\* docs/PROTOCOL.md, "an identical (to, private, text) from the same sender
\* within 120 s is rejected": two says that passed and are the same are more
\* than the dedup window apart, whatever was refused in between.
NoTwins ==
  \A i, j \in DOMAIN sent :
    i < j /\ sent[i].key = sent[j].key => sent[j].at - sent[i].at > Dedup

\* A duplicate is refused only on account of a say that did pass within the
\* window: refused repeats do not prolong it.
NoGrudge ==
  \A k \in OnRecord : \E i \in DOMAIN sent :
    sent[i].key = k /\ now - sent[i].at <= Dedup

\* retry_after is enough: a sender that waits for as long as it was told, and
\* says nothing in between, is not refused by the bucket again.
RetryAfterSuffices ==
  told.missing > 0 /\ (now - told.at) * Messages >= told.missing => Refill >= Window
\* What a refused sender may count on (Hub._route_say): the bucket and the
\* window are what their code takes them for, a duplicate was refused for a
\* reason, and a sender that waits as it was told is heard.
RefusalsAreFair == GateTypeOK /\ NoGrudge /\ RetryAfterSuffices

=============================================================================
