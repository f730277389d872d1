---------------------------- MODULE VersionGate ----------------------------
(***************************************************************************)
(* What version gating promises the callers of one scoped client: there is *)
(* one server status, settled once, and as soon as it is settled it alone  *)
(* determines the verdict on every caller's requirements.  A caller without*)
(* requirements needs no status; only while none is settled may a caller   *)
(* fail for any other reason.  Implemented by ScopedClient.                *)
(***************************************************************************)
EXTENDS Integers, Sequences

CONSTANTS Callers, Statuses, Malformed, NotCached

VARIABLES
  reqs,    \* the requirements of each caller's model
  status,  \* the settled status
  verdict  \* the verdict on each caller

vars == <<reqs, status, verdict>>

Init ==
  /\ status = NotCached
  /\ verdict = [c \in Callers |-> "undecided"]

Readable(s) == s.flavor = "serverless" \/ s.version # Malformed
Meets(s, rs) == \A i \in 1 .. Len(rs) : s.flavor = "serverless" \/ s.version \in rs[i]

Settle ==
  /\ status = NotCached /\ status' \in Statuses
  /\ UNCHANGED <<reqs, verdict>>

Decide(c, v) ==
  /\ verdict[c] = "undecided" /\ verdict' = [verdict EXCEPT ![c] = v]
  /\ UNCHANGED <<reqs, status>>

Pass(c) ==
  /\ reqs[c] # <<>> => status # NotCached /\ Readable(status) /\ Meets(status, reqs[c])
  /\ Decide(c, "passed")

Reject(c) ==
  /\ status # NotCached /\ Readable(status) /\ ~Meets(status, reqs[c])
  /\ Decide(c, "unsupported")

GiveUp(c) ==
  /\ status = NotCached \/ ~Readable(status)
  /\ Decide(c, "failed")

Next == Settle \/ \E c \in Callers : Pass(c) \/ Reject(c) \/ GiveUp(c)

Spec == Init /\ [][Next]_vars
=============================================================================
