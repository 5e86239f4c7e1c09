---------------------------- MODULE MCConnection ----------------------------
(***************************************************************************)
(* Connection for TLC.  EndlessSpec has a client that may go on sending    *)
(* for ever after a QUIT or broken framing: requests over and done with    *)
(* are then forgotten and the others renumbered, so that MaxRequests       *)
(* bounds only those that are under way.                                   *)
(***************************************************************************)
EXTENDS Connection, SequencesExt

\* Request n has been sent and consumed to its end, and its replies received.
Finished(n) ==
  /\ n <= whole /\ n # held
  /\ \A u \in Range(in) \cup Range(wire) : u[1] # n
  /\ n \notin Range(out) \cup Range(queued)

TalkedOn == \E m \in Ending : m < Len(sent)

\* No step of the system: only the numbers change, and what the client got is dropped.
\* That it has talked on after a QUIT or broken framing is not forgotten.
Forget(n) ==
  LET number(i) == IF i > n THEN i - 1 ELSE i
      units(s) == [i \in DOMAIN s |-> <<number(s[i][1]), s[i][2]>>]
      replies(s) == [i \in DOMAIN s |-> number(s[i])]
  IN  /\ Finished(n) /\ pc # "closed" /\ TalkedOn
      /\ sent' = RemoveAt(sent, n) /\ whole' = whole - 1
      /\ wire' = units(wire) /\ in' = units(in)
      /\ queued' = replies(queued) /\ out' = replies(out)
      /\ held' = number(held) /\ got' = <<>>
      /\ TalkedOn'
      /\ UNCHANGED <<client, pc, event, close_after_write, write_armed>>

ForgetAny == \E n \in 1..whole : Forget(n)

EndlessSpec == Init /\ [][Next \/ ForgetAny]_vars /\ Fairness
=============================================================================
