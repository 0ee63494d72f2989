----------------------------- MODULE RemoteFeed -----------------------------
(***************************************************************************)
(* What the remote half of the daemon promises about Drive's change feed,  *)
(* independently of pages, batches, channels, retries and restarts:        *)
(* the persisted cursor moves past the latest change of a file only once   *)
(* the daemon has settled that change.                                     *)
(***************************************************************************)
EXTENDS Naturals

CONSTANT Files              \* Drive file ids

VARIABLES head,             \* position of the newest entry of the feed
          last,             \* position of the latest change of each file
          settled,          \* files whose latest change has been settled
          cursor            \* the persisted page token

feedVars == <<head, last, settled, cursor>>

Init == /\ head = 0
        /\ last = [f \in Files |-> 0]
        /\ settled = Files
        /\ cursor = 0

(* A change supersedes the earlier ones of the same file and is unsettled. *)
Change(f) == /\ head' = head + 1
             /\ last' = [last EXCEPT ![f] = head + 1]
             /\ settled' = settled \ {f}
             /\ UNCHANGED cursor

Settle(f) == /\ settled' = settled \cup {f}
             /\ UNCHANGED <<head, last, cursor>>

(* The cursor advances over a range of the feed that is settled entirely.  *)
Advance == \E c \in cursor..head :
              /\ \A f \in Files : last[f] \in cursor+1..c => f \in settled
              /\ cursor' = c
              /\ UNCHANGED <<head, last, settled>>

Next == \/ \E f \in Files : Change(f) \/ Settle(f)
        \/ Advance

Spec == Init /\ [][Next]_feedVars
=============================================================================
