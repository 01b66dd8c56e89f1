---------------------------- MODULE TrialLedger ----------------------------
(***************************************************************************)
(* What the search database promises to whoever reads it, without the      *)
(* engine: for every candidate a ledger of numbered attempts, of which at  *)
(* most one is live, opened in increasing order and closed once, and one   *)
(* final verdict.  "done" is only ever said of a candidate whose last      *)
(* attempt was measured.                                                   *)
(***************************************************************************)
EXTENDS Naturals

CONSTANTS Keys, MaxRetries

VARIABLES
    ledger,   \* [Keys -> [0 .. MaxRetries -> {"none", "live", "ok", "bad"}]]
    verdict   \* [Keys -> {"open", "done", "dropped"}]

vars == <<ledger, verdict>>

Attempts == 0 .. MaxRetries

Init ==
    /\ ledger = [k \in Keys |-> [a \in Attempts |-> "none"]]
    /\ verdict = [k \in Keys |-> "open"]

Idle(k) == \A a \in Attempts : ledger[k][a] # "live"

Open(k, a) ==
    /\ verdict[k] = "open"
    /\ Idle(k)
    /\ \A b \in Attempts : b >= a => ledger[k][b] = "none"
    /\ ledger' = [ledger EXCEPT ![k][a] = "live"]
    /\ UNCHANGED verdict

Close(k, a, r) ==
    /\ ledger[k][a] = "live"
    /\ ledger' = [ledger EXCEPT ![k][a] = r]
    /\ UNCHANGED verdict

Done(k) ==
    /\ verdict[k] = "open"
    /\ \E a \in Attempts :
          /\ ledger[k][a] = "ok"
          /\ \A b \in Attempts : b > a => ledger[k][b] = "none"
    /\ verdict' = [verdict EXCEPT ![k] = "done"]
    /\ UNCHANGED ledger

Drop(k) ==
    /\ verdict[k] = "open"
    /\ Idle(k)
    /\ verdict' = [verdict EXCEPT ![k] = "dropped"]
    /\ UNCHANGED ledger

\* The recovery sweep: every live attempt is closed as lost, and some open
\* candidates are given up.
Sweep ==
    /\ ledger' = [k \in Keys |-> [a \in Attempts |->
                     IF ledger[k][a] = "live" THEN "bad" ELSE ledger[k][a]]]
    /\ \E S \in SUBSET {k \in Keys : verdict[k] = "open"} :
          verdict' = [k \in Keys |-> IF k \in S THEN "dropped" ELSE verdict[k]]

Next ==
    \/ \E k \in Keys, a \in Attempts :
          Open(k, a) \/ \E r \in {"ok", "bad"} : Close(k, a, r)
    \/ \E k \in Keys : Done(k) \/ Drop(k)
    \/ Sweep

Spec == Init /\ [][Next]_vars
=============================================================================
