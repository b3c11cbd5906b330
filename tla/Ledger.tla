------------------------------- MODULE Ledger -------------------------------
(***************************************************************************)
(* What project-fs promises about mutations, without journals, staging and *)
(* history: a mutation ID is open until it is applied, once, under a       *)
(* version of its own, or retired, for good.  deployment.yaml changes when *)
(* a mutation is applied and when somebody edits it from outside; nothing  *)
(* else, and in particular no recovery, ever touches it.                   *)
(***************************************************************************)
CONSTANTS Mutations, Versions, NoVersion, Open, Retired

VARIABLES current,  \* the content of deployment.yaml
          outcome   \* Open, Retired, or the version a mutation was applied as

Outcomes == Versions \cup {Open, Retired}

Init == /\ current \in Versions
        /\ outcome = [m \in Mutations |-> Open]

Apply(m, v) ==
  /\ outcome[m] = Open
  /\ \A n \in Mutations : outcome[n] # v
  /\ outcome' = [outcome EXCEPT ![m] = v]
  /\ current' = v

Retire(m) ==
  /\ outcome[m] = Open
  /\ outcome' = [outcome EXCEPT ![m] = Retired]
  /\ UNCHANGED current

Edit(v) ==
  /\ current' = v
  /\ UNCHANGED outcome

Next == \/ \E m \in Mutations, v \in Versions : Apply(m, v)
        \/ \E m \in Mutations : Retire(m)
        \/ \E v \in Versions \cup {NoVersion} : Edit(v)

Spec == Init /\ [][Next]_<<current, outcome>>
=============================================================================
