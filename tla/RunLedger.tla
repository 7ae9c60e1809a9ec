------------------------------- MODULE RunLedger -------------------------------
(***************************************************************************)
(* What a source-check run promises, whatever happens inside it: its terms *)
(* are the registry and the switches in force at one moment, and later it  *)
(* adds to the history, in one step, rows those terms permit, at most one  *)
(* per source; or it adds nothing.  Nothing else ever touches the history. *)
(* SourceChecks implements this specification.                             *)
(***************************************************************************)
EXTENDS SourceGate

CONSTANTS Run, ProviderId

VARIABLES registry, switches, observations,
          stage,   \* Run -> "new", "open" or "closed"
          terms    \* Run -> the registry and switches the run was opened under

vars == <<registry, switches, observations, stage, terms>>

\* Rows run r may store under terms t.
Permits(t, r, row) ==
  LET obs == row.observation
      entry == t.registry[obs.source]
  IN /\ row.run = r
     /\ obs \in SourceObservation
     /\ obs.provider = ProviderId
     /\ Readable(obs.source, entry, ProviderId, t.switches)
     /\ validate_against_policy(obs.source, entry, obs, t.switches)

OnePerSource(rows) ==
  \A a, b \in rows : a.observation.source = b.observation.source => a = b

Init ==
  /\ registry \in [Source -> Entry]
  /\ switches = {}
  /\ observations = {}
  /\ stage = [r \in Run |-> "new"]
  /\ terms = [r \in Run |-> [registry |-> registry, switches |-> switches]]

\* The operator writes the registry and the switches as they please.
Govern ==
  /\ registry' \in [Source -> Entry]
  /\ switches' \in SUBSET KillSwitch
  /\ UNCHANGED <<observations, stage, terms>>

Open(r) ==
  /\ stage[r] = "new"
  /\ stage' = [stage EXCEPT ![r] = "open"]
  /\ terms' = [terms EXCEPT ![r] = [registry |-> registry, switches |-> switches]]
  /\ UNCHANGED <<registry, switches, observations>>

\* A run that never opens.
Decline(r) ==
  /\ stage[r] = "new"
  /\ stage' = [stage EXCEPT ![r] = "closed"]
  /\ UNCHANGED <<registry, switches, observations, terms>>

\* The one step in which the run publishes what it has, possibly nothing.
Close(r) ==
  /\ stage[r] = "open"
  /\ stage' = [stage EXCEPT ![r] = "closed"]
  /\ observations \subseteq observations'
  /\ LET batch == observations' \ observations IN
     OnePerSource(batch) /\ \A row \in batch : Permits(terms[r], r, row)
  /\ UNCHANGED <<registry, switches, terms>>

Next == Govern \/ \E r \in Run : Open(r) \/ Decline(r) \/ Close(r)

Spec == Init /\ [][Next]_vars
================================================================================
