---------------------------- MODULE MCRegistrySeed ----------------------------
(* RegistrySeed with the rows of one terminal and two releases, as bootstrap.py tells them. *)
EXTENDS RegistrySeed

MCRow(version, review_state, enabled) ==
  [version |-> version, review_state |-> review_state, enabled |-> enabled]

\* The directory, a terminal's page and its schedule.  Before the current release the page was
\* approved for metadata only and the schedule was approved for parsing.
Directory == MCRow("seed-not-approved-v1", "needs_review", FALSE)
MCReference ==
  [before  |-> <<Directory, MCRow("terminal-page-metadata-v1", "approved", TRUE),
                 MCRow("schedule-artifact-parse-v1", "approved", TRUE)>>,
   current |-> <<Directory, MCRow("terminal-page-parse-v2", "approved", TRUE),
                 MCRow("schedule-artifact-user-open-v2", "restricted", TRUE)>>]
MCUpgradable ==
  [before |-> {}, current |-> {"terminal-page-metadata-v1", "schedule-artifact-parse-v1"}]
MCGeneration ==
  [v \in {"seed-not-approved-v1", "terminal-page-metadata-v1", "schedule-artifact-parse-v1",
          "terminal-page-parse-v2", "schedule-artifact-user-open-v2", "incident"} |->
     CASE v = "seed-not-approved-v1" -> 0
       [] v \in {"terminal-page-metadata-v1", "schedule-artifact-parse-v1"} -> 1
       [] OTHER -> 2]
MCVersion == DOMAIN MCGeneration

\* A pause, a review asked for, an own version, a source switched off.
MCPersonsRows ==
  << { MCRow("seed-not-approved-v1", "needs_review", TRUE), MCRow("incident", "approved", TRUE) },
     { MCRow("terminal-page-metadata-v1", "paused", TRUE),
       MCRow("terminal-page-metadata-v1", "approved", FALSE),
       MCRow("incident", "approved", FALSE) },
     { MCRow("schedule-artifact-parse-v1", "needs_review", TRUE),
       MCRow("schedule-artifact-parse-v1", "restricted", TRUE) } >>
===============================================================================
