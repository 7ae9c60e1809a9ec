---------------------------- MODULE MCTripRequests ----------------------------
(* Small instances of TripRequests for TLC. *)
EXTENDS TripRequests

Deployment(development, passphrase, secret, api) ==
  [development |-> development, passphrase |-> passphrase, secret |-> secret, api |-> api]

\* The production deployment, one with rotated secrets, one that lost its session secret, one
\* without the API's settings, and a developer's own.
TripsEnvironments ==
  { Deployment(FALSE, "open sesame", "old secret", TRUE),
    Deployment(FALSE, "open sesame", "new secret", TRUE),
    Deployment(TRUE, "open sesame", Missing, TRUE),
    Deployment(TRUE, Missing, Missing, FALSE) }
UnrecordedEnvironments == { Deployment(FALSE, "open sesame", "old secret", TRUE) }
===============================================================================
