-------------------------- MODULE MCAvahiPublisher --------------------------
(* Values for the avahi publisher model.                                    *)
EXTENDS AvahiPublisher

\* avahi.SERVER_REGISTERING, SERVER_RUNNING, SERVER_COLLISION, SERVER_FAILURE.
MCServerStates == {"registering", "running", "collision", "failure"}
\* Without name collisions.
MCQuietStates == {"registering", "running"}
\* The constructor's TXT record and one update.
MCTxts == {"txt0", "txt1"}
\* listen_on: a wildcard host ("0.0.0.0") and a host on one interface.
MCAddrs == {"any", "lan"}
MCWildcard == {"any"}

=============================================================================
