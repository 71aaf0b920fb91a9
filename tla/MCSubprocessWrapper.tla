------------------------ MODULE MCSubprocessWrapper ------------------------
(* Instantiates SubprocessWrapper for TLC: the parent sends two           *)
(* whitelisted methods (one with a reply), a method outside the          *)
(* whitelist, and the control commands stop and exit; it subscribes to   *)
(* the reply, to the "signal" notification and to "exit".                *)
EXTENDS SubprocessWrapper

MCWhitelist == {"echo", "ping"}
MCMethods == {"echo", "ping", "bogus"}
MCUserSubs == {"replied", "signal", "exit"}

\* For the runs about signals and the exit command: the parent sends the
\* one whitelisted method with a reply.
MCSignalTags == {"echo"}
MCEchoWhitelist == {"echo"}

\* The exit command alone, and every command together.
MCExitTags == {"echo", "exit"}
MCAllTags == {"echo", "ping", "bogus", "stop", "exit"}

=============================================================================
