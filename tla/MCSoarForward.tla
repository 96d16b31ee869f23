---------------------------- MODULE MCSoarForward ----------------------------
(* A file of two alerts from one address; the second carries a token_jti.   *)
EXTENDS SoarForward

CONSTANTS a1, a2, ip

MCAlertIp == [a \in {a1, a2} |-> ip]
MCFile    == <<a1, a2>>

\* Nothing is refused: the webhook is well formed and the address in scope.
MCConfig  == {[dryRun |-> d, url |-> "valid", scope |-> {ip}] : d \in BOOLEAN}
=============================================================================
