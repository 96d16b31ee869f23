------------------------------- MODULE MCSoar -------------------------------
(* Small instances of Soar: two threads, two alerts from one address, and   *)
(* the environments an operator may restart the container with.             *)
EXTENDS Soar, TLC

CONSTANTS a1, a2, ip, r1, r2

MCAlertIp  == [a \in {a1, a2} |-> ip]
Env(d, u, s) == [dryRun |-> d, url |-> u, scope |-> s]

\* Rehearsal and real mode, with and without a webhook, and the environments in
\* which a step is refused.
MCConfig == {Env(TRUE, "valid", {}), Env(FALSE, "valid", {ip}), Env(FALSE, "none", {ip}),
             Env(FALSE, "valid", {}), Env(TRUE, "invalid", {})}

Threads == Permutations({r1, r2})
=============================================================================
