-------------------------------- MODULE Labs --------------------------------
(***************************************************************************)
(* The labs side by side.  They share nothing: which of them a behaviour   *)
(* is about is chosen at its beginning, and the others stay in their       *)
(* initial state, so that one run can check them all.  The identity        *)
(* provider is there twice: on its own with time, and without time         *)
(* together with the webhook, where nothing depends on it.                 *)
(***************************************************************************)
EXTENDS Response, Vpn, Provisioning, NetScan, SecretScan, SiemSetup

VARIABLE lab

labVars == <<lab, vars, soar, late, vpnVars, provVars, scanVars, scannerVars, setupVars>>

LInit ==
    /\ lab \in {"tokens", "response", "vpn", "provisioning", "netscan", "secretscan", "siemsetup"}
    /\ RInit /\ (lab # "response" => conf.dryRun)
    /\ VpnInit /\ ProvInit /\ ScanInit /\ SecretInit /\ SetupInit

LNext ==
    /\ UNCHANGED lab
    /\ \/ /\ lab = "tokens" /\ ProviderStep
          /\ UNCHANGED <<vpnVars, provVars, scanVars, scannerVars, setupVars>>
       \/ /\ lab = "response" /\ RNext /\ UNCHANGED clock
          /\ UNCHANGED <<vpnVars, provVars, scanVars, scannerVars, setupVars>>
       \/ /\ lab = "vpn" /\ VpnNext
          /\ UNCHANGED <<vars, soar, late, provVars, scanVars, scannerVars, setupVars>>
       \/ /\ lab = "provisioning" /\ ProvNext
          /\ UNCHANGED <<vars, soar, late, vpnVars, scanVars, scannerVars, setupVars>>
       \/ /\ lab = "netscan" /\ ScanNext
          /\ UNCHANGED <<vars, soar, late, vpnVars, provVars, scannerVars, setupVars>>
       \/ /\ lab = "secretscan" /\ SecretNext
          /\ UNCHANGED <<vars, soar, late, vpnVars, provVars, scanVars, setupVars>>
       \/ /\ lab = "siemsetup" /\ SetupNext
          /\ UNCHANGED <<vars, soar, late, vpnVars, provVars, scanVars, scannerVars>>

LSpec == LInit /\ [][LNext]_labVars

-----------------------------------------------------------------------------
\* Each lab's variables keep to their values.
LabsTypeOK == VpnTypeOK /\ ProvTypeOK /\ ScanTypeOK /\ SecretTypeOK /\ SetupTypeOK

=============================================================================
