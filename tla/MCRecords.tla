------------------------------ MODULE MCRecords ------------------------------
(***************************************************************************)
(* Three parts that share no state: the accounts of a plant; many writers *)
(* of one log and what seals it; and the certificate of one run over a log *)
(* taken as one record after another.  A behaviour is of one part.         *)
(***************************************************************************)
EXTENDS AuditLog, Certificates, MCAccounts

VARIABLE part

PartsInit ==
    /\ part \in {"accounts", "log", "certificate"}
    /\ Init /\ LogInit /\ CertificatesInit

PartsNext ==
    \/ part = "accounts" /\ Next /\ UNCHANGED <<part, logVars, certificateVars>>
    \/ part = "log" /\ LogNext /\ UNCHANGED <<part, vars, certificateVars>>
    \/ part = "certificate" /\ CertificatesNext /\ UNCHANGED <<part, vars, logVars>>

PartsSpec == PartsInit /\ [][PartsNext]_<<part, vars, logVars, certificateVars>>
=============================================================================
