------------------------ MODULE MCCredentialProvider ------------------------
(* CredentialProvider with small sets of tiles, users and passwords.         *)
EXTENDS CredentialProvider, TLC

CONSTANTS t1, t2

\* The tiles are alike.
TileSymmetry == Permutations({t1, t2})

\* A local user, whose domain and name have different lengths, and another.
OneUser == {[domain |-> <<"P", "C">>, name |-> <<"m">>, isLocal |-> TRUE]}
MCUsers == OneUser \cup
    {[domain |-> <<"M">>, name |-> <<"m">>, isLocal |-> FALSE]}

\* A UNICODE_STRING has at most three characters.
MCUShortMax == 7

\* The phone's password is not the typed one, and with its encryption it just
\* fits; the other one fits only as it is.
MCTypedPasswords == {<<"x">>, <<"x", "y", "z">>}
MCPhonePassword == <<"k", "l">>

LogonOnly == {"CPUS_LOGON"}
MCUsageScenarios == {"CPUS_LOGON", "CPUS_UNLOCK_WORKSTATION", "CPUS_CREDUI"}
=============================================================================
