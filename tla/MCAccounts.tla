------------------------------ MODULE MCAccounts ------------------------------
EXTENDS Accounts

\* Two provider ids of one person, whose address Kakao spells in two ways.
MCEmailOf == <<"e1", "E1">>
MCNormal == [e1 |-> "e1", E1 |-> "e1"]
=============================================================================
