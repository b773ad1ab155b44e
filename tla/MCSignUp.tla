------------------------------ MODULE MCSignUp -------------------------------
(***************************************************************************)
(* Small instance of SignUp: two newcomers of one name.                    *)
(***************************************************************************)
EXTENDS SignUp

CONSTANTS kim, lee, nohandle

MCNewcomer == {kim, lee}

MCSuggested == [p \in MCNewcomer |-> "kim"]

\* A username of their own, and one that the API may have given out.
MCWanted == {<<"ace", 1>>, <<"kim", 2>>}

MCHomePage == {"home"}
=============================================================================
