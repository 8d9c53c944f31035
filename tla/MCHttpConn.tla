----------------------------- MODULE MCHttpConn -----------------------------
(* Small instances of HttpConn for TLC. *)
EXTENDS HttpConn

End == <<"CR", "LF">>
Get       == <<"GET">> \o End \o End
KeptPost  == <<"POST">> \o End \o <<"keep-alive">> \o End \o <<"length">> \o End \o End
             \o <<"b1", "b2">>
Junk      == <<"junk">> \o End
Malformed == <<"GET", "LF">>

MCRequests    == {Get, KeptPost, Junk, Malformed}
ASSUME RequestsAreWhole == WholeRequests

MCFileResults == {"FILE_REQUEST", "EMPTY_FILE", "NO_RESOURCE", "FORBIDDEN_REQUEST"}
=============================================================================
