--------------------------- MODULE MCBucketStore ---------------------------
(***************************************************************************)
(* An instance of BucketStore for TLC: names that are prefixes of each     *)
(* other, names that look like keys, and the empty name.                   *)
(***************************************************************************)
EXTENDS BucketStore

SomeFields  == {<<"service">>, <<"service", "2">>, <<"service", "|", "host">>}
SomeGroups == {<<"a">>, <<"a", "/", "0">>, <<"/", "0">>, <<>>}
=============================================================================
