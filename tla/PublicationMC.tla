----------------------------- MODULE PublicationMC -----------------------------
(* Instances of Publication, Composition and Identities for TLC. *)
EXTENDS Composition, Identities, TLC

CONSTANTS r1, r2, c1, c2, plain, signed, malformed

\* Parts that would run into one another, were they not escaped, and identities
\* that differ only in where one part ends.
JoinedParts == {<<"a">>, <<"a", "/", "a">>, <<"a", "@", "a">>, <<"a", "|", "a">>}
VersionNumerals == {<<"1">>, <<"1", "1">>}
JoinedIdentities == [id \in Resources |->
    [namespace |-> <<"a">>, version |-> <<"a">>,
     kind |-> IF id = r1 THEN <<"a">> ELSE <<"a", "/", "a">>,
     name |-> IF id = r1 THEN <<"a", "/", "a">> ELSE <<"a">>]]

\* Every way two publications of one identity can agree or differ.
OneIdentity ==
    { [profile |-> "ARTIFACT", id |-> r1, content |-> c1, document |-> signed],
      [profile |-> "ARTIFACT", id |-> r1, content |-> c1, document |-> plain],
      [profile |-> "ARTIFACT", id |-> r1, content |-> c2, document |-> signed],
      [profile |-> "CONFIGURATION", id |-> r1, content |-> c1, document |-> signed],
      [profile |-> "CONFIGURATION", id |-> r1, content |-> c2, document |-> plain] }

WithMalformed ==
    OneIdentity \union
    { [profile |-> "ARTIFACT", id |-> r1, content |-> c1, document |-> malformed],
      [profile |-> "CONFIGURATION", id |-> r1, content |-> c1, document |-> malformed] }

\* Two identities, for a sweep that takes more than one page; one publication
\* leaves an Object that its own retries can never account for.
TwoIdentities ==
    { [profile |-> "ARTIFACT", id |-> r1, content |-> c1, document |-> signed],
      [profile |-> "ARTIFACT", id |-> r2, content |-> c1, document |-> plain],
      [profile |-> "ARTIFACT", id |-> r2, content |-> c1, document |-> malformed],
      [profile |-> "CONFIGURATION", id |-> r2, content |-> c1, document |-> plain] }

MalformedArtifact ==
    { [profile |-> "ARTIFACT", id |-> r1, content |-> c1, document |-> malformed] }

ArtifactOrConfiguration ==
    { [profile |-> "ARTIFACT", id |-> r1, content |-> c1, document |-> plain],
      [profile |-> "CONFIGURATION", id |-> r1, content |-> c1, document |-> plain] }
================================================================================
